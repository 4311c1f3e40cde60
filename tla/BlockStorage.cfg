SPECIFICATION Spec
CONSTANTS
  w1 = w1
  w2 = w2
  r1 = r1
  Writers = {w1, w2}
  Readers = {r1}
  StartBlocks = 1
  MaxBlocks = 2
  MaxXid = 4
  MaxCreates = 2
  MaxVacuums = 2
SYMMETRY Symmetry
INVARIANT OneOwner
INVARIANT OpenPagesKept
INVARIANT NoBlockLeaks
CHECK_DEADLOCK FALSE
