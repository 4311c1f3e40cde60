SPECIFICATION Spec
CONSTANTS
  a1 = a1
  a2 = a2
  m1 = m1
  r1 = r1
  r2 = r2
  Capacity = 2
  Adders = {a1}
  Maintainers = {m1}
  Readers = {}
  StartPages <- MCPages
  Created <- MCCreated
  Modified <- MCNoModify
  Garbage <- MCGarbage
  Together <- MCAllTogether
  MaxBlocks = 6
INVARIANT NothingLost
CHECK_DEADLOCK FALSE
