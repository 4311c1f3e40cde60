SPECIFICATION Spec
CONSTANTS
  ItemSize = 2
  Len1 = 2
  Len4 = 4
  Len8 = 8
  Width = 4
  ListSpace = 12
  NBlocks = 10
  MaxBytes = 12
  MaxWrite = 5
INVARIANT ReadExact
INVARIANT DeletedWhole
CHECK_DEADLOCK FALSE
