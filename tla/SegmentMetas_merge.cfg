SPECIFICATION Spec
CONSTANTS
  Inserters = {i1, i2}
  Readers = {r}
  Vacuums = {}
  RepeatableRead = {i2}
  Start <- MCStart
  StartNumSegments = 1
  Parallelism = 1
  FreezeMinAge = 1
  Half = 16
  Immortal = {1, 2, 3, 4, 5}
  MaxXid = 6
  MaxSeg = 8
  MaxDoc = 5
  MaxPasses = 1
INVARIANTS
  NothingLost
  NoDuplicates
  OpenSegmentsKept
  MergesSeePreviousMerge
