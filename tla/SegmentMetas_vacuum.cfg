SPECIFICATION Spec
CONSTANTS
  Inserters = {i1, i2}
  Readers = {r}
  Vacuums = {v}
  RepeatableRead = {}
  Start <- MCStartVacuum
  StartNumSegments = 1
  Parallelism = 1
  FreezeMinAge = 1
  Half = 16
  Immortal = {1, 4, 5}
  MaxXid = 5
  MaxSeg = 6
  MaxDoc = 5
  MaxPasses = 1
INVARIANT TypeOK
INVARIANT NothingLost
INVARIANT VacuumedStayGone
INVARIANT FreezeExact
