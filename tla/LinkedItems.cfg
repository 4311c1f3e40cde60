SPECIFICATION FairSpec
CONSTANTS
  a1 = a1
  a2 = a2
  m1 = m1
  r1 = r1
  r2 = r2
  Capacity = 2
  Adders = {a1, a2}
  Maintainers = {m1}
  Readers = {r1, r2}
  StartPages <- MCPages
  Created <- MCCreated
  Modified <- MCModified
  Garbage <- MCGarbage
  Together <- MCTogether
  MaxBlocks = 6
INVARIANT NothingLost
INVARIANT WalkComplete
INVARIANT NoDoubleRead
INVARIANT FreedUnlinked
PROPERTY ListRefinement
PROPERTY WritersFinish
