SPECIFICATION FairSpec
CONSTANTS
  i1 = i1
  i2 = i2
  Indexers = {i1, i2}
  Worker = w
  MaxPages = 2
  MaxRuns = 1
  QueueLen = 3
INVARIANT SavedAreComplete
INVARIANT CommitIsSaved
PROPERTY WaitReturns
PROPERTY ThreadsStop
CHECK_DEADLOCK FALSE
