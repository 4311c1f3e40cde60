SPECIFICATION Spec
CONSTANTS
  Table = {t1, t2}
  NoTable = NoTable
  None = None
  QueueSize = 2
  MaxDepth = 3
  MaxRows = 4
  MaxStatements = 3
INVARIANT RowsIndexed
INVARIANT PendingEnds
CHECK_DEADLOCK FALSE
