SPECIFICATION FairSpec
CONSTANTS
  w1 = w1
  w2 = w2
  w3 = w3
  Workers = {w1, w2, w3}
  Leader = leader
  NumSegments = 3
  Methods = {"custom", "index"}
  MaxScans = 3
INVARIANT NeverTwice
INVARIANT ScanComplete
PROPERTY ScansEnd
CHECK_DEADLOCK FALSE
