SPECIFICATION Spec
CONSTANTS
  TextField = {"text"}
  JsonField = {"json"}
  MaxValue = 1
  Case <- MCCase
  Proc = {1, 2}
  Leader = 1
INVARIANT ReturnsOnlyMatches
INVARIANT ReturnsAllMatches
INVARIANT RangesExact
INVARIANT TopNFirst
INVARIANT DeclaredOrder
INVARIANT NeverPanics
PROPERTY ScanEnds
\* The statement ends, or fails, or takes another path.
CHECK_DEADLOCK FALSE
