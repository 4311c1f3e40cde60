SPECIFICATION Spec
CONSTANTS
  TextField = {"text"}
  JsonField = {"json"}
  MaxValue = 1
  Case <- MCRescanCase
  Proc = {1, 2}
  Leader = 1
\* The statement ends, or fails, or takes another path.
CHECK_DEADLOCK FALSE
INVARIANT RescanReturnsAll
