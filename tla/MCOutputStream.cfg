CONSTANTS
  MaxOutput = 5
  MaxReply = 3
  MaxStream = 12
SPECIFICATION Spec
CHECK_DEADLOCK FALSE
INVARIANTS InPlace NoneLeftBehind
