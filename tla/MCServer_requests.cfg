CONSTANTS
  Client = {1, 2}
  MaxPerClient = 2
  MaxPending = 2
  Ops = {"grab", "await_fence", "trigger_fence", "query", "kill"}
  Priorities = {1}
  PeerMoves = {"closed", "shut"}
  EagerSetup = TRUE
  MaxConnects = 2
  MaxPackets = 2
  MaxTicks = 0
  MaxInput = 4
  MaxOutput = 1
  SendRoom = 1
SPECIFICATION FairSpec
CHECK_DEADLOCK FALSE
INVARIANTS NoStrandedInput
PROPERTIES GrabExclusion WaitSuspends HangUpFrees KilledIsRemoved
