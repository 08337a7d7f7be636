CONSTANTS
  Client = {1}
  MaxPerClient = 1
  MaxPending = 2
  Ops = {"prefix", "cookie", "bad_version", "bad_order", "bad_cookie", "part", "query",
         "oversize", "malformed", "priority", "notify", "ungrab", "set_counter"}
  Priorities = {1}
  PeerMoves = {"read", "shut", "closed"}
  EagerSetup = FALSE
  MaxConnects = 2
  MaxPackets = 4
  MaxTicks = 2
  MaxInput = 3
  MaxOutput = 2
  SendRoom = 1
SPECIFICATION Spec
CHECK_DEADLOCK FALSE
INVARIANTS SetupGate NoResidue SlotsAgree WireOrder
