CONSTANTS
  Process = {p1, p2, p3}
  Dynamic = {p1, p2, p3}
  LastDisplay = 3
  MaxAttempts = 2
  Abstract = {1}
  StaleLocks = {}
  StaleSockets = {0}
  Stopping = {}
  Crashing = {}
SPECIFICATION FairSpec
CHECK_DEADLOCK FALSE
INVARIANTS OneServer
PROPERTIES AllServe
