CONSTANTS
  Process = {p1, p2, p3}
  Dynamic = {p3}
  LastDisplay = 1
  MaxAttempts = 2
  Abstract = {}
  StaleLocks = {0}
  StaleSockets = {0}
  Stopping = {p1, p2}
  Crashing = {p2}
SPECIFICATION FairSpec
CHECK_DEADLOCK FALSE
INVARIANTS NoDebris
PROPERTIES Settles
