CONSTANTS
  Client = {1,2}
  MaxPerClient = 3
  MaxPending = 4
  Kinds = {"a","b"}
  MaxPlan = 3
  MaxSequence = 1
SPECIFICATION Spec
INVARIANTS CountsAgree CheckIsExact
PROPERTIES IsAtomic
