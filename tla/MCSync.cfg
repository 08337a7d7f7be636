CONSTANTS
 c1 = c1
 c2 = c2
 x1 = x1
 a1 = a1
 f1 = f1
 None = None
 Client = {c1, c2}
 Counter = {x1}
 Alarm = {a1}
 Fence = {f1}
 Owner <- TwoOwners
 Width = 2
 MaxQueue = 1
 MaxConditions = 2
 WaitValue = {0}
 WaitType <- SomeTypes
 Threshold = {0}
 Masks <- FewMasks
 Ops = {"alarm", "await", "fence"}
SPECIFICATION Spec
INVARIANTS ActiveAlarmsPend NothingKept NoMissedWakeup
PROPERTY AdvanceIsExact
