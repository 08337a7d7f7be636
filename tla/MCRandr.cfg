SPECIFICATION Spec
CONSTANTS
 Client = {1, 2}
 MaxPerClient = 2
 MaxPending = 2
 Requester = {2}
 Follower = {1}
 Timestamped = {1}
 Positions = {2}
 MaxHeld = 1
 Extents = {1, 2}
 InitialWidth = 2
 MaxExtent = 2
 MaxModes = 2
 MaxModeId = 2
 MonitorName = {m}
 Automatic = XMIN
 MaxMonitors = 2
 Unknown = Unknown
CHECK_DEADLOCK FALSE
INVARIANTS FollowersKnow CrtcFits MonitorFollows TimestampsTell
PROPERTY PointerStays
