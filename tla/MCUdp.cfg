SPECIFICATION FairSpec
INVARIANTS StopJoins ReconnectsDoNotLeak
PROPERTIES StopReturns Reconnects
CONSTANTS
    s1 = s1
    s2 = s2
    s3 = s3
    Socket <- MCSocket
    NoSocket = NoSocket
    MaxReconnectDelay = 3
    MaxStarts = 3
CHECK_DEADLOCK FALSE
