SPECIFICATION Spec
INVARIANT NeverCrashes
CONSTANTS
    s1 = s1
    s2 = s2
    s3 = s3
    Socket <- MCSocket
    NoSocket = NoSocket
    MaxReconnectDelay = 3
    MaxStarts = 1
CHECK_DEADLOCK FALSE
