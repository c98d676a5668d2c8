CONSTANTS
    Conns = {c1}
    InMemory = {c1}
    Window = 1
    Oversized <- LongMessages
    Peers = {n1}
    MaxChannels = 2
    BufferSize = 2
    MaxDispatch = 4
    Conn = c1
    Callers = {a1, a2}
    Owner = a1
    MaxConnects = 1
    MaxSends = 1
    Requests = {"admin", "disconnect", "large"}
    Subs = {s1}
CHECK_DEADLOCK FALSE
SPECIFICATION FairSpec
INVARIANTS NoCallAfterUnsubscribe ConnectedMeansConfigured PacketsInOrder
PROPERTIES Connects Removed StopReturns
