CONSTANTS
    n1 = n1
    Names <- OneName
    Threads = {t1, t2}
    Senders = {s1}
    Handlers = {h1}
    Envelopes <- FewEnvelopes
    Self = "self"
    MaxHops = 1
    MaxLosses = 2
CHECK_DEADLOCK FALSE
SPECIFICATION FairSpec
INVARIANTS ChannelsSubscribed FlagExact NilMeansSent StopSticks
PROPERTY WoundUp
