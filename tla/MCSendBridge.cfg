CONSTANTS
    s = s  m = m  remote = remote  c0 = c0  c1 = c1  c2 = c2  c3 = c3
    Senders = {s1}
    Jobs = {}
    Once = {}
    NoSender = NoSender
    Nodes = {s, m, remote}
    Broadcast = Broadcast
    Self = s
    IsBridge = TRUE
    Managed = {s, m}
    PrivateFor = {s, m}
    Introducible = {s, m}
    Licensed = FALSE
    OkToMQTT = TRUE
    HopLimit = 7
    MaxHops = 7
    Channels <- MCChannels
    NoChannel = NoChannel
    NoName = "none"
    Configured <- MCConfigured
    ChHash <- MCChHash
    ChName <- MCChName
    Ids = {i1}
    NoId = NoId
    Stale = Stale
    MaxFrame = 4
    MqttBit = 2
    MaxSize = 6
    SendDelay = 1
    Options <- BridgeOptions
    Sizes <- AllSizes
    ClientPackets <- NoClients
SPECIFICATION Spec
INVARIANTS WireSound Confidential ResultTruthful
