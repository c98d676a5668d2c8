CONSTANTS
    s = s  m = m  remote = remote  c0 = c0  c1 = c1  c2 = c2  c3 = c3
    Senders = {s1, job}
    Jobs = {job}
    Once = {s1}
    NoSender = NoSender
    Nodes = {s, remote}
    Broadcast = Broadcast
    Self = s
    IsBridge = FALSE
    Managed = {}
    PrivateFor = {s}
    Introducible = {}
    Licensed = FALSE
    OkToMQTT = TRUE
    HopLimit = 3
    MaxHops = 7
    Channels <- MCChannels
    NoChannel = NoChannel
    NoName = "none"
    Configured <- MCConfigured
    ChHash <- MCChHash
    ChName <- MCChName
    Ids = {i1, i2}
    NoId = NoId
    Stale = Stale
    MaxFrame = 4
    MqttBit = 2
    MaxSize = 6
    SendDelay = 1
    Options <- AllOptions
    Sizes <- AllSizes
    ClientPackets <- Clients
SPECIFICATION FairSpec
 
PROPERTIES Paced Returns
