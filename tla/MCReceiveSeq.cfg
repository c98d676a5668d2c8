CONSTANTS
    s = s  m = m  r = r  x = x
    kr = kr  kx = kx  ks = ks
    c0 = c0  c1 = c1  c2 = c2  cz = cz
    Handlers = {h1}
    Nodes <- MCNodes
    Broadcast = Broadcast
    Self = s
    IsBridge = FALSE
    Managed = {}
    PrivateFor = {s}
    Introducible = {s}
    Keys <- MCKeys
    FullKeys <- MCFullKeys
    NoKey = NoKey
    KeyOwner <- MCKeyOwner
    ConsumerKey <- NoConsumerKeys
    Policy = "BALANCED"
    Licensed = FALSE
    Channels <- MCChannels
    NoChannel = NoChannel
    Registry <- MCRegistry
    ChHash <- MCChHash
    ChName <- MCChName
    ChPsk <- MCChPsk
    NoSig = NoSig
    BadSig = BadSig
    NoName = "none"
    Packets <- SequentialPackets
SPECIFICATION Spec
INVARIANT IdentityPinned
