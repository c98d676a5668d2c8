CONSTANTS
    LowMod = 4 HighMod = 3
    Writers = {w1, w2} Payloads <- mcPayloads Noise <- mcNoise WakeLen = 1 PacketMTU = 2
    MaxFrames = 2 MaxNoise = 1
    Relays = {gw, bridge, r1} Gateway = gw Bridge = bridge Virtual = virtual
    Stranger = stranger Nothing = nothing Snrs <- mcSnrs RxSnr = 3 MaxRoute = 2 MaxHops = 3
    Nil = nil WordBits = 4 PublicCap = 2 MaxTable = 2
    MaxNameBytes = 4 MaxBytes = 7 Regions <- mcRegions Presets <- mcPresets
    Licensed <- mcLicensed Superset <- mcSuperset MaxRegions = 4
    maxPresetGroups = 2 maxRegionGroups = 3 maxGroupPresets = 3
    ChannelNames = {1, 2} ChannelKeys = {1, 2} Copies = {1, 2} XorHash <- mcXorHash MaxRegister = 4
    Callers = {c1, c2} Packets = {k1, k2} ExpiresAfter = 1 MaxTime = 4
    Jobs = {j1, j2}
SPECIFICATION FairSpec
INVARIANTS WindowDistinct FramesRecovered RouteAligned PositionCoarse ValuesRight
PROPERTIES WindowSpec WindsDown
CHECK_DEADLOCK FALSE
