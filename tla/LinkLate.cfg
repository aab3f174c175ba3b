\* The answer to a First Frame may come after N_Bs has expired.
CONSTANTS
    a = a
    b = b
    m1 = m1
    m2 = m2
    m3 = m3
    NoMsg = NoMsg
    Pad = Pad
    Node <- MCNode
    Peer <- MCPeer
    Msg = {m1, m2, m3}
    Messages = {m1, m2, m3}
    Source <- MCSource
    Length <- MCLength
    Cfg <- MCCfg
    SnMod = 3
    Tick = 500
    BlockA = 0
    BlockB = 1
    StMinA = 0
    StMinB = 0
    Padding = FALSE
    RoomB = 12
    Len1 = 4
    Len2 = 4
    Len3 = 4
    From2 = a
    Noise <- NoNoise
    MaxFaults = 0
    Lossy = FALSE
    Superloop = FALSE
    MayTimeOut = FALSE
    Prompt = FALSE
SPECIFICATION Spec
CHECK_DEADLOCK FALSE
INVARIANT DeliveredIntact
