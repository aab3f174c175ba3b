\* A link without faults, blocks of two frames, pacing, padding, sequence wrap.
CONSTANTS
    a = a
    b = b
    m1 = m1
    m2 = m2
    m3 = m3
    NoMsg = NoMsg
    Pad = Pad
    Node <- MCNode
    Peer <- MCPeer
    Msg = {m1, m2, m3}
    Messages = {m1, m2, m3}
    Source <- MCSource
    Length <- MCLength
    Cfg <- MCCfg
    SnMod = 3
    Tick = 500
    BlockA = 0
    BlockB = 2
    StMinA = 0
    StMinB = 1000
    Padding = TRUE
    RoomB = 12
    Len1 = 12
    Len2 = 1
    Len3 = 4
    From2 = a
    Noise <- NoNoise
    MaxFaults = 0
    Lossy = FALSE
    Superloop = FALSE
    MayTimeOut = FALSE
    Prompt = TRUE
SPECIFICATION FairSpec
CHECK_DEADLOCK FALSE
INVARIANTS
    TypeOK
    StreamConserved
    BlocksAgree
PROPERTIES
    SeparationTimeHonoured
    EveryMessageArrives
