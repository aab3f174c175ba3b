\* Loss, Waits, junk, payloads too long, callers that give up; does every send end?
CONSTANTS
    a = a
    b = b
    m1 = m1
    m2 = m2
    m3 = m3
    NoMsg = NoMsg
    Pad = Pad
    Node <- MCNode
    Peer <- MCPeer
    Msg = {m1, m2, m3}
    Messages = {m1, m2, m3}
    Source <- MCSource
    Length <- MCLength
    Cfg <- MCCfg
    SnMod = 3
    Tick = 1000
    BlockA = 0
    BlockB = 1
    StMinA = 0
    StMinB = 0
    Padding = FALSE
    RoomB = 6
    Len1 = 7
    Len2 = 13
    Len3 = 5
    From2 = a
    Noise <- SomeNoise
    MaxFaults = 2
    Lossy = TRUE
    Superloop = FALSE
    MayTimeOut = TRUE
    Prompt = TRUE
SPECIFICATION FairSpec
CHECK_DEADLOCK FALSE
PROPERTY EverySendEnds
