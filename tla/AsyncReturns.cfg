\* Both endpoints send at once; a frame is lost or refused by the driver.
CONSTANTS
    a = a
    b = b
    m1 = m1
    m2 = m2
    m3 = m3
    Pad = Pad
    Node <- MCNode
    Peer <- MCPeer
    Msg = {m1, m2}
    Source <- MCSource
    Length <- MCLength
    Cfg <- MCCfg
    SnMod = 3
    Tick = 1000
    LongAgo = 1
    BlockB = 1
    StMinB = 1000
    Len1 = 4
    Len2 = 3
    SendTimeouts = {2}
    RecvTimeouts = {1}
    Noise <- NoNoise
    MaxFaults = 1
    Lossy = TRUE
    Cancels = FALSE
    Prompt = TRUE
SPECIFICATION FairSpec
PROPERTIES
    EverySendReturns
    CompletedArrives
