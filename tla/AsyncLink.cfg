\* Both endpoints send and receive; one fault of any kind, or a future dropped.
CONSTANTS
    a = a
    b = b
    m1 = m1
    m2 = m2
    m3 = m3
    Pad = Pad
    Node <- MCNode
    Peer <- MCPeer
    Msg = {m1, m2, m3}
    Source <- MCSource
    Length <- MCLength
    Cfg <- MCCfg
    SnMod = 3
    Tick = 1000
    LongAgo = 1
    BlockB = 1
    StMinB = 1000
    Len1 = 4
    Len2 = 3
    SendTimeouts = {0, 2}
    RecvTimeouts = {1}
    Noise <- SomeNoise
    MaxFaults = 1
    Lossy = TRUE
    Cancels = TRUE
    Prompt = TRUE
SPECIFICATION Spec
INVARIANTS
    StreamConserved
PROPERTIES
    SeparationTimeHonoured
    TimeoutIsHonest
    ImplementsChannel
