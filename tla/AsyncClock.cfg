\* Time passes between the two readings of the clock in a wait.
CONSTANTS
    a = a
    b = b
    m1 = m1
    m2 = m2
    m3 = m3
    Pad = Pad
    Node <- MCNode
    Peer <- MCPeer
    Msg = {m1}
    Source <- MCSource
    Length <- MCLength
    Cfg <- MCCfg
    SnMod = 3
    Tick = 500
    LongAgo = 2
    BlockB = 1
    StMinB = 0
    Len1 = 3
    Len2 = 3
    SendTimeouts = {3}
    RecvTimeouts = {1}
    Noise <- NoNoise
    MaxFaults = 0
    Lossy = FALSE
    Cancels = FALSE
    Prompt = FALSE
SPECIFICATION Spec
CHECK_DEADLOCK FALSE
INVARIANT NeverPanics
