\* Both endpoints send, one two messages of one length; frames are lost, sends refused.
CONSTANTS
    a = a
    b = b
    m1 = m1
    m2 = m2
    m3 = m3
    NoMsg = NoMsg
    Pad = Pad
    Node <- MCNode
    Peer <- MCPeer
    Msg = {m1, m2, m3}
    Messages = {m1, m2, m3}
    Source <- MCSource
    Length <- MCLength
    Cfg <- MCCfg
    SnMod = 3
    Tick = 500
    BlockA = 0
    BlockB = 2
    StMinA = 0
    StMinB = 500
    Padding = TRUE
    RoomB = 12
    Len1 = 9
    Len2 = 4
    Len3 = 9
    From2 = b
    Noise <- OtherTraffic
    MaxFaults = 2
    Lossy = TRUE
    Superloop = TRUE
    MayTimeOut = FALSE
    Prompt = TRUE
SPECIFICATION Spec
CHECK_DEADLOCK FALSE
INVARIANTS
    DeliveredIntact
    WindowRespected
PROPERTIES
    ContinuesOwnFirstFrame
    ImplementsChannel
