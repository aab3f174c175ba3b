\* Two stations send and one answers while the application sends; calls are cut off.
CONSTANTS
    r1 = r1
    r2 = r2
    r3 = r3
    here = here
    group = group
    Pad = Pad
    SnMod = 3
    Tick = 500
    Cfg <- PatientCfg
    LocalAddr = here
    FunctionalAddr = group
    Remote = {r1, r2, r3}
    MaxPeers = 2
    BusFrame <- Crossing
    Lengths = {1, 4, 6}
    MaxFrames = 4
    Content <- MCContent
    Open <- MCOpen
SPECIFICATION FairSpec
INVARIANTS
    ReadyMatchesFlags
    GrantUsedOnce
    AnswersAreDue
PROPERTIES
    ImplementsMailbox
    WaitingIsDelivered
