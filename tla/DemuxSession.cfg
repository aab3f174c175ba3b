\* Two stations answer while the application sends to them; one says anything else, too.
CONSTANTS
    r1 = r1
    r2 = r2
    r3 = r3
    here = here
    group = group
    Pad = Pad
    SnMod = 3
    Tick = 1000
    Cfg <- MCCfg
    LocalAddr = here
    FunctionalAddr = group
    Remote = {r1, r2, here}
    MaxPeers = 2
    BusFrame <- Anything
    Lengths = {1, 4, 6}
    MaxFrames = 3
    Content <- MCContent
    Open <- MCOpen
SPECIFICATION Spec
INVARIANTS
    TypeOK
    GrantUsedOnce
    SegmentsInOrder
