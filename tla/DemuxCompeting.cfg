\* Three stations compete for two slots; payloads wait while the application sends.
CONSTANTS
    r1 = r1
    r2 = r2
    r3 = r3
    here = here
    group = group
    Pad = Pad
    SnMod = 3
    Tick = 500
    Cfg <- MCCfg
    LocalAddr = here
    FunctionalAddr = group
    Remote = {r1, r2, r3}
    MaxPeers = 2
    BusFrame <- Competing
    Lengths = {1}
    MaxFrames = 5
    Content <- MCContent
    Open <- MCOpen
SPECIFICATION FairSpec
INVARIANTS
    ReadyMatchesFlags
    OneSlotPerStation
PROPERTIES
    ImplementsMailbox
    WaitingIsDelivered
