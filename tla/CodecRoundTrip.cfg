\* Payloads of every length around the boundaries of Single and First Frames.
CONSTANTS
    Pad = Pad
    SnMod = 16
    Tick = 500
    FrameLens = {8, 9, 10, 12, 64}
    AddrBytes <- MCAddrBytes
    Paddings <- MCPaddings
    PayloadLens = {1, 5, 6, 7, 8, 9, 10, 11, 12, 13, 21, 61, 62, 63, 64, 130, 300}
    StMins <- AllBytes
    RawFrames <- MCRawFrames
    Stations <- MCStations
SPECIFICATION Spec
CHECK_DEADLOCK FALSE
INVARIANTS
    WireIsFaithful
    TransferIsExact
    FirstFrameAnnouncesMore
    StMinSurvives
    OnlyPartnersMeet
