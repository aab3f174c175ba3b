\* Any PDU in any order against one receive machine.
CONSTANTS
    b1 = b1
    b2 = b2
    Pad = Pad
    SnMod = 3
    Byte <- MCByte
    Config <- MCConfig
    MaxData = 2
    MaxLen = 7
    MaxCfs = 5
SPECIFICATION Spec
INVARIANTS
    TypeOK
    BufferIsWhatWasHeard
    CompletedIsTheAnnouncedPayload
    SequenceCountsFrames
    BlockIsAnswered
PROPERTY
    AcceptedTransferFits
