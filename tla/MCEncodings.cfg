CONSTANTS
    FrameType1Size = 8
    FrameType2Size = 27
    FrameType4Size = 2
    MinMtu = 256
    MAX_SUPERFRAME_SIZE = 104857600
    MAX_FRAGMENTS_PER_SUPERFRAME = 8192
    UINT32_MAX = 4
    UINT64_MAX = 12
    MaxMultiple = 2
    Mtus <- MCMtus
    Sizes <- MCSizes
    Stamps <- MCStamps
    MaxRange = 3
    MaxEntries = 3
    MaxFragmentNo = 9
    MaxOf = 9
    Base = 4
    MaxChunks = 3
    MaxPayload = 3
SPECIFICATION EncodingsSpec
INVARIANTS
    TypeOK
    SplitIsExact
    PacketsFitMtu
    LayoutAgrees
    DtsSurvives
    NackIsExact
    EveryEntryIsRead
    EmbeddedRoundTrip
