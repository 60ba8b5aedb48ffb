CONSTANTS
    FrameType1Size = 1
    FrameType2Size = 2
    FrameType4Size = 1
    MinMtu = 3
    MAX_SUPERFRAME_SIZE = 30
    MAX_FRAGMENTS_PER_SUPERFRAME = 4
    UINT32_MAX = 999
    UINT64_MAX = 9999
    MaxRange = 2
    MaxEntries = 2
    MaxFragmentNo = 7
    SeqSpace = 2
    Mtu = 7
    Mode = 2
    RetentionMs = 1
    RetentionMaxBytes = 18
    Frames <- HalfFrames
    Nacks <- AnyNacks
    MaxCounts = {1, 9}
    MaxSends = 3
    MaxTime = 3
    MaxQueue = 2
SPECIFICATION Spec
INVARIANTS
    TypeOK
    BytesAccounted
    OrderCoversBuffer
    QueueCoherent
    BundlesParse
    RetentionWithinLimit
PROPERTIES
    RetransmitsWhatWasAsked
