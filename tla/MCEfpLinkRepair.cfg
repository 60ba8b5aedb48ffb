CONSTANTS
    FrameType1Size = 1
    FrameType2Size = 2
    FrameType4Size = 1
    MinMtu = 3
    MAX_SUPERFRAME_SIZE = 30
    MAX_FRAGMENTS_PER_SUPERFRAME = 4
    UINT32_MAX = 999
    UINT64_MAX = 9999
    MaxRange = 2
    MaxEntries = 2
    MaxFragmentNo = 7
    SeqSpace = 8
    Slots = 2
    StreamIds = {1}
    Modes = {"THREADED"}
    Timeout = 2
    HolTimeout = 1
    MaxNackRetries = 1
    NackInterval = 1
    AdaptiveDelays = {1}
    DeliveryMargin = 1
    NoOrder = NoOrder
    Junk = Junk
    NoPayload = 0
    MaxCallers = 2
    MaxTime = 4
    MaxFrames = 3
    MaxOrder = 10
    Mtu = 7
    Mode = 2
    RetentionMs = 3
    RetentionMaxBytes = 30
    Frames <- HalfFrames
    MaxCounts = {9}
    MaxSends = 2
    MaxQueue = 2
    Window = 2
    StartNos = {6}
    Packets = {}
    Sources = {1}
    AllocOutcomes = {TRUE}
SPECIFICATION LinkSpec
PROPERTIES
    DeliversFrames
