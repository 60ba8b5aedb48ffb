CONSTANTS
    FrameType1Size = 1
    FrameType2Size = 2
    FrameType4Size = 1
    MinMtu = 3
    MAX_SUPERFRAME_SIZE = 5
    MAX_FRAGMENTS_PER_SUPERFRAME = 3
    UINT32_MAX = 999
    UINT64_MAX = 9999
    MaxRange = 2
    MaxEntries = 2
    MaxFragmentNo = 7
    SeqSpace = 8
    Slots = 4
    Packets <- ShapesAndFew
    Sources = {1}
    StreamIds = {1}
    Modes = {"THREADED", "RUN_TO_COMPLETION"}
    AllocOutcomes = {TRUE, FALSE}
    Timeout = 3
    HolTimeout = 0
    MaxNackRetries = 2
    NackInterval = 0
    AdaptiveDelays = {1, 9}
    DeliveryMargin = 1
    NoOrder = NoOrder
    Junk = Junk
    NoPayload = 0
    MaxCallers = 2
    MaxTime = 5
    MaxFrames = 3
    MaxOrder = 4
SPECIFICATION TrafficSpec
INVARIANTS
    TypeOK
    BufferInBounds
    CountsFragments
    ShapesLeaveBuckets
    NackBeforeGivingUp
PROPERTIES
    EveryFrameDelivered
