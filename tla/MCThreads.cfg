CONSTANTS
    a1 = a1
    a2 = a2
    Apps = {a1, a2}
    Wirings <- Safe
    MaxFrames = 2
    MaxCalls = 3
SPECIFICATION FairSpec
INVARIANTS
    TypeOK
    NoCircularWait
    FramesConserved
    FrameStillThere
    QuietAfterStop
    NobodyInDeleted
PROPERTIES
    StopReturns
    WholeIsDelivered
CHECK_DEADLOCK FALSE
