CONSTANTS
    a1 = a1
    a2 = a2
    Apps = {a1, a2}
    Wirings <- Direct
    MaxFrames = 2
    MaxCalls = 3
SPECIFICATION FairSpec
INVARIANTS
    NoCircularWait
CHECK_DEADLOCK FALSE
