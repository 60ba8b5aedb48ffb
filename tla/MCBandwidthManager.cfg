CONSTANTS
    Streams = {s1}
    Full = 4
    DegradedTarget = 3
    CongestedTarget = 2
    mAdditiveIncrease = 1
    mNackRateDegraded = 2
    mNackRateCongested = 4
    mNackRateSevere = 6
    mJitterDegradedUs = 2
    mJitterCongestedUs = 4
    mUpdateInterval = 1
    mRecoveryWindow = 2
    mProbeInterval = 1
    JitterGain = 2
    RttGain = 1
    NackScale = 12
    MaxRtt = 30
    Configs <- Policies
    Manuals = {2, 7}
    Jitters = {0, 8}
    Rtts = {10, 14, 30}
    MaxNacks = 1
    MaxAge = 2
SPECIFICATION FairSpec
INVARIANTS
    TypeOK
    MultiplierInRange
    NeverAboveHealth
    DroppedOnlyWhenSevere
PROPERTIES
    HealthMovesMultipliers
    CalmResumes
