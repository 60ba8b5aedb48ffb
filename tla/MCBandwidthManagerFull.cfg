CONSTANTS
    Streams = {s1}
    Full = 10
    DegradedTarget = 7
    CongestedTarget = 5
    mAdditiveIncrease = 1
    mNackRateDegraded = 2
    mNackRateCongested = 4
    mNackRateSevere = 6
    mJitterDegradedUs = 2
    mJitterCongestedUs = 4
    mUpdateInterval = 1
    mRecoveryWindow = 2
    mProbeInterval = 1
    JitterGain = 2
    RttGain = 1
    NackScale = 12
    MaxRtt = 30
    Configs <- Unconfigured
    Manuals = {}
    Jitters = {0, 8}
    Rtts = {10}
    MaxNacks = 1
    MaxAge = 2
SPECIFICATION FairSpec
PROPERTIES
    HealthyIsFull
