CONSTANTS
    Streams = {s1}
    Full = 4
    DegradedTarget = 3
    CongestedTarget = 2
    mAdditiveIncrease = 1
    mNackRateDegraded = 2
    mNackRateCongested = 4
    mNackRateSevere = 6
    mJitterDegradedUs = 2
    mJitterCongestedUs = 4
    mUpdateInterval = 1
    mRecoveryWindow = 2
    mProbeInterval = 1
    JitterGain = 2
    RttGain = 8
    NackScale = 12
    MaxRtt = 3000
    Configs <- Paused
    Manuals = {}
    Jitters = {0, 8}
    Rtts = {80}
    MaxNacks = 1
    MaxAge = 2
SPECIFICATION FairSpec
PROPERTIES
    SteadyProbesRestore
