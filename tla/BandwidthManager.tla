--------------------------- MODULE BandwidthManager ---------------------------
(***************************************************************************)
(* efp::BandwidthManager: health of the network judged from NACKs and      *)
(* jitter, a bandwidth multiplier for each stream, streams paused while    *)
(* congestion is severe, and recovery by RTT probes.                       *)
(*                                                                         *)
(* Each action is one public method, all of it under mMutex.  Multipliers, *)
(* rates and times are integers in a unit of the model's choice: Full is   *)
(* the multiplier 1.0.  A float average is rounded down to the unit, an    *)
(* int64_t average truncates towards zero as the code does.  The clock is  *)
(* two ages, since mLastUpdateUs and since mRecoveryStartUs, which stop    *)
(* counting at MaxAge.  A probe on its way is the round-trip time its      *)
(* response will show.  Forwarding to the Sender, statistics and           *)
(* mProbeFailures, which no decision reads, are left out.                  *)
(***************************************************************************)
EXTENDS Integers

CONSTANTS
    Streams,
    Full, DegradedTarget, CongestedTarget,    \* 1.0, 0.7, 0.5
    mAdditiveIncrease,
    mNackRateDegraded, mNackRateCongested, mNackRateSevere,
    mJitterDegradedUs, mJitterCongestedUs,
    mUpdateInterval, mRecoveryWindow, mProbeInterval,
    JitterGain, RttGain,   \* 16 and 8: the divisors of the moving averages
    NackScale,             \* NACKs in one tick to the rate per second
    MaxRtt,                \* 30 s: longer round trips are not believed
    Configs,               \* values given to setStreamConfig
    Manuals,               \* values given to setManualMultiplier
    Jitters, Rtts,         \* measurements
    MaxNacks,              \* bound: NACKs between two updates
    MaxAge                 \* bound: ages the clock tells apart

NotSet == -1

\* The factory settings of StreamBandwidthConfig.
DefaultConfig == [mMin |-> 0, mMax |-> Full, mDrop |-> FALSE]

ASSUME BandwidthAssumption ==
    /\ Full \in Nat /\ mAdditiveIncrease \in Nat
    /\ DegradedTarget \in 0..Full /\ CongestedTarget \in 0..DegradedTarget
    /\ \A c \in Configs : /\ c = [mMin |-> c.mMin, mMax |-> c.mMax,
                                  mDrop |-> c.mDrop]
                          /\ c.mMin \in 0..c.mMax /\ c.mMax \in 0..Full
                          /\ c.mDrop \in BOOLEAN
    /\ Manuals \subseteq Int
    /\ mNackRateDegraded <= mNackRateCongested
    /\ mNackRateCongested <= mNackRateSevere
    /\ mJitterDegradedUs <= mJitterCongestedUs
    /\ mProbeInterval \in Nat \ {0} /\ mRecoveryWindow \in Nat \ {0}
    /\ mUpdateInterval \in Nat \ {0}
    /\ MaxAge \in Nat
    /\ MaxAge >= mUpdateInterval /\ MaxAge >= mRecoveryWindow

VARIABLES
    mCurrentHealth,
    stream,             \* config, multiplier, dropped and manual of each stream
    mSmoothedNackRate, mRecentNackCount,
    mSmoothedJitterUs,
    rtt,                \* mSmoothedRttUs, mBaselineRttUs, mStableRttSamples
    sinceUpdate, sinceRecovery,
    overridden          \* history: streams set by hand while dropped

vars == <<mCurrentHealth, stream, mSmoothedNackRate, mRecentNackCount,
          mSmoothedJitterUs, rtt, sinceUpdate, sinceRecovery, overridden>>

\* NetworkHealth, ordered as the enumeration is.
HEALTHY == 0
DEGRADED == 1
CONGESTED == 2
SEVERE == 3

\* The constructor.  Both timestamps are 0, long before the first call.
Init ==
    /\ mCurrentHealth = HEALTHY
    /\ stream = [s \in Streams |->
                   [config |-> DefaultConfig, multiplier |-> Full,
                    dropped |-> FALSE, manual |-> NotSet]]
    /\ mSmoothedNackRate = 0 /\ mRecentNackCount = 0
    /\ mSmoothedJitterUs = 0
    /\ rtt = [smoothed |-> 0, baseline |-> 0, stable |-> 0]
    /\ sinceUpdate = MaxAge /\ sinceRecovery = MaxAge
    /\ overridden = {}

------------------------------------------------------------------------------
(***************************************************************************)
(* Multipliers.                                                            *)
(***************************************************************************)
Smaller(a, b) == IF a < b THEN a ELSE b
Clamp(x, lo, hi) == IF x < lo THEN lo ELSE IF hi < x THEN hi ELSE x

ClampTo(config, x) == Clamp(x, config.mMin, config.mMax)

\* getTargetMultiplier
Target(config, health) ==
    ClampTo(config, CASE health = HEALTHY -> Full
                      [] health = DEGRADED -> DegradedTarget
                      [] health = CONGESTED -> CongestedTarget
                      [] OTHER -> config.mMin)

Automatic(x) == x.manual < 0

\* Slip: the value is taken as the caller gives it.
ManualAsGiven(value) == value

\* A manual multiplier is held in 0..1.0 before the configuration limits it.
ManualValue(value) == Clamp(value, 0, Full)

\* Slip: the manual value overrides the configured range as well.
RetargetedByHand(x, health) ==
    [x EXCEPT !.multiplier = IF Automatic(x) THEN Target(x.config, health)
                             ELSE x.manual]

\* updateStreamMultiplier, after a change of configuration or of the override.
\* It does not look at the dropped flag.
Retargeted(x, health) ==
    [x EXCEPT !.multiplier = IF Automatic(x) THEN Target(x.config, health)
                             ELSE ClampTo(x.config, x.manual)]

\* Slip: the target is taken as it is.
LoweredToTarget(x, health) ==
    IF ~Automatic(x) THEN x
    ELSE [x EXCEPT
            !.multiplier = Target(x.config, health),
            !.dropped = @ \/ (health = SEVERE /\ x.config.mDrop)]

\* The loop body for worse health.
Lowered(x, health) ==
    IF ~Automatic(x) THEN x
    ELSE [x EXCEPT
            !.multiplier = Smaller(@, Target(x.config, health)),
            !.dropped = @ \/ (health = SEVERE /\ x.config.mDrop)]

\* Slip: the increase is not held at the target.
RaisedFreely(x, health) ==
    IF ~Automatic(x) THEN x
    ELSE [x EXCEPT
            !.multiplier = ClampTo(x.config, @ + mAdditiveIncrease),
            !.dropped = @ /\ health = SEVERE]

\* Slip: a paused stream is not resumed.
RaisedStillDropped(x, health) ==
    IF ~Automatic(x) THEN x
    ELSE [x EXCEPT
            !.multiplier = ClampTo(x.config, Smaller(@ + mAdditiveIncrease,
                                                     Target(x.config, health)))]

\* The loop body for better health, the same in handleHealthChange and in
\* tryBandwidthIncrease.
Raised(x, health) ==
    IF ~Automatic(x) THEN x
    ELSE [x EXCEPT
            !.multiplier = ClampTo(x.config, Smaller(@ + mAdditiveIncrease,
                                                     Target(x.config, health))),
            !.dropped = @ /\ health = SEVERE]

------------------------------------------------------------------------------
(***************************************************************************)
(* Health.                                                                 *)
(***************************************************************************)
NackHealth(rate) ==
    IF rate >= mNackRateSevere THEN SEVERE
    ELSE IF rate >= mNackRateCongested THEN CONGESTED
    ELSE IF rate >= mNackRateDegraded THEN DEGRADED
    ELSE HEALTHY

DelayHealth(jitter) ==
    IF jitter >= mJitterCongestedUs THEN CONGESTED
    ELSE IF jitter >= mJitterDegradedUs THEN DEGRADED
    ELSE HEALTHY

\* evaluateHealth: the worse of the two.
evaluateHealth(rate, jitter) ==
    IF NackHealth(rate) > DelayHealth(jitter) THEN NackHealth(rate)
    ELSE DelayHealth(jitter)

\* Integer division of C++.
Quotient(a, n) == IF a >= 0 THEN a \div n ELSE -((-a) \div n)

RequiredSamples == mRecoveryWindow \div mProbeInterval

\* mStableRttSamples, counted no further than it is compared.
OneMoreStable(n) == Smaller(n + 1, RequiredSamples)

\* mBaselineRttUs is the first value of the average and is never renewed.
WithinBaseline(smoothed, baseline) ==
    /\ 10 * smoothed >= 8 * baseline
    /\ 10 * smoothed <= 12 * baseline

\* handleHealthChange, and the same for a step up by tryBandwidthIncrease.
ChangeHealth(health) ==
    /\ mCurrentHealth' = health
    /\ stream' = [s \in Streams |->
                    IF health > mCurrentHealth THEN Lowered(stream[s], health)
                    ELSE Raised(stream[s], health)]

\* The streams the change resumes lose their history.
Forget ==
    overridden' = {s \in overridden : stream'[s].dropped}

\* Slip: a period without NACKs leaves the average as it is.
SmoothedRateWhenNacked ==
    /\ mSmoothedNackRate' =
         IF mRecentNackCount = 0 THEN mSmoothedNackRate
         ELSE (7 * mSmoothedNackRate
                 + 3 * ((mRecentNackCount * NackScale) \div sinceUpdate)) \div 10
    /\ mRecentNackCount' = 0

\* The average over periods, 0.7 and 0.3, and the count reset.
SmoothedRate ==
    /\ mSmoothedNackRate' =
         (7 * mSmoothedNackRate
            + 3 * ((mRecentNackCount * NackScale) \div sinceUpdate)) \div 10
    /\ mRecentNackCount' = 0

------------------------------------------------------------------------------
(***************************************************************************)
(* Actions.                                                                *)
(***************************************************************************)

\* update, called too early: it returns at once.  In time, it averages the
\* NACK rate and then has three ways to go on.
UpdateDue ==
    /\ sinceUpdate >= mUpdateInterval
    /\ sinceUpdate' = 0
    /\ SmoothedRate
    /\ UNCHANGED mSmoothedJitterUs

Evaluated == evaluateHealth(mSmoothedNackRate', mSmoothedJitterUs)

RecoveryRestarts ==
    /\ rtt' = [rtt EXCEPT !.stable = 0]
    /\ sinceRecovery' = 0

\* processProbing finds a whole window with a stable round trip behind it.
ProbesSucceeded ==
    /\ sinceRecovery >= mRecoveryWindow
    /\ rtt.stable >= RequiredSamples

\* The health is judged anew: handleHealthChange.  processProbing follows, but
\* the window has just been restarted, so it returns.
UpdateHealth ==
    /\ UpdateDue
    /\ Evaluated # mCurrentHealth
    /\ ChangeHealth(Evaluated)
    /\ RecoveryRestarts
    /\ Forget

\* The health stays bad and the probes allow one step up.
UpdateProbing ==
    /\ UpdateDue
    /\ Evaluated = mCurrentHealth
    /\ mCurrentHealth # HEALTHY /\ ProbesSucceeded
    /\ ChangeHealth(mCurrentHealth - 1)
    /\ RecoveryRestarts
    /\ Forget

UpdateNothing ==
    /\ UpdateDue
    /\ Evaluated = mCurrentHealth
    /\ ~(mCurrentHealth # HEALTHY /\ ProbesSucceeded)
    /\ UNCHANGED <<mCurrentHealth, stream, rtt, sinceRecovery, overridden>>

Update == UpdateHealth \/ UpdateProbing \/ UpdateNothing

Measured == <<mSmoothedNackRate, mRecentNackCount, mSmoothedJitterUs, rtt,
              sinceUpdate, sinceRecovery>>

setStreamConfig(s, config) ==
    /\ stream' = [stream EXCEPT ![s] =
                    Retargeted([@ EXCEPT !.config = config], mCurrentHealth)]
    /\ UNCHANGED <<mCurrentHealth, Measured, overridden>>

setManualMultiplier(s, value) ==
    /\ stream' = [stream EXCEPT ![s] =
                    Retargeted([@ EXCEPT !.manual = ManualValue(value)],
                               mCurrentHealth)]
    /\ overridden' = IF stream[s].dropped THEN overridden \cup {s}
                     ELSE overridden
    /\ UNCHANGED <<mCurrentHealth, Measured>>

clearManualMultiplier(s) ==
    /\ stream' = [stream EXCEPT ![s] =
                    Retargeted([@ EXCEPT !.manual = NotSet], mCurrentHealth)]
    /\ UNCHANGED <<mCurrentHealth, Measured, overridden>>

\* receiveNack, when the Sender accepts the NACK.
receiveNack ==
    /\ mRecentNackCount < MaxNacks
    /\ mRecentNackCount' = mRecentNackCount + 1
    /\ UNCHANGED <<mCurrentHealth, stream, mSmoothedNackRate,
                   mSmoothedJitterUs, rtt, sinceUpdate, sinceRecovery,
                   overridden>>

\* The deviation is the measurement's absolute value.
updateJitter(deviation) ==
    /\ mSmoothedJitterUs' =
         mSmoothedJitterUs + Quotient(deviation - mSmoothedJitterUs, JitterGain)
    /\ UNCHANGED <<mCurrentHealth, stream, mSmoothedNackRate,
                   mRecentNackCount, rtt, sinceUpdate, sinceRecovery,
                   overridden>>

\* The average after one more round trip, and what it says of its stability.
Averaged(r, sample) ==
    LET smoothed == r.smoothed + Quotient(sample - r.smoothed, RttGain)
    IN  [smoothed |-> smoothed,
         baseline |-> IF r.baseline = 0 THEN smoothed ELSE r.baseline,
         stable   |-> IF r.baseline = 0 THEN r.stable
                      ELSE IF WithinBaseline(smoothed, r.baseline)
                        THEN OneMoreStable(r.stable) ELSE 0]

\* processRttResponse: a round trip that is not believed is ignored.
processRttResponse(sample) ==
    /\ sample > 0 /\ sample < MaxRtt
    /\ rtt' = Averaged(rtt, sample)
    /\ UNCHANGED <<mCurrentHealth, stream, mSmoothedNackRate,
                   mRecentNackCount, mSmoothedJitterUs, sinceUpdate,
                   sinceRecovery, overridden>>

Tick ==
    /\ sinceUpdate' = Smaller(sinceUpdate + 1, MaxAge)
    /\ sinceRecovery' = Smaller(sinceRecovery + 1, MaxAge)
    /\ UNCHANGED <<mCurrentHealth, stream, mSmoothedNackRate,
                   mRecentNackCount, mSmoothedJitterUs, rtt, overridden>>

Congestion == receiveNack \/ \E d \in Jitters : updateJitter(d)

Response == \E r \in Rtts : processRttResponse(r)

Policy ==
    \E s \in Streams :
      \/ \E c \in Configs : setStreamConfig(s, c)
      \/ \E v \in Manuals : setManualMultiplier(s, v)
      \/ clearManualMultiplier(s)

Next == Update \/ Congestion \/ Response \/ Policy \/ Tick

Spec == Init /\ [][Next]_vars

\* README.md: "Call update() periodically".  Time passes and responses to the
\* probes keep coming.
Fairness == WF_vars(Update) /\ WF_vars(Tick) /\ WF_vars(Response)

FairSpec == Spec /\ Fairness

------------------------------------------------------------------------------
(***************************************************************************)
(* Properties.                                                             *)
(***************************************************************************)

\* Ranges of the manager's state.
TypeOK ==
    /\ mCurrentHealth \in HEALTHY..SEVERE
    /\ DOMAIN stream = Streams
    /\ \A s \in Streams :
         /\ stream[s] = [config |-> stream[s].config,
                         multiplier |-> stream[s].multiplier,
                         dropped |-> stream[s].dropped,
                         manual |-> stream[s].manual]
         /\ stream[s].config \in Configs \cup {DefaultConfig}
         /\ stream[s].multiplier \in 0..Full
         /\ stream[s].dropped \in BOOLEAN
         /\ stream[s].manual \in {NotSet} \cup 0..Full
    /\ overridden \subseteq Streams

\* The multiplier the encoder is told lies in the range configured for its
\* stream at that moment, whichever of the five paths set it last: lowering,
\* raising by health, raising by probes, a new configuration, a manual value.
MultiplierInRange ==
    \A s \in Streams :
      stream[s].multiplier \in stream[s].config.mMin .. stream[s].config.mMax

\* Lowering takes the target, raising adds a step and may run for a while, and
\* configurations come in between; still no stream that is not set by hand ever
\* uses more than the health of the network allows at that moment.
NeverAboveHealth ==
    \A s \in Streams :
      Automatic(stream[s]) =>
        stream[s].multiplier <= Target(stream[s].config, mCurrentHealth)

\* A stream is paused only while congestion is severe.  The exception is a
\* stream set by hand while it was paused: the improvement passes over it, and
\* clearManualMultiplier does not resume it.
DroppedOnlyWhenSevere ==
    \A s \in Streams :
      stream[s].dropped => mCurrentHealth = SEVERE \/ s \in overridden

\* Health and multipliers move together: worse health raises no automatic
\* stream and resumes none, better health lowers none and pauses none, however
\* evaluation, probing and configuration have alternated before.
HealthStep ==
    \A s \in Streams : Automatic(stream[s]) =>
      /\ mCurrentHealth' > mCurrentHealth =>
           /\ stream'[s].multiplier <= stream[s].multiplier
           /\ stream[s].dropped => stream'[s].dropped
      /\ mCurrentHealth' < mCurrentHealth =>
           /\ stream'[s].multiplier >= stream[s].multiplier
           /\ stream'[s].dropped => stream[s].dropped

HealthMovesMultipliers == [][HealthStep]_vars

Calm == mRecentNackCount = 0 /\ mSmoothedJitterUs < mJitterDegradedUs

\* Once NACKs have stopped and the jitter is low, evaluation and probing agree
\* in the end: the network is judged healthy for good, and every stream that
\* was paused and not set by hand is resumed.  It is resumed with the
\* multiplier it has by then: HealthyIsFull is about that.
CalmResumes ==
    <>[]Calm => <>[](/\ mCurrentHealth = HEALTHY
                     /\ \A s \in Streams :
                          stream[s].dropped => s \in overridden)

\* README.md, Network Health States: HEALTHY has the multiplier 1.0.  The
\* recovery is by steps, so this asks for it in the end only: a stream that is
\* not set by hand has all its configuration allows some time after the network
\* has become calm and healthy for good.
HealthyIsFull ==
    <>[](Calm /\ mCurrentHealth = HEALTHY) =>
      <>[](\A s \in Streams :
             Automatic(stream[s]) =>
               stream[s].multiplier = Target(stream[s].config, HEALTHY))

\* BANDWIDTH_MANAGEMENT_PROPOSAL.md, SEVERE to CONGESTED: "RTT probes succeed
\* for `recoveryWindowMs`".  Here every probe succeeds with the same round trip.
SteadyProbesRestore == mCurrentHealth = SEVERE ~> mCurrentHealth # SEVERE
==============================================================================
