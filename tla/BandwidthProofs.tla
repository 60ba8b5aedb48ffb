---------------------------- MODULE BandwidthProofs ----------------------------
(***************************************************************************)
(* Theorems about BandwidthManager, for any set of streams, any            *)
(* configurations within range, any thresholds, gains and measurements.    *)
(***************************************************************************)
EXTENDS BandwidthManager, TLAPS

\* What a StreamBandwidthConfig must satisfy.
AllConfigs == Configs \cup {DefaultConfig}

\* One stream is in order under a health: its fields are in their ranges, its
\* multiplier is in the configured range and not above the target.
Good(x, health) ==
    /\ x = [config |-> x.config, multiplier |-> x.multiplier,
            dropped |-> x.dropped, manual |-> x.manual]
    /\ x.config \in AllConfigs
    /\ x.dropped \in BOOLEAN
    /\ x.manual \in {NotSet} \cup 0..Full
    /\ x.multiplier \in x.config.mMin .. x.config.mMax
    /\ Automatic(x) => x.multiplier <= Target(x.config, health)

\* A stream that is both paused and set by hand was set by hand while paused:
\* lowering passes over streams set by hand.
HeldByHand ==
    \A s \in Streams :
      stream[s].dropped /\ ~Automatic(stream[s]) => s \in overridden

\* The inductive invariant.
IInv ==
    /\ mCurrentHealth \in HEALTHY..SEVERE
    /\ DOMAIN stream = Streams
    /\ stream = [s \in Streams |-> stream[s]]
    /\ overridden \subseteq Streams
    /\ \A s \in Streams : Good(stream[s], mCurrentHealth)
    /\ DroppedOnlyWhenSevere
    /\ HeldByHand

\* A configuration is a range within 0..Full.
LEMMA ConfigRange ==
    ASSUME NEW c \in AllConfigs
    PROVE  /\ c.mMin \in Nat /\ c.mMax \in Nat
           /\ c.mMin <= c.mMax /\ c.mMax <= Full
           /\ c.mDrop \in BOOLEAN
<1>1. CASE c \in Configs
  <2>1. c.mMin \in 0..c.mMax /\ c.mMax \in 0..Full /\ c.mDrop \in BOOLEAN
    BY <1>1, BandwidthAssumption
  <2>2. Full \in Nat
    BY BandwidthAssumption
  <2> QED BY <2>1, <2>2
<1>2. CASE c = DefaultConfig
  <2>1. c.mMin = 0 /\ c.mMax = Full /\ c.mDrop = FALSE
    BY <1>2 DEF DefaultConfig
  <2>2. Full \in Nat
    BY BandwidthAssumption
  <2>3. c.mDrop \in BOOLEAN
    BY <2>1
  <2>4. /\ c.mMin \in Nat /\ c.mMax \in Nat
        /\ c.mMin <= c.mMax /\ c.mMax <= Full
    BY ONLY <2>1, <2>2
  <2> QED BY <2>3, <2>4
<1> QED BY <1>1, <1>2 DEF AllConfigs

\* getTargetMultiplier returns a value of the configured range, and a worse
\* health never has a higher target.
LEMMA TargetRange ==
    ASSUME NEW c \in AllConfigs, NEW health
    PROVE  Target(c, health) \in c.mMin .. c.mMax
<1>1. /\ c.mMin \in Nat /\ c.mMax \in Nat /\ c.mMin <= c.mMax
      /\ Full \in Nat /\ DegradedTarget \in Nat /\ CongestedTarget \in Nat
  BY ConfigRange, BandwidthAssumption
<1> DEFINE x == CASE health = HEALTHY -> Full
                 [] health = DEGRADED -> DegradedTarget
                 [] health = CONGESTED -> CongestedTarget
                 [] OTHER -> c.mMin
<1>2. x \in Nat
  BY <1>1
<1>3. Target(c, health) = ClampTo(c, x)
  BY DEF Target
<1> HIDE DEF x
<1> QED BY <1>1, <1>2, <1>3 DEF ClampTo, Clamp

LEMMA TargetMonotone ==
    ASSUME NEW c \in AllConfigs, NEW h \in HEALTHY..SEVERE,
           NEW k \in HEALTHY..SEVERE, h <= k
    PROVE  Target(c, k) <= Target(c, h)
<1>1. /\ c.mMin \in Nat /\ c.mMax \in Nat /\ c.mMin <= c.mMax
      /\ c.mMax <= Full
      /\ Full \in Nat /\ DegradedTarget \in Nat /\ CongestedTarget \in Nat
      /\ DegradedTarget <= Full /\ CongestedTarget <= DegradedTarget
  BY ConfigRange, BandwidthAssumption
<1>2. h \in 0..3 /\ k \in 0..3
  BY DEF HEALTHY, SEVERE
<1> DEFINE T(n) == IF n = 0 THEN Full ELSE IF n = 1 THEN DegradedTarget
                   ELSE IF n = 2 THEN CongestedTarget ELSE c.mMin
<1>3. \A n \in 0..3 : Target(c, n) = ClampTo(c, T(n))
  BY DEF Target, HEALTHY, DEGRADED, CONGESTED
<1>4. ClampTo(c, T(k)) <= ClampTo(c, T(h))
  BY <1>1, <1>2 DEF ClampTo, Clamp
<1> QED BY <1>2, <1>3, <1>4

\* The five ways a stream is changed keep it in order.
LEMMA LoweredGood ==
    ASSUME NEW x, NEW h \in HEALTHY..SEVERE, NEW k \in HEALTHY..SEVERE,
           h <= k, Good(x, h)
    PROVE  /\ Good(Lowered(x, k), k)
           /\ Lowered(x, k).manual = x.manual
           /\ Lowered(x, k).multiplier <= x.multiplier
           /\ Automatic(x) /\ x.dropped => Lowered(x, k).dropped
           /\ Lowered(x, k).dropped => x.dropped \/ k = SEVERE
           /\ ~Automatic(x) => Lowered(x, k) = x
<1>1. /\ x.config \in AllConfigs
      /\ x.config.mMin \in Nat /\ x.config.mMax \in Nat
      /\ x.config.mDrop \in BOOLEAN
  BY ConfigRange DEF Good
<1>2. Target(x.config, k) \in x.config.mMin .. x.config.mMax
  BY <1>1, TargetRange
<1>3. CASE ~Automatic(x)
  <2>1. Lowered(x, k) = x
    BY <1>3 DEF Lowered
  <2> QED BY <1>1, <1>3, <2>1 DEF Good
<1>4. CASE Automatic(x)
  <2> DEFINE y == Lowered(x, k)
  <2>1. /\ y.config = x.config /\ y.manual = x.manual
        /\ y.multiplier = Smaller(x.multiplier, Target(x.config, k))
        /\ y.dropped = (x.dropped \/ (k = SEVERE /\ x.config.mDrop))
        /\ y = [config |-> y.config, multiplier |-> y.multiplier,
                dropped |-> y.dropped, manual |-> y.manual]
    BY <1>4 DEF Lowered, Good
  <2>2. /\ y.multiplier \in x.config.mMin .. x.config.mMax
        /\ y.multiplier <= Target(x.config, k)
        /\ y.multiplier <= x.multiplier
    BY <1>1, <1>2, <2>1 DEF Good, Smaller
  <2>3. y.dropped \in BOOLEAN
    BY <2>1
  <2> HIDE DEF y
  <2>4. Good(y, k)
    BY <2>1, <2>2, <2>3 DEF Good
  <2> QED BY <1>4, <2>1, <2>2, <2>4 DEF y
<1> QED BY <1>3, <1>4

LEMMA RaisedGood ==
    ASSUME NEW x, NEW h \in HEALTHY..SEVERE, NEW k \in HEALTHY..SEVERE,
           k < h, Good(x, h)
    PROVE  /\ Good(Raised(x, k), k)
           /\ Raised(x, k).manual = x.manual
           /\ Raised(x, k).multiplier >= x.multiplier
           /\ Raised(x, k).dropped => x.dropped
           /\ Automatic(x) => ~Raised(x, k).dropped
           /\ ~Automatic(x) => Raised(x, k) = x
<1>1. /\ x.config \in AllConfigs
      /\ x.config.mMin \in Nat /\ x.config.mMax \in Nat
      /\ mAdditiveIncrease \in Nat
  BY ConfigRange, BandwidthAssumption DEF Good
<1>2. Target(x.config, k) \in x.config.mMin .. x.config.mMax
  BY <1>1, TargetRange
<1>3. Target(x.config, h) <= Target(x.config, k)
  BY <1>1, TargetMonotone DEF HEALTHY, SEVERE
<1>4. Target(x.config, h) \in x.config.mMin .. x.config.mMax
  BY <1>1, TargetRange
<1>5. CASE ~Automatic(x)
  <2>1. Raised(x, k) = x
    BY <1>5 DEF Raised
  <2> QED BY <1>1, <1>5, <2>1 DEF Good
<1>6. CASE Automatic(x)
  <2> DEFINE y == Raised(x, k)
             t == Target(x.config, k)
  <2>1. /\ y.config = x.config /\ y.manual = x.manual
        /\ y.multiplier = ClampTo(x.config,
                                  Smaller(x.multiplier + mAdditiveIncrease, t))
        /\ y.dropped = (x.dropped /\ k = SEVERE)
        /\ y = [config |-> y.config, multiplier |-> y.multiplier,
                dropped |-> y.dropped, manual |-> y.manual]
    BY <1>6 DEF Raised, Good
  <2>2. /\ x.multiplier \in x.config.mMin .. x.config.mMax
        /\ x.multiplier <= t
    BY <1>1, <1>2, <1>3, <1>4, <1>6 DEF Good
  <2>3. t \in x.config.mMin .. x.config.mMax
    BY <1>2
  <2> HIDE DEF y, t
  <2>4. /\ y.multiplier \in x.config.mMin .. x.config.mMax
        /\ y.multiplier <= t
        /\ y.multiplier >= x.multiplier
    BY <1>1, <2>1, <2>2, <2>3 DEF Smaller, ClampTo, Clamp
  <2>5. y.dropped = FALSE
    <3>1. k # SEVERE
      BY DEF HEALTHY, SEVERE
    <3> QED BY <2>1, <3>1
  <2>6. Good(y, k)
    BY <1>1, <2>1, <2>4, <2>5 DEF Good, t
  <2> QED BY <1>6, <2>1, <2>4, <2>5, <2>6 DEF y
<1> QED BY <1>5, <1>6

\* A call that changes the configuration or the manual value leaves the stream
\* in order and does not touch the dropped flag.
LEMMA RetargetedGood ==
    ASSUME NEW x, NEW h \in HEALTHY..SEVERE,
           x = [config |-> x.config, multiplier |-> x.multiplier,
                dropped |-> x.dropped, manual |-> x.manual],
           x.config \in AllConfigs, x.dropped \in BOOLEAN,
           x.manual \in {NotSet} \cup 0..Full
    PROVE  /\ Good(Retargeted(x, h), h)
           /\ Retargeted(x, h).dropped = x.dropped
<1> DEFINE y == Retargeted(x, h)
           c == x.config
<1>1. /\ c.mMin \in Nat /\ c.mMax \in Nat /\ c.mMin <= c.mMax
      /\ Full \in Nat
  BY ConfigRange, BandwidthAssumption
<1>2. Target(c, h) \in c.mMin .. c.mMax
  BY TargetRange
<1>3. /\ y.config = c /\ y.manual = x.manual /\ y.dropped = x.dropped
      /\ y.multiplier = IF Automatic(x) THEN Target(c, h)
                        ELSE ClampTo(c, x.manual)
      /\ y = [config |-> y.config, multiplier |-> y.multiplier,
              dropped |-> y.dropped, manual |-> y.manual]
  BY DEF Retargeted
<1>4. ~Automatic(x) => ClampTo(c, x.manual) \in c.mMin .. c.mMax
  BY <1>1 DEF Automatic, NotSet, ClampTo, Clamp
<1>5. Automatic(y) <=> Automatic(x)
  BY <1>3 DEF Automatic
<1> HIDE DEF y
<1>6. y.multiplier \in c.mMin .. c.mMax
  BY <1>2, <1>3, <1>4
<1>7. Automatic(y) => y.multiplier <= Target(c, h)
  BY <1>1, <1>2, <1>3, <1>5
<1>8. Good(y, h)
  BY <1>3, <1>6, <1>7 DEF Good
<1> QED BY <1>3, <1>8 DEF y

------------------------------------------------------------------------------
(***************************************************************************)
(* The inductive invariant.                                                *)
(***************************************************************************)
LEMMA InitIInv == Init => IInv
<1> SUFFICES ASSUME Init PROVE IInv
  OBVIOUS
<1> DEFINE x == [config |-> DefaultConfig, multiplier |-> Full,
                 dropped |-> FALSE, manual |-> NotSet]
<1>1. Full \in Nat
  BY BandwidthAssumption
<1>2. stream = [s \in Streams |-> x] /\ mCurrentHealth = HEALTHY
      /\ overridden = {}
  BY DEF Init
<1>3. DefaultConfig.mMin = 0 /\ DefaultConfig.mMax = Full
  BY DEF DefaultConfig
<1>4. Target(DefaultConfig, HEALTHY) = Full
  BY <1>1, <1>3 DEF Target, ClampTo, Clamp, HEALTHY, DEGRADED, CONGESTED
<1>5. Good(x, HEALTHY)
  BY <1>1, <1>3, <1>4 DEF Good, AllConfigs, Automatic, NotSet
<1>6. x.dropped = FALSE
  OBVIOUS
<1> HIDE DEF x
<1> QED BY <1>2, <1>5, <1>6
        DEF IInv, DroppedOnlyWhenSevere, HeldByHand, HEALTHY, SEVERE

\* evaluateHealth returns one of the four states.
LEMMA EvaluatedRange == Evaluated \in HEALTHY..SEVERE
BY DEF Evaluated, evaluateHealth, NackHealth, DelayHealth, HEALTHY, DEGRADED,
       CONGESTED, SEVERE

\* A change of health keeps every stream in order and moves the multipliers in
\* its own direction.
LEMMA ChangeHealthOK ==
    ASSUME IInv, NEW k \in HEALTHY..SEVERE, k # mCurrentHealth,
           ChangeHealth(k), Forget
    PROVE  /\ IInv'
           /\ \A s \in Streams : Automatic(stream[s]) =>
                /\ k > mCurrentHealth =>
                     /\ stream'[s].multiplier <= stream[s].multiplier
                     /\ stream[s].dropped => stream'[s].dropped
                /\ k < mCurrentHealth =>
                     /\ stream'[s].multiplier >= stream[s].multiplier
                     /\ stream'[s].dropped => stream[s].dropped
<1>1. /\ mCurrentHealth' = k
      /\ stream' = [s \in Streams |->
                      IF k > mCurrentHealth THEN Lowered(stream[s], k)
                      ELSE Raised(stream[s], k)]
      /\ overridden' = {s \in overridden : stream'[s].dropped}
  BY DEF ChangeHealth, Forget
<1>2. mCurrentHealth \in HEALTHY..SEVERE
  BY DEF IInv
<1>3. CASE k > mCurrentHealth
  <2>1. \A s \in Streams : stream'[s] = Lowered(stream[s], k)
    BY <1>1, <1>3
  <2>2. ASSUME NEW s \in Streams
        PROVE  /\ Good(stream'[s], k)
               /\ stream'[s].multiplier <= stream[s].multiplier
               /\ Automatic(stream[s]) /\ stream[s].dropped
                    => stream'[s].dropped
               /\ stream'[s].dropped => stream[s].dropped \/ k = SEVERE
               /\ Automatic(stream'[s]) <=> Automatic(stream[s])
               /\ ~Automatic(stream[s]) => stream'[s] = stream[s]
    <3>1. mCurrentHealth <= k /\ Good(stream[s], mCurrentHealth)
      BY <1>2, <1>3 DEF IInv, HEALTHY, SEVERE
    <3> QED BY <1>2, <2>1, <3>1, LoweredGood DEF Automatic
  <2>3. mCurrentHealth # SEVERE
    BY <1>2, <1>3 DEF HEALTHY, SEVERE
  <2>4. ASSUME NEW s \in Streams, stream'[s].dropped
        PROVE  k = SEVERE \/ s \in overridden'
    BY <1>1, <2>2, <2>3, <2>4 DEF IInv, DroppedOnlyWhenSevere
  <2>7. ASSUME NEW s \in Streams, stream'[s].dropped, ~Automatic(stream'[s])
        PROVE  s \in overridden'
    BY <1>1, <2>2, <2>7 DEF IInv, HeldByHand
  <2>5. IInv'
    BY <1>1, <2>2, <2>4, <2>7 DEF IInv, DroppedOnlyWhenSevere, HeldByHand
  <2>6. ~(k < mCurrentHealth)
    BY <1>2, <1>3 DEF HEALTHY, SEVERE
  <2> QED BY <2>2, <2>5, <2>6
<1>4. CASE ~(k > mCurrentHealth)
  <2>1. \A s \in Streams : stream'[s] = Raised(stream[s], k)
    BY <1>1, <1>4
  <2>2. k < mCurrentHealth
    BY <1>2, <1>4 DEF HEALTHY, SEVERE
  <2>3. ASSUME NEW s \in Streams
        PROVE  /\ Good(stream'[s], k)
               /\ stream'[s].multiplier >= stream[s].multiplier
               /\ stream'[s].dropped => stream[s].dropped
               /\ Automatic(stream[s]) => ~stream'[s].dropped
               /\ ~Automatic(stream[s]) => stream'[s] = stream[s]
    <3>1. Good(stream[s], mCurrentHealth)
      BY DEF IInv
    <3> QED BY <1>2, <2>1, <2>2, <3>1, RaisedGood
  <2>4. ASSUME NEW s \in Streams, stream'[s].dropped
        PROVE  s \in overridden'
    <3>1. ~Automatic(stream[s]) /\ stream'[s] = stream[s]
      BY <2>3, <2>4
    <3>2. s \in overridden
      BY <2>4, <3>1 DEF IInv, HeldByHand
    <3> QED BY <1>1, <2>4, <3>1, <3>2
  <2>5. IInv'
    BY <1>1, <2>3, <2>4 DEF IInv, DroppedOnlyWhenSevere, HeldByHand
  <2>6. ~(k > mCurrentHealth)
    BY <1>4
  <2> QED BY <2>3, <2>5, <2>6
<1> QED BY <1>3, <1>4

\* What IInv and one stream say together, for the actions on one stream.
LEMMA RetargetOne ==
    ASSUME IInv, NEW s \in Streams, NEW x,
           x = [config |-> x.config, multiplier |-> x.multiplier,
                dropped |-> x.dropped, manual |-> x.manual],
           x.config \in AllConfigs, x.manual \in {NotSet} \cup 0..Full,
           x.dropped = stream[s].dropped,
           stream' = [stream EXCEPT ![s] = Retargeted(x, mCurrentHealth)],
           mCurrentHealth' = mCurrentHealth,
           \/ /\ overridden' = overridden
              /\ ~Automatic(x) => ~Automatic(stream[s])
           \/ overridden' = IF stream[s].dropped THEN overridden \cup {s}
                            ELSE overridden
    PROVE  IInv'
<1> DEFINE y == Retargeted(x, mCurrentHealth)
<1>1. mCurrentHealth \in HEALTHY..SEVERE /\ x.dropped \in BOOLEAN
  BY DEF IInv, Good
<1>2. Good(y, mCurrentHealth) /\ y.dropped = stream[s].dropped
  BY <1>1, RetargetedGood
<1>3. Automatic(y) <=> Automatic(x)
  <2>1. y.manual = x.manual
    BY DEF Retargeted
  <2> QED BY <2>1 DEF Automatic
<1> HIDE DEF y
<1>4. /\ stream' = [stream EXCEPT ![s] = y]
      /\ stream = [r \in Streams |-> stream[r]]
  BY DEF y, IInv
<1>5. \A r \in Streams : stream'[r] = IF r = s THEN y ELSE stream[r]
  BY <1>4
<1>6. overridden \subseteq overridden' /\ overridden' \subseteq Streams
  BY DEF IInv
<1>7. ASSUME NEW r \in Streams PROVE Good(stream'[r], mCurrentHealth)
  BY <1>2, <1>5 DEF IInv
<1>8. ASSUME NEW r \in Streams, stream'[r].dropped
      PROVE  mCurrentHealth = SEVERE \/ r \in overridden'
  BY <1>2, <1>5, <1>6, <1>8 DEF IInv, DroppedOnlyWhenSevere
<1>9. ASSUME NEW r \in Streams, stream'[r].dropped, ~Automatic(stream'[r])
      PROVE  r \in overridden'
  <2>1. CASE r # s
    BY <1>5, <1>6, <1>9, <2>1 DEF IInv, HeldByHand
  <2>2. CASE r = s
    BY <1>2, <1>3, <1>5, <1>6, <1>9, <2>2 DEF IInv, HeldByHand
  <2> QED BY <2>1, <2>2
<1>10. DOMAIN stream' = Streams /\ stream' = [r \in Streams |-> stream'[r]]
  BY <1>4
<1> QED BY <1>1, <1>6, <1>7, <1>8, <1>9, <1>10
        DEF IInv, DroppedOnlyWhenSevere, HeldByHand

LEMMA Untouched ==
    ASSUME IInv, UNCHANGED <<mCurrentHealth, stream, overridden>>
    PROVE  IInv'
BY DEF IInv, Good, Automatic, DroppedOnlyWhenSevere, HeldByHand

\* The manual value is held in 0..1.0 whatever the caller passes.
LEMMA ManualRange ==
    ASSUME NEW v \in Manuals
    PROVE  ManualValue(v) \in 0..Full
<1>1. v \in Int /\ Full \in Nat
  BY BandwidthAssumption
<1> QED BY <1>1 DEF ManualValue, Clamp

\* Every step keeps the invariant.  Only update changes the health, and it
\* moves the multipliers the same way.
LEMMA NextIInv == IInv /\ [Next]_vars => IInv' /\ HealthStep
<1> SUFFICES ASSUME IInv, [Next]_vars PROVE IInv' /\ HealthStep
  OBVIOUS
<1>1. mCurrentHealth \in HEALTHY..SEVERE
  BY DEF IInv
<1>2. mCurrentHealth' = mCurrentHealth => HealthStep
  BY <1>1 DEF HealthStep, HEALTHY, SEVERE
<1>3. ASSUME NEW k \in HEALTHY..SEVERE, k # mCurrentHealth,
             ChangeHealth(k), Forget
      PROVE  IInv' /\ HealthStep
  <2>1. mCurrentHealth' = k
    BY <1>3 DEF ChangeHealth
  <2>2. IInv'
    BY <1>3, ChangeHealthOK
  <2>3. \A s \in Streams : Automatic(stream[s]) =>
          /\ k > mCurrentHealth =>
               /\ stream'[s].multiplier <= stream[s].multiplier
               /\ stream[s].dropped => stream'[s].dropped
          /\ k < mCurrentHealth =>
               /\ stream'[s].multiplier >= stream[s].multiplier
               /\ stream'[s].dropped => stream[s].dropped
    BY <1>3, ChangeHealthOK
  <2> QED BY <2>1, <2>2, <2>3 DEF HealthStep
<1>4. ASSUME UNCHANGED <<mCurrentHealth, stream, overridden>>
      PROVE  IInv' /\ HealthStep
  BY <1>2, <1>4, Untouched
<1>5. CASE UpdateHealth
  BY <1>3, <1>5, EvaluatedRange DEF UpdateHealth
<1>6. CASE UpdateProbing
  <2>1. /\ mCurrentHealth - 1 \in HEALTHY..SEVERE
        /\ mCurrentHealth - 1 # mCurrentHealth
    BY <1>1, <1>6 DEF UpdateProbing, HEALTHY, SEVERE
  <2> QED BY <1>3, <1>6, <2>1 DEF UpdateProbing
<1>7. CASE UpdateNothing
  BY <1>4, <1>7 DEF UpdateNothing
<1>8. CASE receiveNack
  BY <1>4, <1>8 DEF receiveNack
<1>9. ASSUME NEW d \in Jitters, updateJitter(d)
      PROVE  IInv' /\ HealthStep
  BY <1>4, <1>9 DEF updateJitter
<1>10. ASSUME NEW r \in Rtts, processRttResponse(r)
       PROVE  IInv' /\ HealthStep
  BY <1>4, <1>10 DEF processRttResponse
<1>11. ASSUME NEW s \in Streams, NEW c \in Configs, setStreamConfig(s, c)
       PROVE  IInv' /\ HealthStep
  <2> DEFINE x == [stream[s] EXCEPT !.config = c]
  <2>1. Good(stream[s], mCurrentHealth) /\ s \in DOMAIN stream
    BY DEF IInv
  <2>2. /\ x = [config |-> x.config, multiplier |-> x.multiplier,
                dropped |-> x.dropped, manual |-> x.manual]
        /\ x.config = c /\ x.manual = stream[s].manual
        /\ x.dropped = stream[s].dropped
    BY <2>1 DEF Good
  <2>3. x.config \in AllConfigs /\ x.manual \in {NotSet} \cup 0..Full
    BY <2>1, <2>2 DEF Good, AllConfigs
  <2>4. Automatic(x) <=> Automatic(stream[s])
    BY <2>2 DEF Automatic
  <2>5. /\ stream' = [stream EXCEPT ![s] = Retargeted(x, mCurrentHealth)]
        /\ mCurrentHealth' = mCurrentHealth /\ overridden' = overridden
    BY <1>11, <2>1 DEF setStreamConfig
  <2> HIDE DEF x
  <2>6. IInv'
    BY <2>2, <2>3, <2>4, <2>5, RetargetOne
  <2> QED BY <1>2, <2>5, <2>6
<1>12. ASSUME NEW s \in Streams, NEW v \in Manuals, setManualMultiplier(s, v)
       PROVE  IInv' /\ HealthStep
  <2> DEFINE x == [stream[s] EXCEPT !.manual = ManualValue(v)]
  <2>1. Good(stream[s], mCurrentHealth) /\ s \in DOMAIN stream
    BY DEF IInv
  <2>2. /\ x = [config |-> x.config, multiplier |-> x.multiplier,
                dropped |-> x.dropped, manual |-> x.manual]
        /\ x.config = stream[s].config /\ x.manual = ManualValue(v)
        /\ x.dropped = stream[s].dropped
    BY <2>1 DEF Good
  <2>3. x.config \in AllConfigs /\ x.manual \in {NotSet} \cup 0..Full
    BY <2>1, <2>2, ManualRange DEF Good
  <2>4. /\ stream' = [stream EXCEPT ![s] = Retargeted(x, mCurrentHealth)]
        /\ mCurrentHealth' = mCurrentHealth
        /\ overridden' = IF stream[s].dropped THEN overridden \cup {s}
                         ELSE overridden
    BY <1>12, <2>1 DEF setManualMultiplier
  <2> HIDE DEF x
  <2>5. IInv'
    BY <2>2, <2>3, <2>4, RetargetOne
  <2> QED BY <1>2, <2>4, <2>5
<1>13. ASSUME NEW s \in Streams, clearManualMultiplier(s)
       PROVE  IInv' /\ HealthStep
  <2> DEFINE x == [stream[s] EXCEPT !.manual = NotSet]
  <2>1. Good(stream[s], mCurrentHealth) /\ s \in DOMAIN stream
    BY DEF IInv
  <2>2. /\ x = [config |-> x.config, multiplier |-> x.multiplier,
                dropped |-> x.dropped, manual |-> x.manual]
        /\ x.config = stream[s].config /\ x.manual = NotSet
        /\ x.dropped = stream[s].dropped
    BY <2>1 DEF Good
  <2>3. x.config \in AllConfigs /\ x.manual \in {NotSet} \cup 0..Full
    BY <2>1, <2>2 DEF Good
  <2>4. Automatic(x)
    BY <2>2 DEF Automatic, NotSet
  <2>5. /\ stream' = [stream EXCEPT ![s] = Retargeted(x, mCurrentHealth)]
        /\ mCurrentHealth' = mCurrentHealth /\ overridden' = overridden
    BY <1>13, <2>1 DEF clearManualMultiplier
  <2> HIDE DEF x
  <2>6. IInv'
    BY <2>2, <2>3, <2>4, <2>5, RetargetOne
  <2> QED BY <1>2, <2>5, <2>6
<1>14. CASE Tick
  BY <1>4, <1>14 DEF Tick
<1>15. CASE UNCHANGED vars
  BY <1>4, <1>15 DEF vars
<1> QED
  BY <1>5, <1>6, <1>7, <1>8, <1>9, <1>10, <1>11, <1>12, <1>13, <1>14, <1>15
     DEF Next, Update, Congestion, Response, Policy

\* The inductive invariant holds throughout.
THEOREM Invariance == Spec => []IInv
<1>1. Init => IInv
  BY InitIInv
<1>2. IInv /\ [Next]_vars => IInv'
  BY NextIInv
<1> QED BY <1>1, <1>2, PTL DEF Spec

------------------------------------------------------------------------------
(***************************************************************************)
(* The properties.                                                         *)
(***************************************************************************)

\* Every field keeps its type under any sequence of calls.
THEOREM TypeCorrect == Spec => []TypeOK
<1>1. IInv => TypeOK
  <2> SUFFICES ASSUME IInv PROVE TypeOK
    OBVIOUS
  <2>1. ASSUME NEW s \in Streams PROVE stream[s].multiplier \in 0..Full
    <3>1. /\ stream[s].config \in AllConfigs
          /\ stream[s].multiplier \in
               stream[s].config.mMin .. stream[s].config.mMax
      BY DEF IInv, Good
    <3>2. Full \in Nat
      BY BandwidthAssumption
    <3> QED BY <3>1, <3>2, ConfigRange
  <2> QED BY <2>1 DEF IInv, Good, TypeOK, AllConfigs
<1> QED BY <1>1, Invariance, PTL

\* updateStreamMultiplier and the two loops all hold a multiplier in the range
\* its stream is configured for.
THEOREM InRange == Spec => []MultiplierInRange
<1>1. IInv => MultiplierInRange
  BY DEF IInv, Good, MultiplierInRange
<1> QED BY <1>1, Invariance, PTL

\* handleHealthChange, tryBandwidthIncrease and setStreamConfig never leave an
\* automatic stream above what getTargetMultiplier allows.
THEOREM BelowTarget == Spec => []NeverAboveHealth
<1>1. IInv => NeverAboveHealth
  BY DEF IInv, Good, NeverAboveHealth
<1> QED BY <1>1, Invariance, PTL

\* A stream paused by handleHealthChange is resumed by the first improvement,
\* unless it was set by hand while paused.
THEOREM PausedOnlyWhenSevere == Spec => []DroppedOnlyWhenSevere
<1>1. IInv => DroppedOnlyWhenSevere
  BY DEF IInv
<1> QED BY <1>1, Invariance, PTL

\* A change of health never moves a stream against its direction.
THEOREM HealthMoves == Spec => HealthMovesMultipliers
<1>1. IInv /\ [Next]_vars => [HealthStep]_vars
  BY NextIInv
<1> QED BY <1>1, Invariance, PTL DEF Spec, HealthMovesMultipliers
==============================================================================
