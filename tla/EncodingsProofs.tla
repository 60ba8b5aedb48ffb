---------------------------- MODULE EncodingsProofs ----------------------------
(***************************************************************************)
(* Proofs about the encodings one end writes and the other reads: the cut  *)
(* of a SuperFrame for every header size, MTU and size, NACKs for every    *)
(* pattern of received fragments, and chunks of embedded data of any       *)
(* number and contents.  The cut is a division with remainder; DivMod is   *)
(* the one fact about integers the rest is linear in, once the product of  *)
(* the Type1 count and the Type1 payload has a name.                       *)
(***************************************************************************)
EXTENDS MCEncodings, NackProofs

\* A multiple of a product one lower.
LEMMA PredTimes ==
    ASSUME NEW k \in Int, NEW d \in Int
    PROVE  /\ (k - 1) * d = k * d - d
           /\ (k + 1) * d = k * d + d
           /\ d * k = k * d
  BY Z3

\* A plan that cuts n bytes into Type1 payloads of p bytes, at most one Type3 and
\* a Type2 of at most c bytes.
PlanOK(plan, n, p, c) ==
    /\ plan.type1 \in Nat /\ plan.type3 \in Nat /\ plan.type2 \in Nat
    /\ (plan.type1 * p) + plan.type3 + plan.type2 = n
    /\ plan.type2 \in 1..c
    /\ plan.type2 <= p
    /\ plan.type3 < p
    /\ plan.total = plan.type1 + (IF plan.type3 > 0 THEN 1 ELSE 0) + 1
    /\ plan.total > 1

\* What the four branches of sendFragmented compute, for a frame that is too
\* large for a lone Type2.
LEMMA SplitPlanExact ==
    ASSUME NEW aSize \in Nat, NEW p \in Nat \ {0}, NEW cap \in Nat \ {0},
           aSize > cap
    PROVE  PlanOK(SplitPlan(aSize, p, cap), aSize, p, cap)
<1> USE DEF PlanOK
<1> DEFINE rem == aSize % p
           num == aSize \div p
<1>1. num \in Nat /\ rem \in 0..(p-1) /\ aSize = num * p + rem
  BY DivMod, PredTimes
<1>2. (num - 1) * p = num * p - p /\ num * p \in Int
  BY <1>1, PredTimes
<1>3. rem = 0 => num > 0
  <2>1. num = 0 => num * p = 0
    BY <1>1
  <2> QED BY <2>1, <1>1
<1> HIDE DEF rem, num
<1>4. SplitPlan(aSize, p, cap) =
        IF rem = 0
          THEN IF p <= cap
                 THEN [type1 |-> num - 1, type3 |-> 0, type2 |-> p,
                       total |-> num]
                 ELSE [type1 |-> num - 1, type3 |-> p - cap, type2 |-> cap,
                       total |-> num + 1]
          ELSE IF rem <= cap
                 THEN [type1 |-> num, type3 |-> 0, type2 |-> rem,
                       total |-> num + 1]
                 ELSE [type1 |-> num, type3 |-> rem - cap, type2 |-> cap,
                       total |-> num + 2]
  BY DEF SplitPlan, rem, num
<1>5. CASE rem = 0 /\ p <= cap
  <2>1. num > 1
    <3>1. num = 1 => num * p = p
      BY <1>1
    <3> QED BY <3>1, <1>1, <1>3, <1>5
  <2> QED BY <1>1, <1>2, <1>4, <1>5, <2>1
<1>6. CASE rem = 0 /\ p > cap
  BY <1>1, <1>2, <1>3, <1>4, <1>6
<1>7. CASE rem # 0 /\ rem <= cap
  <2>1. num > 0
    <3>1. num = 0 => num * p = 0
      BY <1>1
    <3> QED BY <3>1, <1>1, <1>7
  <2> QED BY <1>1, <1>2, <1>4, <1>7, <2>1
<1>8. CASE rem # 0 /\ rem > cap
  BY <1>1, <1>2, <1>4, <1>8
<1> QED BY <1>1, <1>5, <1>6, <1>7, <1>8

------------------------------------------------------------------------------
(***************************************************************************)
(* The invariant: a call in progress that was accepted is the result of    *)
(* send's computation on its own arguments.                                *)
(***************************************************************************)
CallOK ==
    Accepted =>
      /\ call.size \in Nat
      /\ call.pts \in 0..UINT64_MAX /\ call.dts \in 0..UINT64_MAX
      /\ call.diff = DtsPtsDiff(call.pts, call.dts)
      /\ SendVerdict(call.size, mMtu, mSubFragmentMode) = "OK"
      /\ call.plan = SendPlan(call.size, mMtu, mSubFragmentMode)

IInv == TypeOK /\ CallOK

LEMMA InitIInv == Init => IInv
  BY WireAssumption, FragmenterAssumption
     DEF Init, IInv, TypeOK, CallOK, Accepted, EffectiveMtu, NoCall

LEMMA NextIInv == IInv /\ [Next]_vars => IInv'
<1> SUFFICES ASSUME IInv, [Next]_vars PROVE IInv'
  OBVIOUS
<1>1. ASSUME NEW aSize \in Sizes, NEW aPts \in Stamps, NEW aDts \in Stamps,
             Send(aSize, aPts, aDts)
      PROVE  IInv'
  <2>1. SendVerdict(aSize, mMtu, mSubFragmentMode)
          \in {"OK", "INVALID_PARAMETER", "TOO_LARGE_FRAME"}
    BY DEF SendVerdict
  <2>2. TypeOK'
    BY <1>1, <2>1 DEF Send, IInv, TypeOK
  <2>3. CallOK'
    BY <1>1, FragmenterAssumption DEF Send, CallOK, Accepted
  <2> QED BY <2>2, <2>3 DEF IInv
<1>2. CASE Return
  BY <1>2 DEF Return, IInv, TypeOK, CallOK, Accepted, NoCall
<1>3. CASE UNCHANGED vars
  BY <1>3 DEF vars, IInv, TypeOK, CallOK, Accepted
<1> QED BY <1>1, <1>2, <1>3 DEF Next

\* The inductive invariant holds in every reachable state.
THEOREM Invariance == Spec => []IInv
  BY InitIInv, NextIInv, PTL DEF Spec

\* The constructor's clamp holds for the life of the Sender.
THEOREM TypeCorrect == Spec => []TypeOK
  BY Invariance, PTL DEF IInv

------------------------------------------------------------------------------
\* The sizes an accepted call works with, and what its cut satisfies: a lone
\* Type2, or SplitPlan's cut.
LEMMA AcceptedPlan ==
    ASSUME IInv, Accepted
    PROVE  LET plan == call.plan
               cap  == Type2PayloadSize(mMtu)
           IN  /\ Payload \in Nat \ {0}
               /\ cap \in Nat \ {0}
               /\ call.size \in Nat \ {0}
               /\ plan.type1 \in Nat /\ plan.type3 \in Nat /\ plan.type2 \in Nat
               /\ (plan.type1 * Payload) + plan.type3 + plan.type2 = call.size
               /\ plan.type2 \in 1..cap
               /\ plan.type3 < Payload
               /\ plan.total = plan.type1 + (IF plan.type3 > 0 THEN 1 ELSE 0) + 1
               /\ plan.total <= MAX_FRAGMENTS_PER_SUPERFRAME
               /\ plan.total > 1 => plan.type2 <= Payload
               /\ plan.total = 1 => plan.type1 = 0 /\ plan.type3 = 0
<1> DEFINE cap == Type2PayloadSize(mMtu)
<1>1. mMtu \in Nat /\ mMtu >= MinMtu /\ mSubFragmentMode \in {1, 2, 4, 8}
  BY DEF IInv, TypeOK, SubFragmentMode
<1>2. cap \in Nat \ {0}
  BY <1>1, WireAssumption DEF Type2PayloadSize
<1>3. Payload \in Int
  <2>1. mMtu - FrameType4Size \in Int
    BY <1>1, WireAssumption
  <2>2. /\ (mMtu - FrameType4Size) \div 2 \in Int
        /\ (mMtu - FrameType4Size) \div 4 \in Int
        /\ (mMtu - FrameType4Size) \div 8 \in Int
    BY <2>1
  <2> QED BY <1>1, <2>2, WireAssumption
          DEF Payload, Type1PayloadSize, Type1FrameSize, SINGLE
<1>4. /\ call.size \in Nat
      /\ SendVerdict(call.size, mMtu, mSubFragmentMode) = "OK"
      /\ call.plan = SendPlan(call.size, mMtu, mSubFragmentMode)
  BY DEF IInv, CallOK
<1>5. /\ call.size # 0
      /\ Payload > 0
      /\ \/ call.size <= cap
         \/ ~(SplitPlan(call.size, Payload, cap).total
                > MAX_FRAGMENTS_PER_SUPERFRAME)
  BY <1>4, <1>2, <1>3 DEF SendVerdict, Payload
<1>6. CASE call.size <= cap
  <2>1. call.plan = [type1 |-> 0, type3 |-> 0, type2 |-> call.size, total |-> 1]
    BY <1>4, <1>6 DEF SendPlan
  <2>2. 0 * Payload = 0
    BY <1>3
  <2> QED BY <1>2, <1>3, <1>4, <1>5, <1>6, <2>1, <2>2, WireAssumption
<1>7. CASE call.size > cap
  <2>1. call.plan = SplitPlan(call.size, Payload, cap)
    BY <1>4, <1>7, <1>2 DEF SendPlan, Payload
  <2>2. Payload \in Nat \ {0}
    BY <1>3, <1>5
  <2> HIDE DEF cap
  <2>3. /\ call.plan.type1 \in Nat /\ call.plan.type3 \in Nat
        /\ call.plan.type2 \in Nat
        /\ (call.plan.type1 * Payload) + call.plan.type3 + call.plan.type2
             = call.size
        /\ call.plan.type2 \in 1..cap
        /\ call.plan.type2 <= Payload
        /\ call.plan.type3 < Payload
        /\ call.plan.total
             = call.plan.type1 + (IF call.plan.type3 > 0 THEN 1 ELSE 0) + 1
        /\ call.plan.total > 1
    <3>1. PlanOK(SplitPlan(call.size, Payload, cap), call.size, Payload, cap)
      BY <1>2, <1>4, <1>7, <2>2, SplitPlanExact
    <3>2. PlanOK(call.plan, call.size, Payload, cap)
      BY ONLY <2>1, <3>1
    <3> QED BY ONLY <3>2 DEF PlanOK
  <2>4. call.plan.total <= MAX_FRAGMENTS_PER_SUPERFRAME
    <3>1. ~(call.plan.total > MAX_FRAGMENTS_PER_SUPERFRAME)
      BY <1>2, <1>4, <1>5, <1>7, <2>1
    <3>2. call.plan.total \in Int
      BY <2>3
    <3> QED BY <3>1, <3>2, WireAssumption
  <2> QED BY <1>2, <1>4, <1>5, <2>2, <2>3, <2>4 DEF cap
<1> QED BY <1>2, <1>4, <1>6, <1>7

\* Every accepted SuperFrame is cut without loss, overlap or an empty fragment.
THEOREM SplitCorrect == Spec => []SplitIsExact
<1>1. IInv => SplitIsExact
  <2> SUFFICES ASSUME IInv, Accepted PROVE SplitIsExact
    BY DEF SplitIsExact
  <2> QED BY AcceptedPlan DEF SplitIsExact
<1> QED BY <1>1, Invariance, PTL

\* No packet exceeds the MTU, in any sub-fragment mode.
THEOREM MtuRespected == Spec => []PacketsFitMtu
<1>1. IInv => PacketsFitMtu
  <2> SUFFICES ASSUME IInv, Accepted PROVE PacketsFitMtu
    BY DEF PacketsFitMtu
  <2> DEFINE plan == call.plan
             full == FrameType1Size + Payload
  <2>1. mMtu \in Nat /\ mMtu >= MinMtu /\ mSubFragmentMode \in {1, 2, 4, 8}
    BY DEF IInv, TypeOK, SubFragmentMode
  <2>2. /\ Payload \in Nat \ {0}
        /\ plan.type2 \in 1..Type2PayloadSize(mMtu)
        /\ plan.type3 \in Nat /\ plan.type3 < Payload
    BY AcceptedPlan
  <2>3. full = Type1FrameSize(mMtu, mSubFragmentMode)
    <3>1. Type1FrameSize(mMtu, mSubFragmentMode) \in Int
      <4>1. mMtu - FrameType4Size \in Int
        BY <2>1, WireAssumption
      <4>2. /\ (mMtu - FrameType4Size) \div 2 \in Int
            /\ (mMtu - FrameType4Size) \div 4 \in Int
            /\ (mMtu - FrameType4Size) \div 8 \in Int
        BY <4>1
      <4> QED BY <2>1, <4>2 DEF Type1FrameSize, SINGLE
    <3> QED BY <3>1, WireAssumption DEF Payload, Type1PayloadSize
  <2>4. /\ mSubFragmentMode = 1 => full = mMtu
        /\ mSubFragmentMode # 1
             => FrameType4Size + (mSubFragmentMode * full) <= mMtu
    <3> DEFINE room == mMtu - FrameType4Size
    <3>1. room \in Int
      BY <2>1, WireAssumption
    <3>2. /\ 2 * (room \div 2) <= room
          /\ 4 * (room \div 4) <= room
          /\ 8 * (room \div 8) <= room
          /\ room \div 2 \in Int /\ room \div 4 \in Int /\ room \div 8 \in Int
      BY <3>1
    <3>3. CASE mSubFragmentMode = 1
      BY <3>3, <2>3 DEF Type1FrameSize, SINGLE
    <3>4. CASE mSubFragmentMode # 1
      <4>1. full = room \div mSubFragmentMode
        BY <3>4, <2>3 DEF Type1FrameSize, SINGLE
      <4>2. mSubFragmentMode * full <= room /\ mSubFragmentMode * full \in Int
        BY <2>1, <3>2, <3>4, <4>1
      <4> QED BY <4>2, <2>1, <3>4, WireAssumption
    <3> QED BY <3>3, <3>4
  <2>5. full <= mMtu
    <3>1. full \in Nat
      BY <2>2, WireAssumption
    <3>2. /\ 2 * full >= full /\ 4 * full >= full /\ 8 * full >= full
          /\ 2 * full \in Nat /\ 4 * full \in Nat /\ 8 * full \in Nat
      BY <3>1
    <3> QED BY <2>1, <2>4, <3>1, <3>2, WireAssumption
  <2>6. FrameType2Size + plan.type2 <= mMtu
    BY <2>1, <2>2, WireAssumption DEF Type2PayloadSize
  <2>7. FrameType1Size + plan.type3 <= mMtu
    BY <2>1, <2>2, <2>5, WireAssumption
  <2> QED BY <2>4, <2>6, <2>7 DEF PacketsFitMtu, SINGLE
<1> QED BY <1>1, Invariance, PTL

\* Both ends compute the same offsets, and the last write fits the allocation.
THEOREM LayoutCorrect == Spec => []LayoutAgrees
<1>1. IInv => LayoutAgrees
  <2> SUFFICES ASSUME IInv, Accepted PROVE LayoutAgrees
    BY DEF LayoutAgrees
  <2> DEFINE plan == call.plan
             of   == OfFragmentNo
             fs   == PlanType1PacketSize(plan, Payload)
             read == call.size - plan.type2
  <2>1. /\ Payload \in Nat \ {0}
        /\ call.size \in Nat
        /\ plan.type1 \in Nat /\ plan.type3 \in Nat /\ plan.type2 \in Nat
        /\ (plan.type1 * Payload) + plan.type3 + plan.type2 = call.size
        /\ plan.type3 < Payload
        /\ plan.total = plan.type1 + (IF plan.type3 > 0 THEN 1 ELSE 0) + 1
        /\ plan.total > 1 => plan.type2 <= Payload
        /\ plan.total = 1 => plan.type1 = 0 /\ plan.type3 = 0
    BY AcceptedPlan
  <2>2. of = plan.total - 1
    BY DEF OfFragmentNo
  <2>3. plan.type1 * Payload \in Nat /\ read = (plan.type1 * Payload) + plan.type3
    BY <2>1
  <2>4. CASE plan.total = 1
    <3>1. /\ of = 0 /\ fs = 0 /\ read = 0 /\ plan.type3 = 0 /\ plan.type1 = 0
      <4>1. 0 * Payload = 0
        BY <2>1
      <4>2. plan.type3 = 0 /\ plan.type1 = 0 /\ of = 0
        BY <2>1, <2>2, <2>4
      <4>3. read = 0
        BY <2>3, <4>1, <4>2
      <4>4. fs = 0
        BY <2>4 DEF PlanType1PacketSize
      <4> QED BY <4>2, <4>3, <4>4
    <3>2. Type2Offset(fs, of, plan.type3) = read
      BY <3>1 DEF Type2Offset
    <3> QED BY <3>1, <3>2 DEF LayoutAgrees
  <2>5. CASE plan.total # 1 /\ plan.type3 = 0
    <3>1. of = plan.type1 /\ of \in Nat /\ of > 0 /\ fs = Payload
      BY <2>1, <2>2, <2>5 DEF PlanType1PacketSize
    <3>2. fs * of = plan.type1 * Payload /\ fs * (of + 1) = (fs * of) + fs
      BY <2>1, <3>1, PredTimes
    <3>3. Type2Offset(fs, of, plan.type3) = read
      BY <2>3, <2>5, <3>2, <2>1 DEF Type2Offset
    <3>4. read + plan.type2 <= AllocBound(fs, of)
      BY <2>1, <2>3, <2>5, <3>1, <3>2 DEF AllocBound
    <3> QED BY <3>1, <3>3, <3>4, <2>5 DEF LayoutAgrees
  <2>6. CASE plan.total # 1 /\ plan.type3 > 0
    <3>1. of - 1 = plan.type1 /\ of \in Nat /\ of > 0 /\ fs = Payload
      BY <2>1, <2>2, <2>6 DEF PlanType1PacketSize
    <3>2. /\ fs * (of - 1) = plan.type1 * Payload
          /\ fs * (of + 1) = (fs * (of - 1)) + fs + fs
      <4>1. fs * (of + 1) = (fs * of) + fs /\ fs * (of - 1) = (fs * of) - fs
        BY <2>1, <3>1, PredTimes
      <4> QED BY <4>1, <2>1, <3>1, PredTimes
    <3>3. Type2Offset(fs, of, plan.type3) = read
      BY <2>1, <2>3, <2>6, <3>2 DEF Type2Offset
    <3>4. Type3Offset(fs, of) = plan.type1 * Payload
      BY <3>2 DEF Type3Offset
    <3>5. read + plan.type2 <= AllocBound(fs, of)
      BY <2>1, <2>3, <2>6, <3>1, <3>2 DEF AllocBound
    <3> QED BY <2>6, <3>3, <3>4, <3>5 DEF LayoutAgrees
  <2> QED BY <2>1, <2>4, <2>5, <2>6
<1> QED BY <1>1, Invariance, PTL

\* A decode timestamp survives the trip as a difference, or is dropped whole.
THEOREM DtsCorrect == Spec => []DtsSurvives
<1>1. IInv => DtsSurvives
  BY WireAssumption
     DEF IInv, CallOK, DtsSurvives, DtsPtsDiff, DtsOf, DiffRefused
<1> QED BY <1>1, Invariance, PTL
------------------------------------------------------------------------------
(***************************************************************************)
(* NACKs.                                                                  *)
(***************************************************************************)
Full == buildNack(mReceivedFragments, mOfFragmentNo)

\* What is left of a NACK when m of its entries were read.
IsRest(full, m, rest, got) ==
    /\ IsSeq(rest) /\ Len(rest) = Len(full) - m
    /\ \A j \in 1..Len(rest) : rest[j] = full[m + j]
    /\ got = UNION {EntryFragments(full[j]) : j \in 1..m}

\* A NACK that is being read is what is left of the one that was built, and
\* the fragments asked for are those of the entries read.
NackInv ==
    /\ mOfFragmentNo \in 0..MaxOf
    /\ mReceivedFragments \subseteq 0..mOfFragmentNo
    /\ entries = None => asked = {}
    /\ entries # None => \E m \in 0..Len(Full) : IsRest(Full, m, entries, asked)

LEMMA FullOK ==
    ASSUME NackInv
    PROVE  /\ NackOK(mReceivedFragments, mOfFragmentNo, Full)
           /\ IsSeq(Full) /\ Len(Full) \in Nat
           /\ MaxRange \in Nat \ {0} /\ MaxEntries \in Nat \ {0}
<1>1. mOfFragmentNo \in Nat
  BY EncodingsAssumption DEF NackInv
<1>2. NackOK(mReceivedFragments, mOfFragmentNo, Full)
  BY <1>1, buildNackOK DEF Full
<1>3. IsSeq(Full) /\ Len(Full) \in Nat
  BY <1>2, LenIsNat DEF NackOK
<1> QED BY <1>2, <1>3, RangeAssumption

LEMMA InitNackInv == EncodingsInit => NackInv
<1> SUFFICES ASSUME EncodingsInit
             PROVE  NackInv
  OBVIOUS
<1>1. entries = None /\ asked = {}
  BY DEF EncodingsInit, NackInit
<1>2. /\ mOfFragmentNo \in 0..MaxOf
      /\ mReceivedFragments \subseteq 0..mOfFragmentNo
  BY EncodingsAssumption DEF EncodingsInit, NackInit
<1> QED BY <1>1, <1>2 DEF NackInv

LEMMA BuildInv ==
    ASSUME NackInv, Build
    PROVE  NackInv'
<1>1. /\ entries = None /\ entries' = Full
      /\ mReceivedFragments' = mReceivedFragments
      /\ mOfFragmentNo' = mOfFragmentNo /\ asked' = asked
  BY DEF Build, Full
<1>2. asked = {} /\ Full' = Full
  BY <1>1 DEF NackInv, Full
<1>3. IsSeq(Full) /\ Len(Full) \in Nat
  BY FullOK
<1>4. /\ 0 \in 0..Len(Full) /\ Len(Full) = Len(Full) - 0
      /\ \A j \in 1..Len(Full) : Full[j] = Full[0 + j]
      /\ {} = UNION {EntryFragments(Full[j]) : j \in 1..0}
  BY <1>3
<1>5. IsRest(Full, 0, Full, {})
  BY <1>3, <1>4 DEF IsRest
<1>6. \E m \in 0..Len(Full') : IsRest(Full', m, entries', asked')
  BY <1>1, <1>2, <1>4, <1>5
<1> QED BY <1>1, <1>2, <1>6 DEF NackInv

LEMMA ReadInv ==
    ASSUME NackInv, Read
    PROVE  NackInv'
<1>1. /\ entries # None /\ entries # <<>> /\ entries' = Tail(entries)
      /\ asked' = asked \cup EntryFragments(Head(entries))
      /\ mReceivedFragments' = mReceivedFragments
      /\ mOfFragmentNo' = mOfFragmentNo
  BY DEF Read
<1>2. Full' = Full
  BY <1>1 DEF Full
<1>3. PICK m \in 0..Len(Full) :
        /\ IsSeq(entries) /\ Len(entries) = Len(Full) - m
        /\ \A j \in 1..Len(entries) : entries[j] = Full[m + j]
        /\ asked = UNION {EntryFragments(Full[j]) : j \in 1..m}
  BY <1>1 DEF NackInv, IsRest
<1>4. /\ IsSeq(entries') /\ Head(entries) = entries[1] /\ Len(entries) >= 1
      /\ Len(entries') = Len(entries) - 1
      /\ \A i \in 1..(Len(entries) - 1) : entries'[i] = entries[i + 1]
  BY <1>1, <1>3, TailFacts
<1>5. NackOK(mReceivedFragments, mOfFragmentNo, Full) /\ Len(Full) \in Nat
  BY FullOK
<1>6. m \in Nat /\ m + 1 \in 0..Len(Full) /\ Len(entries') = Len(Full) - (m + 1)
  BY <1>3, <1>4, <1>5
<1>7. Head(entries) = Full[m + 1]
  BY <1>3, <1>4, <1>6
<1>8. ASSUME NEW j \in 1..Len(entries')
      PROVE  /\ entries'[j] = Full[(m + 1) + j]
             /\ (m + 1) + j \in 1..Len(Full)
  <2>1. /\ j + 1 \in 1..Len(entries) /\ j \in 1..(Len(entries) - 1)
        /\ m + (j + 1) = (m + 1) + j /\ (m + 1) + j \in 1..Len(Full)
    BY <1>3, <1>4, <1>5, <1>6
  <2> QED BY <1>3, <1>4, <2>1
<1>9. asked' = UNION {EntryFragments(Full[j]) : j \in 1..(m + 1)}
  <2>1. \A j : j \in 1..(m + 1) <=> j \in 1..m \/ j = m + 1
    BY <1>6
  <2> DEFINE all == UNION {EntryFragments(Full[j]) : j \in 1..(m + 1)}
             some == UNION {EntryFragments(Full[j]) : j \in 1..m}
             one == EntryFragments(Full[m + 1])
  <2>2. \A k : k \in all <=> \E j \in 1..(m + 1) : k \in EntryFragments(Full[j])
    OBVIOUS
  <2>3. \A k : k \in some <=> \E j \in 1..m : k \in EntryFragments(Full[j])
    OBVIOUS
  <2>4. asked' = some \cup one
    BY <1>1, <1>3, <1>7
  <2> HIDE DEF all, some
  <2>5. \A k : k \in all <=> k \in some \cup one
    BY <2>1, <2>2, <2>3
  <2> QED BY <2>4, <2>5 DEF all
<1>10. \E n \in 0..Len(Full') : IsRest(Full', n, entries', asked')
  <2>1. IsRest(Full, m + 1, entries', asked')
    BY <1>4, <1>6, <1>8, <1>9 DEF IsRest
  <2> QED BY <1>2, <1>6, <2>1
<1>11. entries' # None
  <2>1. SUFFICES ASSUME entries' = None
                 PROVE  FALSE
    OBVIOUS
  <2>2. Len(entries') = 1 /\ entries'[1].mFragmentNo = -1
    BY <2>1 DEF None
  <2>3. \E j \in 1..Len(Full) : entries'[1] = Full[j]
    BY <1>8, <2>2
  <2> QED BY <1>5, <2>2, <2>3 DEF NackOK
<1> QED BY <1>1, <1>10, <1>11 DEF NackInv

LEMMA NextNackInv ==
    ASSUME NackInv, [EncodingsNext]_allVars
    PROVE  NackInv'
<1>1. CASE Build
  BY <1>1, BuildInv
<1>2. CASE Read
  BY <1>2, ReadInv
<1>3. CASE Retry
  <2>1. entries' = None /\ asked' = {} /\ mOfFragmentNo' = mOfFragmentNo
    BY <1>3 DEF Retry
  <2>2. mReceivedFragments' \subseteq 0..mOfFragmentNo
    BY <1>3 DEF Retry, NackInv
  <2> QED BY <2>1, <2>2 DEF NackInv
<1>4. CASE UNCHANGED nackVars
  BY <1>4 DEF NackInv, Full, nackVars
<1> QED BY <1>1, <1>2, <1>3, <1>4
        DEF EncodingsNext, NackNext, CutNext, EmbeddedNext, allVars, nackVars

LEMMA NackInvIsExact ==
    ASSUME NackInv
    PROVE  NackIsExact
<1> DEFINE named == Named \cup asked
<1>1. CASE entries = None
  BY <1>1 DEF NackInv, NackIsExact, Named
<1>2. CASE entries # None
  <2>1. PICK m \in 0..Len(Full) :
          /\ IsSeq(entries) /\ Len(entries) = Len(Full) - m
          /\ \A j \in 1..Len(entries) : entries[j] = Full[m + j]
          /\ asked = UNION {EntryFragments(Full[j]) : j \in 1..m}
    BY <1>2 DEF NackInv, IsRest
  <2>2. /\ NackOK(mReceivedFragments, mOfFragmentNo, Full)
        /\ Len(Full) \in Nat /\ MaxRange \in Nat \ {0}
        /\ Len(entries) \in Nat /\ m \in Nat
    BY <2>1, FullOK
  <2>3. \A k : k \in asked <=> \E j \in 1..m : k \in EntryFragments(Full[j])
    BY <2>1
  <2>4. Named = NamedBy(entries)
    BY <1>2 DEF Named, NamedBy
  <2>5. \A k : k \in Named
                 <=> \E j \in 1..Len(entries) : k \in EntryFragments(entries[j])
    BY <2>4, NamedByMember
  <2>6. \A j \in 1..Len(entries) : m + j \in 1..Len(Full)
    BY <2>1, <2>2
  <2>7. \A k : k \in named <=> k \in NamedBy(Full)
    <3>1. ASSUME NEW k \in named
          PROVE  k \in NamedBy(Full)
      <4>1. \A j \in 1..m : j \in 1..Len(Full)
        BY <2>2
      <4> QED BY <2>1, <2>3, <2>5, <2>6, <3>1, <4>1, NamedByMember
    <3>2. ASSUME NEW k \in NamedBy(Full)
          PROVE  k \in named
      <4>1. PICK j \in 1..Len(Full) : k \in EntryFragments(Full[j])
        BY <3>2, NamedByMember
      <4>2. CASE j <= m
        <5>1. j \in 1..m
          BY <2>2, <4>2
        <5> QED BY <2>3, <4>1, <5>1
      <4>3. CASE j > m
        <5>1. j - m \in 1..Len(entries) /\ m + (j - m) = j
          BY <2>1, <2>2, <4>3
        <5>2. entries[j - m] = Full[j]
          BY <2>1, <5>1
        <5> QED BY <2>5, <4>1, <5>1, <5>2
      <4> QED BY <2>2, <4>2, <4>3
    <3> QED BY <3>1, <3>2
  <2>8. Missing = (0..mOfFragmentNo) \ mReceivedFragments
    BY DEF Missing
  <2>9. \A k \in named : k \in Missing
    BY <2>2, <2>7, <2>8 DEF NackOK
  <2>10. Named \cap asked = {}
    <3>1. SUFFICES ASSUME NEW k \in Named, k \in asked
                   PROVE  FALSE
      OBVIOUS
    <3>2. PICK i \in 1..m : k \in EntryFragments(Full[i])
      BY <2>3, <3>1
    <3>3. PICK j \in 1..Len(entries) : k \in EntryFragments(entries[j])
      BY <2>5
    <3>4. /\ i \in 1..Len(Full) /\ m + j \in 1..Len(Full) /\ i < m + j
          /\ entries[j] = Full[m + j]
      BY <2>1, <2>2, <2>6
    <3>5. /\ Full[i].mFragmentNo + Full[i].mFragmentCount
               < Full[m + j].mFragmentNo
          /\ Full[i].mFragmentNo \in Nat /\ Full[i].mFragmentCount \in Nat
          /\ Full[m + j].mFragmentNo \in Nat
          /\ Full[m + j].mFragmentCount \in Nat
      <4> DEFINE l == m + j
      <4>1. l \in 1..Len(Full) /\ i < l
        BY <3>4
      <4> HIDE DEF l
      <4>2. /\ Full[i].mFragmentNo + Full[i].mFragmentCount < Full[l].mFragmentNo
            /\ Full[i].mFragmentNo \in Nat /\ Full[l].mFragmentNo \in Nat
            /\ Full[i].mFragmentCount \in 0..(MaxRange - 1)
            /\ Full[l].mFragmentCount \in 0..(MaxRange - 1)
        BY <2>2, <3>4, <4>1 DEF NackOK
      <4> QED BY <2>2, <4>2 DEF l
    <3> QED BY <3>2, <3>3, <3>4, <3>5 DEF EntryFragments
  <2>11. \A i \in 1..Len(entries) :
           entries[i].mFragmentCount \in 0..(MaxRange - 1)
    BY <2>1, <2>2, <2>6 DEF NackOK
  <2>12. SumFunction([i \in 1..Len(entries) |-> entries[i].mFragmentCount + 1])
           = Cardinality(Named)
    <3>1. \A j \in 1..Len(entries) :
            /\ entries[j].mFragmentNo \in Nat
            /\ entries[j].mFragmentCount \in Nat
      BY <2>1, <2>2, <2>6 DEF NackOK
    <3>2. ASSUME NEW j \in 1..Len(entries), NEW k \in 1..Len(entries), j < k
          PROVE  entries[j].mFragmentNo + entries[j].mFragmentCount
                   < entries[k].mFragmentNo
      <4>1. /\ m + j \in 1..Len(Full) /\ m + k \in 1..Len(Full) /\ m + j < m + k
            /\ entries[j] = Full[m + j] /\ entries[k] = Full[m + k]
        BY <2>1, <2>2, <2>6, <3>2
      <4> QED BY <2>2, <4>1 DEF NackOK
    <3> QED BY <2>1, <2>4, <3>1, <3>2, RangesCount
  <2>13. \A k \in Missing \ named : \A n \in named : n < k
    BY <2>2, <2>7, <2>8 DEF NackOK
  <2>14. asked = {} /\ Len(entries) < MaxEntries => Named = Missing
    <3> SUFFICES ASSUME asked = {}, Len(entries) < MaxEntries
                 PROVE  Named = Missing
      OBVIOUS
    <3>1. m = 0
      <4>1. SUFFICES ASSUME m # 0
                     PROVE  FALSE
        OBVIOUS
      <4>2. 1 \in 1..m /\ 1 \in 1..Len(Full)
        BY <2>2, <4>1
      <4>3. Full[1].mFragmentNo \in Nat /\ Full[1].mFragmentCount \in Nat
        BY <2>2, <4>2 DEF NackOK
      <4>4. Full[1].mFragmentNo \in EntryFragments(Full[1])
        BY <4>3 DEF EntryFragments
      <4> QED BY <2>3, <4>2, <4>4
    <3>2. Len(Full) < MaxEntries
      BY <2>1, <2>2, <3>1
    <3>3. MaxEntries \in Nat
      BY RangeAssumption
    <3>4. \A k \in Missing : k \in NamedBy(Full)
      BY <2>2, <2>8, <3>2, <3>3 DEF NackOK
    <3> QED BY <2>7, <2>9, <3>4
  <2> QED BY <2>9, <2>10, <2>11, <2>12, <2>13, <2>14 DEF NackIsExact
<1> QED BY <1>1, <1>2

\* What buildNack makes of any pattern of received fragments names missing
\* fragments only, each once, lowest first, and all of them unless the NACK is
\* full, and receiveNack reads the same fragments back.
THEOREM NackCorrect == EncodingsSpec => []NackIsExact
<1>1. EncodingsInit => NackInv
  BY InitNackInv
<1>2. NackInv /\ [EncodingsNext]_allVars => NackInv'
  BY NextNackInv
<1>3. NackInv => NackIsExact
  BY NackInvIsExact
<1> QED BY <1>1, <1>2, <1>3, PTL DEF EncodingsSpec

\* The overflow check of receiveNack refuses no entry that buildNack makes.
THEOREM NoEntryLost == EncodingsSpec => []EveryEntryIsRead
<1>1. EncodingsInit => NackInv
  BY InitNackInv
<1>2. NackInv /\ [EncodingsNext]_allVars => NackInv'
  BY NextNackInv
<1>3. NackInv => EveryEntryIsRead
  <2> SUFFICES ASSUME NackInv, entries # None, NEW i \in 1..Len(entries)
               PROVE  ~EntryRefused(entries[i])
    BY DEF EveryEntryIsRead
  <2>1. PICK m \in 0..Len(Full) :
          /\ Len(entries) = Len(Full) - m
          /\ \A j \in 1..Len(entries) : entries[j] = Full[m + j]
    BY DEF NackInv, IsRest
  <2>2. NackOK(mReceivedFragments, mOfFragmentNo, Full) /\ Len(Full) \in Nat
    BY FullOK
  <2>3. m + i \in 1..Len(Full) /\ entries[i] = Full[m + i]
    BY <2>1, <2>2
  <2>4. /\ Full[m + i].mFragmentNo \in Nat /\ Full[m + i].mFragmentCount \in Int
        /\ Full[m + i].mFragmentNo + Full[m + i].mFragmentCount <= mOfFragmentNo
    BY <2>2, <2>3 DEF NackOK
  <2>5. mOfFragmentNo \in Nat /\ mOfFragmentNo <= MaxFragmentNo
        /\ MaxFragmentNo \in Nat
    BY EncodingsAssumption, RangeAssumption DEF NackInv
  <2> QED BY <2>3, <2>4, <2>5 DEF EntryRefused
<1> QED BY <1>1, <1>2, <1>3, PTL DEF EncodingsSpec

------------------------------------------------------------------------------
(***************************************************************************)
(* Embedded data.                                                          *)
(***************************************************************************)
ChunkTypes == 1..(EFP_EMBEDDED_LAST - 1)
ChunkContents == {d \in Seq(Octets) : Len(d) <= MaxChunkSize}
Chunks == [type : ChunkTypes, data : ChunkContents]

LEMMA BaseFacts ==
    /\ Base \in Nat /\ Base > 3
    /\ EFP_EMBEDDED_LAST \in Nat /\ EFP_EMBEDDED_LAST > 1
    /\ Base = EFP_EMBEDDED_LAST + EFP_EMBEDDED_LAST
    /\ MaxChunkSize \in Nat /\ MaxChunkSize >= 4 * Base - 1
    /\ MaxChunkSize + 1 = Base * Base
<1>1. Base \in Nat /\ Base > 3 /\ Base % 2 = 0
  BY EmbeddedAssumption
<1>2. Base = (2 * (Base \div 2)) + (Base % 2) /\ Base \div 2 \in Nat
  BY <1>1, DivMod
<1>3. Base * 4 <= Base * Base /\ Base * 4 \in Int /\ Base * Base \in Int
  BY <1>1, TimesMore
<1> QED BY <1>1, <1>2, <1>3 DEF EFP_EMBEDDED_LAST, MaxChunkSize

\* The size of a chunk is written with both of its octets.
LEMMA SizeOctets ==
    ASSUME NEW size \in 0..MaxChunkSize
    PROVE  /\ size % Base \in Octets /\ (size \div Base) % Base \in Octets
           /\ (size % Base) + (Base * ((size \div Base) % Base)) = size
<1> DEFINE q == size \div Base
           r == size % Base
<1>1. Base \in Nat \ {0} /\ size \in Nat /\ size < Base * Base
  BY BaseFacts
<1>2. q \in Nat /\ r \in 0..(Base - 1) /\ size = (Base * q) + r
  BY <1>1, DivMod
<1> HIDE DEF q, r
<1>3. q < Base
  <2>1. SUFFICES ASSUME q >= Base PROVE FALSE
    BY <1>1, <1>2
  <2>2. Base * Base <= Base * q /\ Base * Base \in Int /\ Base * q \in Int
    BY <1>1, <1>2, <2>1, TimesMore
  <2> QED BY <1>1, <1>2, <2>2
<1>4. q % Base = q
  <2>1. q \in 0..(Base - 1) /\ 0 \in Int
    BY <1>1, <1>2, <1>3
  <2>2. ((Base * 0) + q) % Base = q
    BY <1>1, <2>1, ModUnique
  <2>3. (Base * 0) + q = q
    BY <1>1, <1>2
  <2> QED BY <2>2, <2>3
<1>5. r + (Base * (q % Base)) = size
  <2>1. Base * q \in Int
    BY <1>1, <1>2, TimesMore
  <2> QED BY <1>2, <1>4, <2>1
<1>6. r \in Octets /\ q % Base \in Octets
  BY <1>1, <1>2, <1>3, <1>4 DEF Octets
<1> QED BY <1>5, <1>6 DEF q, r

\* The octet of the type says both.
LEMMA TypeOctetFacts ==
    ASSUME NEW type \in ChunkTypes, NEW last \in BOOLEAN
    PROVE  /\ TypeOctet(type, last) \in Octets
           /\ TypeOctet(type, last) # EFP_EMBEDDED_ILLEGAL
           /\ IsLast(TypeOctet(type, last)) <=> last
           /\ ActualType(TypeOctet(type, last)) = type
<1> DEFINE half == EFP_EMBEDDED_LAST
           o == TypeOctet(type, last)
<1>1. Base \in Nat /\ half \in Nat \ {0} /\ Base = half + half
  BY BaseFacts
<1>2. type \in 1..(half - 1)
  BY DEF ChunkTypes
<1>3. o = IF last THEN type + half ELSE type
  BY <1>1, <1>2 DEF TypeOctet
<1>4. IsLast(o) <=> o >= half
  BY DEF IsLast
<1>5. ActualType(o) = o % half
  BY DEF ActualType
<1> HIDE DEF half, o
<1>6. ((half * 0) + type) % half = type /\ ((half * 1) + type) % half = type
  BY <1>1, <1>2, ModUnique
<1>7. (half * 0) + type = type /\ (half * 1) + type = type + half
  BY <1>1, <1>2
<1>8. o % half = type
  BY <1>3, <1>6, <1>7
<1>9. o \in 1..(Base - 1)
  BY <1>1, <1>2, <1>3
<1>10. o >= half <=> last
  BY <1>1, <1>2, <1>3
<1> QED BY <1>1, <1>4, <1>5, <1>8, <1>9, <1>10
        DEF o, Octets, EFP_EMBEDDED_ILLEGAL

\* A frame that begins with the chunk, and goes on with rest.
IsChunked(f, chunk, last, rest) ==
    /\ f \in Seq(Octets)
    /\ Len(f) = HeaderSize + Len(chunk.data) + Len(rest)
    /\ f[1] = TypeOctet(chunk.type, last)
    /\ f[2] + (Base * f[3]) = Len(chunk.data)
    /\ \A i \in 1..Len(chunk.data) : f[HeaderSize + i] = chunk.data[i]
    /\ \A i \in 1..Len(rest) : f[HeaderSize + Len(chunk.data) + i] = rest[i]

\* What efp_add_embedded_data writes.
LEMMA AddIsChunked ==
    ASSUME NEW chunk \in Chunks, NEW rest \in Seq(Octets), NEW last \in BOOLEAN
    PROVE  IsChunked(efp_add_embedded_data(chunk.data, rest, chunk.type, last),
                     chunk, last, rest)
<1> DEFINE d == chunk.data
           size == Len(d)
           a == TypeOctet(chunk.type, last)
           b == size % Base
           c == (size \div Base) % Base
           h == <<a, b, c>>
           u == h \o d
           f == efp_add_embedded_data(d, rest, chunk.type, last)
<1>1. d \in Seq(Octets) /\ size \in 0..MaxChunkSize /\ chunk.type \in ChunkTypes
  BY LenProperties DEF Chunks, ChunkContents
<1>2. f = u \o rest
  BY DEF efp_add_embedded_data
<1>3. a \in Octets /\ b \in Octets /\ c \in Octets /\ b + (Base * c) = size
  BY <1>1, SizeOctets, TypeOctetFacts
<1> HIDE DEF f, a, b, c
<1>4. h \in Seq(Octets) /\ Len(h) = 3 /\ h[1] = a /\ h[2] = b /\ h[3] = c
  BY <1>3
<1> HIDE DEF h, size, d
<1>5. IsSeq(h) /\ IsSeq(d) /\ IsSeq(rest) /\ size \in Nat /\ Len(rest) \in Nat
  BY <1>1, <1>4, SeqIsSeq, LenProperties
<1>6. /\ IsSeq(u) /\ Len(u) = Len(h) + Len(d)
      /\ \A i \in 1..Len(h) : u[i] = h[i]
      /\ \A i \in 1..Len(d) : u[Len(h) + i] = d[i]
  BY <1>5, ConcatFacts
<1>7. u \in Seq(Octets) /\ f \in Seq(Octets)
  BY <1>1, <1>2, <1>4, ConcatProperties
<1>8. Len(d) = size
  BY DEF size
<1> HIDE DEF u
<1>9. /\ Len(f) = Len(u) + Len(rest)
      /\ \A i \in 1..Len(u) : f[i] = u[i]
      /\ \A i \in 1..Len(rest) : f[Len(u) + i] = rest[i]
  <2>1. /\ Len(u \o rest) = Len(u) + Len(rest)
        /\ \A i \in 1..Len(u) : (u \o rest)[i] = u[i]
        /\ \A i \in 1..Len(rest) : (u \o rest)[Len(u) + i] = rest[i]
    <3>1. IsSeq(u) /\ IsSeq(rest)
      BY <1>5, <1>6
    <3> QED BY ONLY <3>1, ConcatFacts
  <2> QED BY <1>2, <2>1
<1>10. Len(u) = 3 + size /\ Len(f) = 3 + size + Len(rest)
  BY <1>4, <1>5, <1>6, <1>8, <1>9
<1>11. f[1] = a /\ f[2] = b /\ f[3] = c
  <2>1. \A i \in 1..3 : f[i] = h[i]
    BY <1>4, <1>5, <1>6, <1>9, <1>10
  <2> QED BY <1>4, <2>1
<1>12. ASSUME NEW i \in 1..Len(d)
       PROVE  f[3 + i] = d[i]
  <2>1. 3 + i \in 1..Len(u)
    BY <1>5, <1>8, <1>10
  <2> QED BY <1>4, <1>6, <1>9, <2>1
<1>13. \A i \in 1..Len(rest) : f[3 + size + i] = rest[i]
  BY <1>9, <1>10
<1>14. IsChunked(f, chunk, last, rest)
  BY <1>3, <1>7, <1>8, <1>10, <1>11, <1>12, <1>13 DEF IsChunked, HeaderSize, d, a
<1> QED BY <1>14 DEF f, d

------------------------------------------------------------------------------
(***************************************************************************)
(* Reading chunks back.                                                    *)
(***************************************************************************)

\* The octets of a frame from an offset on are those of s.
Suffix(f, o, s) ==
    /\ o \in Nat /\ Len(f) = o + Len(s)
    /\ \A i \in 1..Len(s) : f[o + i] = s[i]

LEMMA SuffixDropped ==
    ASSUME NEW f, NEW s, IsSeq(f), IsSeq(s), NEW o, Suffix(f, o, s)
    PROVE  SubSeq(f, o + 1, Len(f)) = s
<1>1. Len(f) \in Nat /\ Len(s) \in Nat
  BY LenIsNat
<1>2. o \in 0..Len(f) /\ Len(f) - o = Len(s)
  BY <1>1 DEF Suffix
<1>3. /\ IsSeq(SubSeq(f, o + 1, Len(f)))
      /\ Len(SubSeq(f, o + 1, Len(f))) = Len(s)
      /\ \A i \in 1..Len(s) : SubSeq(f, o + 1, Len(f))[i] = f[o + i]
  BY <1>2, DropFacts
<1>4. \A i \in 1..Len(s) : f[o + i] = s[i]
  BY DEF Suffix
<1> QED BY <1>3, <1>4, SameSeq

\* The chunk at an offset, and where it ends.
LEMMA ChunkRead ==
    ASSUME NEW f \in Seq(Octets), NEW o, NEW s, NEW chunk \in Chunks,
           NEW rest \in Seq(Octets), NEW last \in BOOLEAN,
           IsChunked(s, chunk, last, rest), Suffix(f, o, s)
    PROVE  /\ HeaderFits(f, o) /\ f[o + 1] # EFP_EMBEDDED_ILLEGAL
           /\ ChunkEnd(f, o) = o + HeaderSize + Len(chunk.data)
           /\ ChunkEnd(f, o) <= Len(f)
           /\ Chunk(f, o) = chunk
           /\ IsLast(f[o + 1]) <=> last
           /\ Suffix(f, ChunkEnd(f, o), rest)
<1> DEFINE n == Len(chunk.data)
           m == Len(rest)
<1>1. /\ n \in Nat /\ m \in Nat /\ chunk.type \in ChunkTypes
      /\ chunk.data \in Seq(Octets)
      /\ chunk = [type |-> chunk.type, data |-> chunk.data]
  BY LenProperties DEF Chunks, ChunkContents
<1>2. /\ Len(s) = 3 + n + m
      /\ s[1] = TypeOctet(chunk.type, last)
      /\ s[2] + (Base * s[3]) = n
      /\ \A i \in 1..n : s[3 + i] = chunk.data[i]
      /\ \A i \in 1..m : s[3 + n + i] = rest[i]
  BY DEF IsChunked, HeaderSize
<1>3. o \in Nat /\ Len(f) = o + Len(s) /\ \A i \in 1..Len(s) : f[o + i] = s[i]
  BY DEF Suffix
<1> HIDE DEF n, m
<1>4. f[o + 1] = s[1] /\ f[o + 2] = s[2] /\ f[o + 3] = s[3]
  <2>1. 1 \in 1..Len(s) /\ 2 \in 1..Len(s) /\ 3 \in 1..Len(s)
    BY <1>1, <1>2
  <2> QED BY <1>3, <2>1
<1>5. EmbSize(f, o) = n
  BY <1>2, <1>4 DEF EmbSize
<1>12. n \in Nat /\ m \in Nat /\ o \in Nat /\ Len(s) = 3 + n + m
  BY <1>1, <1>2, <1>3
<1>6. ChunkEnd(f, o) = o + 3 + n
  BY <1>5 DEF ChunkEnd, HeaderSize
<1>7. HeaderFits(f, o) /\ o + 3 + n <= Len(f) /\ Len(f) = o + 3 + n + m
  BY <1>1, <1>2, <1>3 DEF HeaderFits, HeaderSize
<1>8. /\ f[o + 1] # EFP_EMBEDDED_ILLEGAL /\ (IsLast(f[o + 1]) <=> last)
      /\ ActualType(f[o + 1]) = chunk.type
  BY <1>1, <1>2, <1>4, TypeOctetFacts
<1>9. SubSeq(f, o + 3 + 1, o + 3 + n) = chunk.data
  <2> DEFINE t == SubSeq(f, o + 3 + 1, o + 3 + n)
  <2>1. Len(f) \in Nat /\ \A i \in (o + 3 + 1)..(o + 3 + n) : f[i] \in Octets
    <3>1. Len(f) \in Nat /\ \A i \in 1..Len(f) : f[i] \in Octets
      BY LenProperties
    <3>2. \A i \in (o + 3 + 1)..(o + 3 + n) : i \in 1..Len(f)
      BY <1>1, <1>3, <1>7, <3>1
    <3> QED BY <3>1, <3>2
  <2>2. o + 3 + 1 \in Int /\ o + 3 + n \in Int
    BY <1>1, <1>3
  <2>3. /\ t \in Seq(Octets)
        /\ Len(t) = IF o + 3 + 1 <= o + 3 + n THEN (o + 3 + n) - (o + 3 + 1) + 1
                    ELSE 0
        /\ \A i \in 1..((o + 3 + n) - (o + 3 + 1) + 1) :
             t[i] = f[(o + 3 + 1) + i - 1]
    BY <2>1, <2>2, SubSeqProperties
  <2> HIDE DEF t
  <2>4. Len(t) = n
    BY <1>1, <1>3, <2>3
  <2>5. ASSUME NEW i \in 1..n
        PROVE  t[i] = chunk.data[i]
    <3>1. /\ i \in 1..((o + 3 + n) - (o + 3 + 1) + 1)
          /\ (o + 3 + 1) + i - 1 = o + (3 + i) /\ 3 + i \in 1..Len(s)
      BY <1>12
    <3> QED BY <1>2, <1>3, <2>3, <3>1
  <2>6. IsSeq(t) /\ IsSeq(chunk.data) /\ Len(chunk.data) = n
    BY <1>1, <2>3, SeqIsSeq DEF n
  <2>7. t = chunk.data
    BY <2>4, <2>5, <2>6, SameSeq
  <2> QED BY <2>7 DEF t
<1>10. Chunk(f, o) = chunk
  BY <1>1, <1>6, <1>8, <1>9 DEF Chunk, HeaderSize
<1>11. Suffix(f, o + 3 + n, rest)
  <2>1. o + 3 + n \in Nat
    BY <1>1, <1>3
  <2>2. ASSUME NEW i \in 1..m
        PROVE  f[o + 3 + n + i] = rest[i]
    <3>1. 3 + n + i \in 1..Len(s) /\ o + 3 + n + i = o + (3 + n + i)
      BY <1>12
    <3> QED BY <1>2, <1>3, <3>1
  <2> QED BY <1>7, <2>1, <2>2 DEF Suffix, m
<1> QED BY <1>6, <1>7, <1>8, <1>10, <1>11 DEF HeaderSize, n

LEMMA ChunkEndGrows ==
    ASSUME NEW f \in Seq(Octets), NEW o \in Nat, HeaderFits(f, o)
    PROVE  ChunkEnd(f, o) \in Nat /\ ChunkEnd(f, o) >= o + 3
<1>1. Base \in Nat /\ Len(f) \in Nat /\ \A i \in 1..Len(f) : f[i] \in Octets
  BY BaseFacts, LenProperties
<1>2. o + 2 \in 1..Len(f) /\ o + 3 \in 1..Len(f)
  BY <1>1 DEF HeaderFits, HeaderSize
<1>3. f[o + 2] \in Nat /\ f[o + 3] \in Nat
  BY <1>1, <1>2 DEF Octets
<1> DEFINE b == f[o + 3]
<1>4. Base * 0 <= Base * b /\ Base * b \in Int /\ Base * 0 = 0
  BY <1>1, <1>3, TimesMore
<1>5. Base * b \in Nat
  BY <1>4
<1> QED BY <1>3, <1>5 DEF ChunkEnd, EmbSize, HeaderSize

\* One turn of the loop, with the turns that come after it.
ParseAt(f, offset, parse) ==
    IF ~HeaderFits(f, offset) \/ f[offset + 1] = EFP_EMBEDDED_ILLEGAL
    THEN [calls |-> <<>>, payloadOffset |-> 0]
    ELSE LET next == ChunkEnd(f, offset)
             once == IF next <= Len(f) THEN <<Chunk(f, offset)>> ELSE <<>>
             rest == IF IsLast(f[offset + 1])
                     THEN [calls |-> <<>>, payloadOffset |-> next]
                     ELSE parse[next]
         IN  [rest EXCEPT !.calls = once \o @]

IsParse(f, parse) == parse = [offset \in Nat |-> ParseAt(f, offset, parse)]

LEMMA ParseAtAgrees ==
    ASSUME NEW f, NEW o, NEW g, NEW h,
           HeaderFits(f, o) => g[ChunkEnd(f, o)] = h[ChunkEnd(f, o)]
    PROVE  ParseAt(f, o, g) = ParseAt(f, o, h)
  BY DEF ParseAt

\* The loop ends: each chunk is behind the one before it.
LEMMA ParseExists ==
    ASSUME NEW f \in Seq(Octets)
    PROVE  \E parse : IsParse(f, parse)
<1> DEFINE D(n) == {o \in Nat : o + n >= Len(f)}
           Good == {n \in Nat : \E g : g = [o \in D(n) |-> ParseAt(f, o, g)]}
<1>0. Len(f) \in Nat
  BY LenProperties
<1>1. 0 \in Good
  <2> DEFINE g == [o \in D(0) |-> [calls |-> <<>>, payloadOffset |-> 0]]
  <2>1. ASSUME NEW o \in D(0)
        PROVE  ParseAt(f, o, g) = [calls |-> <<>>, payloadOffset |-> 0]
    <3>1. ~HeaderFits(f, o)
      BY <1>0 DEF HeaderFits, HeaderSize
    <3> QED BY <3>1 DEF ParseAt
  <2>2. g = [o \in D(0) |-> ParseAt(f, o, g)]
    BY <2>1
  <2> QED BY <2>2
<1>2. ASSUME NEW n \in Nat, n \in Good
      PROVE  n + 1 \in Good
  <2>1. PICK g : g = [o \in D(n) |-> ParseAt(f, o, g)]
    BY <1>2
  <2> DEFINE h == [o \in D(n + 1) |-> IF o \in D(n) THEN g[o]
                                        ELSE ParseAt(f, o, g)]
  <2>2. \A o \in D(n) : o \in D(n + 1)
    BY <1>0
  <2>3. ASSUME NEW o \in D(n + 1)
        PROVE  h[o] = ParseAt(f, o, h)
    <3>1. ASSUME HeaderFits(f, o)
          PROVE  g[ChunkEnd(f, o)] = h[ChunkEnd(f, o)]
      <4>1. ChunkEnd(f, o) \in Nat /\ ChunkEnd(f, o) >= o + 3
        BY <3>1, ChunkEndGrows
      <4>2. ChunkEnd(f, o) \in D(n)
        BY <1>0, <4>1
      <4> HIDE DEF D
      <4> QED BY <2>2, <4>2
    <3>2. ParseAt(f, o, g) = ParseAt(f, o, h)
      <4> HIDE DEF h
      <4> QED BY <3>1, ParseAtAgrees
    <3>3. h[o] = ParseAt(f, o, g)
      <4>1. CASE o \in D(n)
        <5> HIDE DEF D
        <5> QED BY <2>1, <4>1
      <4>2. CASE o \notin D(n)
        <5> HIDE DEF D
        <5> QED BY <4>2
      <4> QED BY <4>1, <4>2
    <3> QED BY <3>2, <3>3
  <2>4. h = [o \in D(n + 1) |-> h[o]]
    OBVIOUS
  <2> HIDE DEF h
  <2>5. h = [o \in D(n + 1) |-> ParseAt(f, o, h)]
    <3> HIDE DEF D
    <3> QED BY <2>3, <2>4
  <2> HIDE DEF D
  <2> QED BY <2>5
<1> HIDE DEF Good
<1>3. Len(f) \in Good
  <2>1. \A n \in Nat : n \in Good
    BY <1>1, <1>2, NatStepByStep
  <2> QED BY <1>0, <2>1
<1>4. PICK g : g = [o \in D(Len(f)) |-> ParseAt(f, o, g)]
  BY <1>3 DEF Good
<1>5. D(Len(f)) = Nat
  BY <1>0
<1> HIDE DEF D
<1>6. IsParse(f, g)
  BY <1>4, <1>5 DEF IsParse
<1> QED BY <1>6

LEMMA ParseChunksIs ==
    ASSUME NEW f \in Seq(Octets)
    PROVE  \E parse : IsParse(f, parse) /\ ParseChunks(f) = parse[0]
<1> DEFINE p == CHOOSE parse : IsParse(f, parse)
<1>1. IsParse(f, p)
  BY ParseExists
<1>2. ParseChunks(f) = p[0]
  BY DEF ParseChunks, IsParse, ParseAt
<1> QED BY <1>1, <1>2

\* What the loop returns from the last chunk, and from another one.
ReadsLast(p, o, chunk, next) ==
    p[o] = [calls |-> <<chunk>> \o <<>>, payloadOffset |-> next]

ReadsOne(p, o, chunk, next) ==
    \A r, e : p[next] = [calls |-> r, payloadOffset |-> e]
       => p[o] = [calls |-> <<chunk>> \o r, payloadOffset |-> e]

\* What a turn of the loop adds to the turns after it.
LEMMA ParseTurn ==
    ASSUME NEW f \in Seq(Octets), NEW o, NEW s, NEW chunk \in Chunks,
           NEW rest \in Seq(Octets), NEW last \in BOOLEAN,
           IsChunked(s, chunk, last, rest), Suffix(f, o, s),
           NEW p, IsParse(f, p)
    PROVE  \E next \in Nat :
             /\ Suffix(f, next, rest)
             /\ last => ReadsLast(p, o, chunk, next)
             /\ ~last => ReadsOne(p, o, chunk, next)
<1>1. o \in Nat
  BY DEF Suffix
<1>2. p[o] = ParseAt(f, o, p)
  <2> DEFINE q == [offset \in Nat |-> ParseAt(f, offset, p)]
  <2>1. q[o] = ParseAt(f, o, p)
    BY <1>1
  <2>2. p = q
    BY DEF IsParse
  <2> QED BY <2>1, <2>2
<1>8. /\ HeaderFits(f, o) /\ f[o + 1] # EFP_EMBEDDED_ILLEGAL
      /\ ChunkEnd(f, o) = o + HeaderSize + Len(chunk.data)
      /\ ChunkEnd(f, o) <= Len(f)
      /\ Chunk(f, o) = chunk
      /\ IsLast(f[o + 1]) <=> last
      /\ Suffix(f, ChunkEnd(f, o), rest)
  BY ChunkRead
<1> DEFINE next == ChunkEnd(f, o)
<1>3. /\ HeaderFits(f, o) /\ f[o + 1] # EFP_EMBEDDED_ILLEGAL
      /\ next <= Len(f) /\ Chunk(f, o) = chunk
      /\ IsLast(f[o + 1]) <=> last
      /\ Suffix(f, next, rest)
  BY <1>8
<1>4. next \in Nat
  BY <1>1, <1>3, ChunkEndGrows
<1> HIDE DEF next
<1>5. ParseAt(f, o, p) =
        [(IF IsLast(f[o + 1]) THEN [calls |-> <<>>, payloadOffset |-> next]
          ELSE p[next]) EXCEPT !.calls = <<chunk>> \o @]
  BY <1>3 DEF ParseAt, next
<1>6. ASSUME last
      PROVE  p[o] = [calls |-> <<chunk>> \o <<>>, payloadOffset |-> next]
  BY <1>2, <1>3, <1>5, <1>6
<1>7. ASSUME ~last,
             NEW r, NEW e, p[next] = [calls |-> r, payloadOffset |-> e]
      PROVE  p[o] = [calls |-> <<chunk>> \o r, payloadOffset |-> e]
  <2>1. p[o] = [p[next] EXCEPT !.calls = <<chunk>> \o @]
    BY <1>2, <1>3, <1>5, <1>7
  <2>2. p[o] = [[calls |-> r, payloadOffset |-> e] EXCEPT !.calls = <<chunk>> \o @]
    BY <1>7, <2>1
  <2> QED BY <2>2
<1> QED BY <1>3, <1>4, <1>6, <1>7 DEF ReadsLast, ReadsOne

LEMMA LastTurn ==
    ASSUME NEW f \in Seq(Octets), NEW o, NEW s, NEW chunk \in Chunks,
           NEW rest \in Seq(Octets),
           IsChunked(s, chunk, TRUE, rest), Suffix(f, o, s),
           NEW p, IsParse(f, p)
    PROVE  \E next \in Nat :
             Suffix(f, next, rest) /\ ReadsLast(p, o, chunk, next)
<1>1. \E next \in Nat :
        /\ Suffix(f, next, rest)
        /\ TRUE => ReadsLast(p, o, chunk, next)
        /\ ~TRUE => ReadsOne(p, o, chunk, next)
  BY ParseTurn
<1> QED BY <1>1

LEMMA InnerTurn ==
    ASSUME NEW f \in Seq(Octets), NEW o, NEW s, NEW chunk \in Chunks,
           NEW rest \in Seq(Octets),
           IsChunked(s, chunk, FALSE, rest), Suffix(f, o, s),
           NEW p, IsParse(f, p)
    PROVE  \E next \in Nat :
             Suffix(f, next, rest) /\ ReadsOne(p, o, chunk, next)
<1>1. \E next \in Nat :
        /\ Suffix(f, next, rest)
        /\ FALSE => ReadsLast(p, o, chunk, next)
        /\ ~FALSE => ReadsOne(p, o, chunk, next)
  BY ParseTurn
<1> QED BY <1>1

LEMMA DropOne ==
    ASSUME NEW s, IsSeq(s), NEW n \in 0..(Len(s) - 1)
    PROVE  <<s[n + 1]>> \o SubSeq(s, (n + 1) + 1, Len(s))
             = SubSeq(s, n + 1, Len(s))
<1> DEFINE one == <<s[n + 1]>>
           t == SubSeq(s, (n + 1) + 1, Len(s))
           u == SubSeq(s, n + 1, Len(s))
<1>1. Len(s) \in Nat
  BY LenIsNat
<1>2. n \in 0..Len(s) /\ n + 1 \in 0..Len(s)
  BY <1>1
<1>3. /\ IsSeq(t) /\ Len(t) = Len(s) - (n + 1)
      /\ \A i \in 1..(Len(s) - (n + 1)) : t[i] = s[(n + 1) + i]
  BY <1>2, DropFacts
<1>4. /\ IsSeq(u) /\ Len(u) = Len(s) - n
      /\ \A i \in 1..(Len(s) - n) : u[i] = s[n + i]
  BY <1>2, DropFacts
<1>5. IsSeq(one) /\ Len(one) = 1 /\ one[1] = s[n + 1]
  <2>1. one \in Seq({s[n + 1]})
    OBVIOUS
  <2> QED BY <2>1, SeqIsSeq
<1> HIDE DEF one, t, u
<1>6. /\ IsSeq(one \o t) /\ Len(one \o t) = Len(one) + Len(t)
      /\ \A i \in 1..Len(one) : (one \o t)[i] = one[i]
      /\ \A i \in 1..Len(t) : (one \o t)[Len(one) + i] = t[i]
  <2>1. IsSeq(one) /\ IsSeq(t)
    BY <1>3, <1>5
  <2> QED BY ONLY <2>1, ConcatFacts
<1>7. Len(one \o t) = Len(u)
  BY <1>1, <1>3, <1>4, <1>5, <1>6
<1>8. ASSUME NEW i \in 1..Len(u)
      PROVE  (one \o t)[i] = u[i]
  <2>0. i \in 1..(Len(s) - n)
    BY <1>1, <1>4
  <2>1. CASE i = 1
    BY <1>4, <1>5, <1>6, <2>0, <2>1
  <2>2. CASE i # 1
    <3>1. i - 1 \in 1..(Len(s) - (n + 1)) /\ 1 + (i - 1) = i
          /\ (n + 1) + (i - 1) = n + i
      BY <1>1, <2>0, <2>2
    <3>2. (one \o t)[1 + (i - 1)] = t[i - 1] /\ t[i - 1] = s[(n + 1) + (i - 1)]
      BY <1>3, <1>5, <1>6, <3>1
    <3> QED BY <1>4, <2>0, <3>1, <3>2
  <2> QED BY <2>1, <2>2
<1>9. one \o t = u
  BY <1>4, <1>6, <1>7, <1>8, SameSeq
<1> QED BY <1>9 DEF one, t, u

LEMMA NothingDropped ==
    ASSUME NEW s, IsSeq(s)
    PROVE  SubSeq(s, Len(s) + 1, Len(s)) = <<>> /\ SubSeq(s, 1, Len(s)) = s
<1>1. Len(s) \in Nat /\ Len(s) \in 0..Len(s) /\ 0 \in 0..Len(s)
  BY LenIsNat
<1>2. /\ IsSeq(SubSeq(s, Len(s) + 1, Len(s)))
      /\ Len(SubSeq(s, Len(s) + 1, Len(s))) = Len(s) - Len(s)
  BY <1>1, DropFacts
<1>3. SubSeq(s, Len(s) + 1, Len(s)) = <<>>
  <2>1. Len(SubSeq(s, Len(s) + 1, Len(s))) = 0
    BY <1>1, <1>2
  <2>2. \A i \in 1..0 : SubSeq(s, Len(s) + 1, Len(s))[i] = <<>>[i]
    OBVIOUS
  <2> QED BY <1>2, <2>1, <2>2, EmptyIsSeq, SameSeq
<1>4. SubSeq(s, 1, Len(s)) = s
  <2>1. /\ IsSeq(SubSeq(s, 1, Len(s))) /\ Len(SubSeq(s, 1, Len(s))) = Len(s)
        /\ \A i \in 1..Len(s) : SubSeq(s, 1, Len(s))[i] = s[i]
    BY <1>1, PrefixFacts
  <2> QED BY <2>1, SameSeq
<1> QED BY <1>3, <1>4

\* The frames an application has after each chunk it added, the last one first:
\* every one is a chunk in front of the next, the innermost is the payload.
Layers(h, chunks, inner, f) ==
    /\ \A k \in 1..(Len(chunks) + 1) : h[k] \in Seq(Octets)
    /\ h[1] = f /\ h[Len(chunks) + 1] = inner
    /\ \A k \in 1..Len(chunks) :
         IsChunked(h[k], chunks[k], k = Len(chunks), h[k + 1])

\* The loop reads the chunks one by one, wherever in the frame it finds them.
LEMMA LayersAreParsed ==
    ASSUME NEW f \in Seq(Octets), NEW chunks \in Seq(Chunks), chunks # <<>>,
           NEW inner \in Seq(Octets), NEW h, Layers(h, chunks, inner, f),
           NEW p, IsParse(f, p)
    PROVE  /\ p[0].calls = chunks
           /\ Suffix(f, p[0].payloadOffset, inner)
<1> DEFINE n == Len(chunks)
           Left(d) == SubSeq(chunks, d + 1, n)
           ReadFrom(d) == \A o : Suffix(f, o, h[d + 1]) =>
                        \E e \in Nat :
                          /\ p[o] = [calls |-> Left(d), payloadOffset |-> e]
                          /\ Suffix(f, e, inner)
           Good == {j \in Nat : j < n => ReadFrom(n - 1 - j)}
<1>1. IsSeq(chunks) /\ n \in Nat /\ n # 0 /\ \A k \in 1..n : chunks[k] \in Chunks
  <2>1. IsSeq(chunks) /\ n \in Nat /\ \A k \in 1..n : chunks[k] \in Chunks
    BY SeqIsSeq, LenProperties
  <2>2. n # 0
    BY EmptySeq
  <2> QED BY <2>1, <2>2
<1>2. /\ \A k \in 1..(n + 1) : h[k] \in Seq(Octets)
      /\ h[1] = f /\ h[n + 1] = inner
      /\ \A k \in 1..n : IsChunked(h[k], chunks[k], k = n, h[k + 1])
  BY DEF Layers
<1> HIDE DEF n
<1>3. ASSUME NEW d \in 0..(n - 1), d + 1 = n, NEW o, Suffix(f, o, h[d + 1])
      PROVE  \E next \in Nat : /\ Suffix(f, next, h[(d + 1) + 1])
                               /\ ReadsLast(p, o, chunks[d + 1], next)
  <2> DEFINE k == d + 1
  <2>1. k \in 1..n /\ k + 1 \in 1..(n + 1)
    BY <1>1
  <2>2. /\ chunks[k] \in Chunks /\ h[k + 1] \in Seq(Octets)
        /\ IsChunked(h[k], chunks[k], k = n, h[k + 1])
    BY <1>1, <1>2, <2>1
  <2>3. (k = n) = TRUE
    BY <1>1, <1>3
  <2>4. IsChunked(h[k], chunks[k], TRUE, h[k + 1])
    BY <2>2, <2>3
  <2>5. Suffix(f, o, h[k])
    BY <1>3
  <2> HIDE DEF k
  <2>6. \E next \in Nat : /\ Suffix(f, next, h[k + 1])
                          /\ ReadsLast(p, o, chunks[k], next)
    BY <2>2, <2>4, <2>5, LastTurn
  <2> QED BY <2>6 DEF k
<1>13. ASSUME NEW d \in 0..(n - 1), d + 1 # n, NEW o, Suffix(f, o, h[d + 1])
      PROVE  \E next \in Nat : /\ Suffix(f, next, h[(d + 1) + 1])
                               /\ ReadsOne(p, o, chunks[d + 1], next)
  <2> DEFINE k == d + 1
  <2>1. k \in 1..n /\ k + 1 \in 1..(n + 1)
    BY <1>1
  <2>2. /\ chunks[k] \in Chunks /\ h[k + 1] \in Seq(Octets)
        /\ IsChunked(h[k], chunks[k], k = n, h[k + 1])
    BY <1>1, <1>2, <2>1
  <2>3. (k = n) = FALSE
    BY <1>1, <1>13
  <2>4. IsChunked(h[k], chunks[k], FALSE, h[k + 1])
    BY <2>2, <2>3
  <2>5. Suffix(f, o, h[k])
    BY <1>13
  <2> HIDE DEF k
  <2>6. \E next \in Nat : /\ Suffix(f, next, h[k + 1])
                          /\ ReadsOne(p, o, chunks[k], next)
    BY <2>2, <2>4, <2>5, InnerTurn
  <2> QED BY <2>6 DEF k
<1>4. ASSUME NEW d \in 0..(n - 1)
      PROVE  <<chunks[d + 1]>> \o Left(d + 1) = Left(d)
  <2>1. d \in 0..(Len(chunks) - 1)
    BY <1>4 DEF n
  <2> QED BY <1>1, <2>1, DropOne DEF n
<1>5. Left(n) = <<>> /\ Left(0) = chunks
  <2>1. SubSeq(chunks, 1, n) = chunks /\ SubSeq(chunks, n + 1, n) = <<>>
    BY <1>1, NothingDropped DEF n
  <2>2. 0 + 1 = 1
    OBVIOUS
  <2> QED BY <2>1, <2>2
<1> HIDE DEF Left
<1>6. 0 \in Good
  <2>1. n - 1 \in 0..(n - 1) /\ (n - 1) + 1 = n /\ n - 1 - 0 = n - 1
    BY <1>1
  <2>2. ReadFrom(n - 1)
    <3>1. SUFFICES ASSUME NEW o, Suffix(f, o, h[(n - 1) + 1])
                   PROVE  \E e \in Nat :
                            /\ p[o] = [calls |-> Left(n - 1),
                                       payloadOffset |-> e]
                            /\ Suffix(f, e, inner)
      OBVIOUS
    <3>2. PICK next \in Nat :
               /\ Suffix(f, next, h[((n - 1) + 1) + 1])
               /\ ReadsLast(p, o, chunks[(n - 1) + 1], next)
      BY <1>3, <2>1, <3>1
    <3>3. <<chunks[(n - 1) + 1]>> \o <<>> = Left(n - 1)
      BY <1>4, <1>5, <2>1
    <3> QED BY <1>2, <2>1, <3>2, <3>3 DEF ReadsLast
  <2> QED BY <2>1, <2>2
<1>7. ASSUME NEW j \in Nat, j \in Good
      PROVE  j + 1 \in Good
  <2>1. SUFFICES ASSUME j + 1 < n
                 PROVE  ReadFrom(n - 1 - (j + 1))
    OBVIOUS
  <2> DEFINE d == n - 1 - (j + 1)
  <2>2. d \in 0..(n - 1) /\ d + 1 \in 0..(n - 1) /\ n - 1 - j = d + 1
        /\ d + 1 # n
    BY <1>1, <2>1
  <2>3. ReadFrom(d + 1)
    <3>1. ReadFrom(n - 1 - j)
      BY <1>1, <1>7, <2>1
    <3> HIDE DEF ReadFrom, d
    <3> QED BY <2>2, <3>1
  <2> HIDE DEF d
  <2>4. ASSUME NEW o, Suffix(f, o, h[d + 1])
        PROVE  \E e \in Nat :
                 /\ p[o] = [calls |-> Left(d), payloadOffset |-> e]
                 /\ Suffix(f, e, inner)
    <3>1. PICK next \in Nat :
             /\ Suffix(f, next, h[(d + 1) + 1])
             /\ ReadsOne(p, o, chunks[d + 1], next)
      BY <1>13, <2>2, <2>4
    <3>2. PICK e \in Nat :
             /\ p[next] = [calls |-> Left(d + 1), payloadOffset |-> e]
             /\ Suffix(f, e, inner)
      BY <2>3, <3>1
    <3>3. p[o] = [calls |-> <<chunks[d + 1]>> \o Left(d + 1),
                  payloadOffset |-> e]
      BY <3>1, <3>2 DEF ReadsOne
    <3> QED BY <1>4, <2>2, <3>2, <3>3
  <2>5. ReadFrom(d)
    BY <2>4
  <2> QED BY <2>5 DEF d
<1>8. n - 1 \in Good
  <2> HIDE DEF Good
  <2>1. \A j \in Nat : j \in Good
    BY <1>6, <1>7, NatStepByStep
  <2> QED BY <1>1, <2>1
<1>9. ReadFrom(0)
  <2>1. n - 1 < n /\ n - 1 - (n - 1) = 0
    BY <1>1
  <2>2. ReadFrom(n - 1 - (n - 1))
    BY <1>8, <2>1
  <2> HIDE DEF ReadFrom
  <2> QED BY <2>1, <2>2
<1>10. Suffix(f, 0, f)
  BY LenProperties DEF Suffix
<1>11. Suffix(f, 0, h[0 + 1])
  <2>1. 0 + 1 = 1
    OBVIOUS
  <2> QED BY <1>2, <1>10, <2>1
<1>12. PICK e \in Nat : /\ p[0] = [calls |-> Left(0), payloadOffset |-> e]
                       /\ Suffix(f, e, inner)
  BY <1>9, <1>11
<1> QED BY <1>5, <1>12

\* What efp_extract_embedded_data returns, and what is left of the frame.
LEMMA FirstChunkRead ==
    ASSUME NEW f, NEW chunk \in Chunks, NEW rest \in Seq(Octets),
           NEW last \in BOOLEAN, IsChunked(f, chunk, last, rest)
    PROVE  /\ efp_extract_embedded_data(f) =
                [result |-> "EFP_OK", type |-> chunk.type, data |-> chunk.data,
                 payloadOffset |-> HeaderSize + Len(chunk.data)]
           /\ SubSeq(f, HeaderSize + Len(chunk.data) + 1, Len(f)) = rest
<1>1. f \in Seq(Octets) /\ Len(chunk.data) \in Nat
  BY LenProperties DEF IsChunked, Chunks, ChunkContents
<1>2. Suffix(f, 0, f)
  BY <1>1, LenProperties DEF Suffix
<1>3. /\ HeaderFits(f, 0) /\ f[0 + 1] # EFP_EMBEDDED_ILLEGAL
      /\ ChunkEnd(f, 0) = 0 + HeaderSize + Len(chunk.data)
      /\ ChunkEnd(f, 0) <= Len(f)
      /\ Chunk(f, 0) = chunk
      /\ IsLast(f[0 + 1]) <=> last
      /\ Suffix(f, ChunkEnd(f, 0), rest)
  BY <1>1, <1>2, ChunkRead
<1>4. ChunkEnd(f, 0) = HeaderSize + Len(chunk.data) /\ f[1] # EFP_EMBEDDED_ILLEGAL
  BY <1>1, <1>3 DEF HeaderSize
<1>5. SubSeq(f, HeaderSize + Len(chunk.data) + 1, Len(f)) = rest
  <2>1. IsSeq(f) /\ IsSeq(rest)
    BY <1>1, SeqIsSeq
  <2>2. Suffix(f, HeaderSize + Len(chunk.data), rest)
    BY <1>3, <1>4
  <2> QED BY <2>1, <2>2, SuffixDropped
<1>6. /\ ~(ChunkEnd(f, 0) > Len(f))
      /\ ChunkEnd(f, 0) \in Int /\ Len(f) \in Int
  BY <1>1, <1>3, <1>4, LenProperties DEF HeaderSize
<1> HIDE DEF HeaderSize
<1>7. efp_extract_embedded_data(f) =
        [result |-> "EFP_OK", type |-> Chunk(f, 0).type,
         data |-> Chunk(f, 0).data, payloadOffset |-> ChunkEnd(f, 0)]
  BY <1>3, <1>4, <1>6 DEF efp_extract_embedded_data
<1> QED BY <1>3, <1>4, <1>5, <1>7

\* The frame is the payload under the chunks added.
EmbeddedInv ==
    /\ payload \in Seq(Octets) /\ added \in Seq(Chunks)
    /\ \E h : Layers(h, added, payload, frame)

LEMMA EmbeddedStarts ==
    ASSUME EmbeddedInit
    PROVE  EmbeddedInv
<1>1. payload \in Seq(Octets)
  <2>1. ASSUME NEW n \in 0..MaxPayload, payload \in [1..n -> Octets]
        PROVE  payload \in Seq(Octets)
    <3>1. n \in Nat
      BY EncodingsAssumption
    <3> QED BY <2>1, <3>1, SeqDef
  <2>2. payload = <<>> \/ \E n \in 0..MaxPayload : payload \in [1..n -> Octets]
    BY DEF EmbeddedInit
  <2>3. <<>> \in Seq(Octets)
    BY EmptySeq
  <2> QED BY <2>1, <2>2, <2>3
<1>2. added \in Seq(Chunks) /\ Len(added) = 0 /\ frame = payload
  BY DEF EmbeddedInit
<1> DEFINE h == [k \in 1..1 |-> payload]
<1>3. Layers(h, added, payload, frame)
  BY <1>1, <1>2 DEF Layers
<1> QED BY <1>1, <1>2, <1>3 DEF EmbeddedInv

LEMMA ContentsAreChunks ==
    ASSUME NEW type \in 1..(EFP_EMBEDDED_LAST - 1), NEW data \in ChunkData
    PROVE  [type |-> type, data |-> data] \in Chunks
<1>1. /\ Base \in Nat /\ Base > 3 /\ EFP_EMBEDDED_LAST \in 0..(Base - 1)
      /\ MaxChunkSize \in Nat /\ MaxChunkSize >= Base + 1
  BY BaseFacts
<1>2. 0 \in Octets /\ 1 \in Octets /\ Base - 1 \in Octets
      /\ EFP_EMBEDDED_LAST \in Octets
  BY <1>1 DEF Octets
<1>3. ASSUME NEW n \in 0..MaxChunkSize, NEW x \in Octets
      PROVE  [i \in 1..n |-> x] \in ChunkContents
  <2> DEFINE s == [i \in 1..n |-> x]
  <2>1. n \in Nat
    BY <1>1
  <2>2. s \in [1..n -> Octets]
    OBVIOUS
  <2>3. s \in Seq(Octets) /\ DOMAIN s = 1..n
    BY <2>1, <2>2, SeqDef
  <2>4. Len(s) = n
    <3>1. DOMAIN s = 1..Len(s) /\ Len(s) \in Nat
      BY <2>3, LenProperties
    <3> HIDE DEF s
    <3> QED BY <2>1, <2>3, <3>1
  <2> QED BY <1>1, <2>3, <2>4 DEF ChunkContents
<1>8. Base + 1 \in 0..MaxChunkSize /\ MaxChunkSize \in 0..MaxChunkSize
  BY <1>1
<1>4. [i \in 1..(Base + 1) |-> 1] \in ChunkContents
  BY <1>2, <1>3, <1>8
<1>5. [i \in 1..MaxChunkSize |-> Base - 1] \in ChunkContents
  BY <1>2, <1>3, <1>8
<1>6. <<>> \in ChunkContents /\ <<0>> \in ChunkContents
      /\ <<EFP_EMBEDDED_LAST, 0, 0>> \in ChunkContents
  BY <1>1, <1>2 DEF ChunkContents
<1>7. data \in ChunkContents
  BY <1>4, <1>5, <1>6 DEF ChunkData
<1> QED BY <1>7 DEF Chunks, ChunkTypes

LEMMA SameLast ==
    ASSUME NEW f, NEW chunk, NEW rest, NEW last \in BOOLEAN,
           NEW other \in BOOLEAN, IsChunked(f, chunk, last, rest),
           last <=> other
    PROVE  IsChunked(f, chunk, other, rest)
<1>1. last = other
  OBVIOUS
<1> QED BY <1>1

\* A chunk in front of a frame is one layer more.
LEMMA AddKeepsInv ==
    ASSUME NEW type \in 1..(EFP_EMBEDDED_LAST - 1), NEW data \in ChunkData,
           Add(type, data), EmbeddedInv
    PROVE  EmbeddedInv'
<1> DEFINE chunk == [type |-> type, data |-> data]
           n == Len(added)
<1>1. chunk \in Chunks
  BY ContentsAreChunks
<1>2. payload \in Seq(Octets) /\ added \in Seq(Chunks) /\ n \in Nat
  BY LenProperties DEF EmbeddedInv
<1>3. PICK h : Layers(h, added, payload, frame)
  BY DEF EmbeddedInv
<1>4. /\ \A k \in 1..(n + 1) : h[k] \in Seq(Octets)
      /\ h[1] = frame /\ h[n + 1] = payload
      /\ \A k \in 1..n : IsChunked(h[k], added[k], k = n, h[k + 1])
  BY <1>3 DEF Layers
<1>5. /\ added' = <<chunk>> \o added /\ payload' = payload
      /\ frame' = efp_add_embedded_data(data, frame, type, added = <<>>)
  BY DEF Add
<1>6. /\ added' \in Seq(Chunks) /\ Len(added') = n + 1 /\ added'[1] = chunk
      /\ \A k \in 1..n : added'[k + 1] = added[k]
  <2>1. <<chunk>> \in Seq(Chunks) /\ Len(<<chunk>>) = 1 /\ <<chunk>>[1] = chunk
    BY <1>1
  <2> DEFINE one == <<chunk>>
  <2> HIDE DEF one
  <2>2. one \in Seq(Chunks) /\ Len(one) = 1 /\ one[1] = chunk
        /\ added' = one \o added
    BY <1>5, <2>1 DEF one
  <2> HIDE DEF chunk
  <2>3. added' \in Seq(Chunks)
    BY <1>2, <2>2, ConcatProperties
  <2>4. IsSeq(one) /\ IsSeq(added)
    BY <1>2, <2>2, SeqIsSeq
  <2>5. /\ Len(one \o added) = Len(one) + Len(added)
        /\ \A i \in 1..Len(one) : (one \o added)[i] = one[i]
        /\ \A i \in 1..Len(added) : (one \o added)[Len(one) + i] = added[i]
    BY ONLY <2>4, ConcatFacts
  <2>6. \A k \in 1..n : k + 1 = 1 + k
    OBVIOUS
  <2> QED BY <1>2, <2>2, <2>3, <2>5, <2>6
<1>7. IsChunked(frame', chunk, n + 1 = 1, frame)
  <2>1. frame \in Seq(Octets) /\ (added = <<>>) \in BOOLEAN
        /\ (n + 1 = 1) \in BOOLEAN
    BY <1>2, <1>4
  <2>2. IsChunked(efp_add_embedded_data(chunk.data, frame, chunk.type,
                                        added = <<>>),
                  chunk, added = <<>>, frame)
    <3> HIDE DEF chunk
    <3> QED BY <1>1, <2>1, AddIsChunked
  <2>3. IsChunked(frame', chunk, added = <<>>, frame)
    BY <1>5, <2>2
  <2>4. added = <<>> <=> n + 1 = 1
    BY <1>2, EmptySeq
  <2> QED BY <2>1, <2>3, <2>4, SameLast
<1> DEFINE g == [k \in 1..(n + 2) |-> IF k = 1 THEN frame' ELSE h[k - 1]]
<1> HIDE DEF chunk, n
<1>8. /\ g[1] = frame'
      /\ \A k \in 1..(n + 1) : g[k + 1] = h[k]
  BY <1>2
<1> HIDE DEF g
<1>9. \A k \in 1..(Len(added') + 1) : g[k] \in Seq(Octets)
  <2>1. SUFFICES ASSUME NEW k \in 1..((n + 1) + 1)
                 PROVE  g[k] \in Seq(Octets)
    BY <1>6
  <2>2. CASE k = 1
    BY <1>7, <1>8, <2>2 DEF IsChunked
  <2>3. CASE k # 1
    <3>1. k - 1 \in 1..(n + 1) /\ (k - 1) + 1 = k
      BY <1>2, <2>3
    <3> QED BY <1>4, <1>8, <3>1
  <2> QED BY <2>2, <2>3
<1>10. g[Len(added') + 1] = payload
  BY <1>2, <1>4, <1>6, <1>8
<1>11. ASSUME NEW k \in 1..Len(added')
       PROVE  IsChunked(g[k], added'[k], k = Len(added'), g[k + 1])
  <2>0. k \in 1..(n + 1) /\ Len(added') = n + 1
    BY <1>6
  <2>1. CASE k = 1
    <3>1. g[k] = frame' /\ added'[k] = chunk /\ g[k + 1] = frame
      BY <1>2, <1>4, <1>6, <1>8, <2>1
    <3>2. (n + 1 = 1) \in BOOLEAN /\ (k = Len(added')) \in BOOLEAN
          /\ ((n + 1 = 1) <=> (k = Len(added')))
      BY <1>2, <2>0, <2>1
    <3>3. IsChunked(frame', chunk, k = Len(added'), frame)
      BY <1>7, <3>2, SameLast
    <3> QED BY <3>1, <3>3
  <2>2. CASE k # 1
    <3> DEFINE j == k - 1
    <3>1. j \in 1..n /\ j + 1 = k
      BY <1>2, <2>0, <2>2
    <3>2. g[k] = h[j] /\ added'[k] = added[j] /\ g[k + 1] = h[j + 1]
      <4>1. j \in 1..(n + 1) /\ j + 1 \in 1..(n + 1)
        BY <1>2, <3>1
      <4> QED BY <1>6, <1>8, <3>1, <4>1
    <3>3. (j = n) \in BOOLEAN /\ (k = Len(added')) \in BOOLEAN
          /\ ((j = n) <=> (k = Len(added')))
      BY <1>2, <2>0, <3>1
    <3> HIDE DEF j
    <3>4. IsChunked(h[j], added[j], j = n, h[j + 1])
      BY <1>4, <3>1
    <3>5. IsChunked(h[j], added[j], k = Len(added'), h[j + 1])
      BY <3>3, <3>4, SameLast
    <3> QED BY <3>2, <3>5
  <2> QED BY <2>1, <2>2
<1>12. Layers(g, added', payload', frame')
  BY <1>5, <1>8, <1>9, <1>10, <1>11 DEF Layers
<1> QED BY <1>2, <1>5, <1>6, <1>12 DEF EmbeddedInv

\* The first chunk is taken off: one layer less.
LEMMA ExtractKeepsInv ==
    ASSUME Extract, EmbeddedInv
    PROVE  EmbeddedInv'
<1> DEFINE n == Len(added)
<1>1. payload \in Seq(Octets) /\ added \in Seq(Chunks) /\ added # <<>>
      /\ IsSeq(added)
  BY SeqIsSeq DEF EmbeddedInv, Extract
<1>2. n \in Nat /\ n >= 1
  BY <1>1, TailFacts, LenIsNat
<1>3. PICK h : Layers(h, added, payload, frame)
  BY DEF EmbeddedInv
<1>4. /\ \A k \in 1..(n + 1) : h[k] \in Seq(Octets)
      /\ h[1] = frame /\ h[n + 1] = payload
      /\ \A k \in 1..n : IsChunked(h[k], added[k], k = n, h[k + 1])
  BY <1>3 DEF Layers
<1>5. /\ added' = Tail(added) /\ payload' = payload
      /\ frame' = SubSeq(frame,
                         efp_extract_embedded_data(frame).payloadOffset + 1,
                         Len(frame))
  BY DEF Extract
<1>6. /\ added' \in Seq(Chunks) /\ Len(added') = n - 1
      /\ \A k \in 1..(n - 1) : added'[k] = added[k + 1]
  <2>1. Tail(added) \in Seq(Chunks)
    BY <1>1, HeadTailProperties
  <2> QED BY <1>1, <1>5, <2>1, TailFacts
<1> HIDE DEF n
<1>7. frame' = h[2]
  <2>1. 1 \in 1..n /\ 1 + 1 = 2 /\ 2 \in 1..(n + 1)
    BY <1>2
  <2>2. added[1] \in Chunks /\ h[2] \in Seq(Octets) /\ (1 = n) \in BOOLEAN
    BY <1>1, <1>4, <2>1, LenProperties DEF n
  <2>3. IsChunked(frame, added[1], 1 = n, h[2])
    BY <1>4, <2>1
  <2>4. /\ efp_extract_embedded_data(frame) =
             [result |-> "EFP_OK", type |-> added[1].type,
              data |-> added[1].data,
              payloadOffset |-> HeaderSize + Len(added[1].data)]
        /\ SubSeq(frame, HeaderSize + Len(added[1].data) + 1, Len(frame)) = h[2]
    BY <2>2, <2>3, FirstChunkRead
  <2>5. efp_extract_embedded_data(frame).payloadOffset
          = HeaderSize + Len(added[1].data)
    BY <2>4
  <2> QED BY <1>5, <2>4, <2>5
<1> DEFINE g == [k \in 1..n |-> h[k + 1]]
<1>8. \A k \in 1..n : g[k] = h[k + 1]
  OBVIOUS
<1> HIDE DEF g
<1>9. ASSUME NEW k \in 1..Len(added')
      PROVE  IsChunked(g[k], added'[k], k = Len(added'), g[k + 1])
  <2> DEFINE j == k + 1
  <2>1. k \in 1..(n - 1) /\ k \in 1..n /\ j \in 1..n
    BY <1>2, <1>6
  <2>2. g[k] = h[j] /\ added'[k] = added[j] /\ g[k + 1] = h[j + 1]
    BY <1>6, <1>8, <2>1
  <2>3. (j = n) \in BOOLEAN /\ (k = Len(added')) \in BOOLEAN
        /\ ((j = n) <=> (k = Len(added')))
    BY <1>2, <1>6, <2>1
  <2> HIDE DEF j
  <2>4. IsChunked(h[j], added[j], j = n, h[j + 1])
    BY <1>4, <2>1
  <2>5. IsChunked(h[j], added[j], k = Len(added'), h[j + 1])
    BY <2>3, <2>4, SameLast
  <2> QED BY <2>2, <2>5
<1>10. \A k \in 1..(Len(added') + 1) : g[k] \in Seq(Octets)
  <2>1. SUFFICES ASSUME NEW k \in 1..n
                 PROVE  g[k] \in Seq(Octets)
    BY <1>2, <1>6
  <2>2. k + 1 \in 1..(n + 1)
    BY <1>2
  <2> QED BY <1>4, <1>8, <2>2
<1>11. g[1] = frame' /\ g[Len(added') + 1] = payload'
  <2>1. 1 \in 1..n /\ n \in 1..n /\ Len(added') + 1 = n /\ 1 + 1 = 2
    BY <1>2, <1>6
  <2> QED BY <1>4, <1>5, <1>7, <1>8, <2>1
<1>12. Layers(g, added', payload', frame')
  BY <1>9, <1>10, <1>11 DEF Layers
<1> QED BY <1>1, <1>5, <1>6, <1>12 DEF EmbeddedInv

LEMMA InvGivesRoundTrip ==
    ASSUME EmbeddedInv
    PROVE  EmbeddedRoundTrip
<1>1. SUFFICES ASSUME added # <<>>
               PROVE  /\ ReceiveCallback(frame, TRUE, TRUE, FALSE).calls = added
                      /\ SubSeq(frame,
                                ReceiveCallback(frame, TRUE, TRUE, FALSE)
                                  .payloadOffset + 1, Len(frame)) = payload
                      /\ efp_extract_embedded_data(frame) =
                           [result |-> "EFP_OK", type |-> Head(added).type,
                            data |-> Head(added).data,
                            payloadOffset |->
                              HeaderSize + Len(Head(added).data)]
  BY DEF EmbeddedRoundTrip
<1>2. payload \in Seq(Octets) /\ added \in Seq(Chunks)
  BY DEF EmbeddedInv
<1>3. PICK h : Layers(h, added, payload, frame)
  BY DEF EmbeddedInv
<1> DEFINE n == Len(added)
<1>4. IsSeq(added) /\ n \in Nat /\ n >= 1 /\ Head(added) = added[1]
  BY <1>1, <1>2, SeqIsSeq, LenIsNat, TailFacts
<1>5. 1 \in 1..(n + 1) /\ 1 + 1 \in 1..(n + 1) /\ 1 \in 1..n
  BY <1>4
<1>6. /\ frame \in Seq(Octets) /\ h[1 + 1] \in Seq(Octets)
      /\ added[1] \in Chunks
      /\ IsChunked(frame, added[1], 1 = n, h[1 + 1])
  <2>1. h[1] = frame /\ h[1] \in Seq(Octets) /\ h[1 + 1] \in Seq(Octets)
        /\ IsChunked(h[1], added[1], 1 = n, h[1 + 1])
    BY <1>3, <1>5 DEF Layers
  <2> QED BY <1>2, <1>5, <2>1, LenProperties
<1>7. PICK p : IsParse(frame, p) /\ ParseChunks(frame) = p[0]
  BY <1>6, ParseChunksIs
<1>8. p[0].calls = added /\ Suffix(frame, p[0].payloadOffset, payload)
  BY <1>1, <1>2, <1>3, <1>6, <1>7, LayersAreParsed
<1>9. SubSeq(frame, p[0].payloadOffset + 1, Len(frame)) = payload
  <2>1. IsSeq(frame) /\ IsSeq(payload)
    BY <1>2, <1>6, SeqIsSeq
  <2> QED BY <1>8, <2>1, SuffixDropped
<1>10. ReceiveCallback(frame, TRUE, TRUE, FALSE) = p[0]
  BY <1>7 DEF ReceiveCallback
<1>11. efp_extract_embedded_data(frame) =
         [result |-> "EFP_OK", type |-> added[1].type,
          data |-> added[1].data,
          payloadOffset |-> HeaderSize + Len(added[1].data)]
  <2>1. (1 = n) \in BOOLEAN
    OBVIOUS
  <2> HIDE DEF n
  <2> QED BY <1>6, <2>1, FirstChunkRead
<1> QED BY <1>4, <1>8, <1>9, <1>10, <1>11

\* EmbeddedRoundTrip: whatever chunks an application puts in front of whatever
\* payload, and however many it takes off again, ReceiveCallbackWrapper calls
\* the embedded callback with each of them in order and the main callback with
\* exactly the payload, and efp_extract_embedded_data agrees on the first one.
THEOREM EmbeddedCorrect == EncodingsSpec => []EmbeddedRoundTrip
<1>1. EncodingsInit => EmbeddedInv
  BY EmbeddedStarts DEF EncodingsInit
<1>2. EmbeddedInv /\ [EncodingsNext]_allVars => EmbeddedInv'
  <2>1. SUFFICES ASSUME EmbeddedInv, [EncodingsNext]_allVars
                 PROVE  EmbeddedInv'
    OBVIOUS
  <2>2. CASE UNCHANGED embeddedVars
    BY <2>1, <2>2 DEF EmbeddedInv, embeddedVars
  <2>3. CASE EmbeddedNext
    BY <2>1, <2>3, AddKeepsInv, ExtractKeepsInv DEF EmbeddedNext
  <2>4. CASE CutNext \/ NackNext
    BY <2>2, <2>4 DEF CutNext, NackNext
  <2>5. CASE UNCHANGED allVars
    BY <2>2, <2>5 DEF allVars
  <2> QED BY <2>1, <2>3, <2>4, <2>5 DEF EncodingsNext
<1>3. EmbeddedInv => EmbeddedRoundTrip
  BY InvGivesRoundTrip
<1> QED BY <1>1, <1>2, <1>3, PTL DEF EncodingsSpec
==============================================================================
