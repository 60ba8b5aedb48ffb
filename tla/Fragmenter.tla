------------------------------ MODULE Fragmenter ------------------------------
(***************************************************************************)
(* One Sender up to the moment its first packet leaves: the constructor    *)
(* fixes MTU and sub-fragment mode, and every call of send computes a      *)
(* verdict and, when it accepts, the cut of the SuperFrame.  What the      *)
(* receiver does with that cut is computed with the placement operators of *)
(* EfpWire, so that the properties speak about both ends of the link.      *)
(***************************************************************************)
EXTENDS EfpWire

CONSTANTS Mtus,        \* MTUs passed to the constructor (uint16_t)
          Sizes,       \* sizes of the data passed to send
          Stamps       \* presentation and decode timestamps (uint64_t)

ASSUME FragmenterAssumption ==
    /\ Mtus \subseteq Nat
    /\ Sizes \subseteq Nat
    /\ Stamps \subseteq 0..UINT64_MAX

VARIABLES
    mMtu,              \* Sender::mMtu
    mSubFragmentMode,  \* Sender::mSubFragmentMode
    call               \* the call of send in progress: arguments, verdict, cut

vars == <<mMtu, mSubFragmentMode, call>>

NoCall == [size |-> 0, pts |-> 0, dts |-> 0, diff |-> 0, verdict |-> "NONE",
           plan |-> [type1 |-> 0, type3 |-> 0, type2 |-> 0, total |-> 0]]

NoPlan == NoCall.plan

\* The Sender constructor.
Init ==
    /\ mMtu \in {EffectiveMtu(m) : m \in Mtus}
    /\ mSubFragmentMode \in SubFragmentMode
    /\ call = NoCall

\* Sender::send up to its first packet.
Send(aSize, aPts, aDts) ==
    LET verdict == SendVerdict(aSize, mMtu, mSubFragmentMode)
    IN  /\ call = NoCall
        /\ call' = [size |-> aSize, pts |-> aPts, dts |-> aDts,
                    diff |-> DtsPtsDiff(aPts, aDts),
                    verdict |-> verdict,
                    plan |-> IF verdict = "OK"
                               THEN SendPlan(aSize, mMtu, mSubFragmentMode)
                               ELSE NoPlan]
        /\ UNCHANGED <<mMtu, mSubFragmentMode>>

\* The call returns; mMutex keeps calls apart.
Return ==
    /\ call # NoCall
    /\ call' = NoCall
    /\ UNCHANGED <<mMtu, mSubFragmentMode>>

Next ==
    \/ \E aSize \in Sizes, aPts, aDts \in Stamps : Send(aSize, aPts, aDts)
    \/ Return

Spec == Init /\ [][Next]_vars

------------------------------------------------------------------------------
\* The constructor never leaves an MTU that has no room for a Type2 header, and
\* neither MTU nor mode changes its range afterwards.
TypeOK ==
    /\ mMtu \in Nat /\ mMtu >= MinMtu
    /\ mSubFragmentMode \in SubFragmentMode
    /\ call.verdict \in {"NONE", "OK", "INVALID_PARAMETER", "TOO_LARGE_FRAME"}

Accepted == call.verdict = "OK"
Payload == Type1PayloadSize(mMtu, mSubFragmentMode)
OfFragmentNo == call.plan.total - 1

\* The cut of an accepted SuperFrame loses and repeats no byte: the Type1
\* payloads, the Type3 and the Type2 add up to the size, no fragment is empty,
\* each respects its own limit, and the fragment count on the wire is the
\* number of fragments (sendFragmented's four branches).
SplitIsExact ==
    Accepted =>
      LET plan == call.plan
      IN  /\ (plan.type1 * Payload) + plan.type3 + plan.type2 = call.size
          /\ plan.type1 >= 0
          /\ plan.type2 \in 1..Type2PayloadSize(mMtu)
          /\ plan.type3 >= 0
          /\ plan.type3 > 0 => plan.type3 <= Payload
          /\ plan.total = plan.type1 + (IF plan.type3 > 0 THEN 1 ELSE 0) + 1
          /\ plan.total <= MAX_FRAGMENTS_PER_SUPERFRAME

\* No packet handed to the send callback exceeds the MTU, the limit the
\* comment in sendFragmentedBundled claims for a full Type4 bundle included.
PacketsFitMtu ==
    Accepted =>
      LET plan == call.plan
          full == FrameType1Size + Payload
      IN  /\ FrameType2Size + plan.type2 <= mMtu
          /\ plan.type3 > 0 => FrameType1Size + plan.type3 <= mMtu
          /\ plan.type1 > 0 =>
               IF mSubFragmentMode = SINGLE
                 THEN full = mMtu
                 ELSE FrameType4Size + (mSubFragmentMode * full) <= mMtu

\* Sender and receiver agree on the layout: the offsets at which handleType1,
\* handleType3 and handleType2 store the fragments are the offsets at which
\* the sender read them, and the final write stays inside the allocation that
\* a first Type1 or Type3 makes.
LayoutAgrees ==
    Accepted =>
      LET plan == call.plan
          of   == OfFragmentNo
          fs   == PlanType1PacketSize(plan, Payload)
          read == call.size - plan.type2   \* sender's lDataOffset at the Type2
      IN  /\ Type2Offset(fs, of, plan.type3) = read
          /\ plan.type3 > 0 => Type3Offset(fs, of) = plan.type1 * Payload
          /\ plan.type3 = 0 => plan.type1 = of
          /\ of > 0 => read + plan.type2 <= AllocBound(fs, of)

\* The receiver accepts the timestamps of every accepted frame and hands out
\* the sender's DTS, or none when the difference cannot be expressed.
DtsSurvives ==
    Accepted =>
      /\ ~DiffRefused(call.pts, call.diff)
      /\ DtsOf(call.pts, call.diff) \in {call.dts, UINT64_MAX}
      /\ (call.dts <= call.pts /\ call.pts < call.dts + UINT32_MAX
            /\ call.pts # UINT64_MAX)
           => DtsOf(call.pts, call.diff) = call.dts
==============================================================================
