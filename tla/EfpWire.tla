------------------------------- MODULE EfpWire -------------------------------
(***************************************************************************)
(* The arithmetic that the two ends of an EFP link must agree on: how      *)
(* Sender::send cuts a SuperFrame into Type1, Type3 and Type2 fragments    *)
(* (efp.h), where the receiver's handlers place them, and how a decode     *)
(* timestamp travels as a difference to the presentation timestamp.        *)
(*                                                                         *)
(* Header sizes and limits are CONSTANTS: the code's values are 8, 27, 2,  *)
(* 256, 100 MiB and 8192; the composed models use small ones.              *)
(***************************************************************************)
EXTENDS Integers

CONSTANTS
    FrameType1Size,                \* sizeof(FrameType1) = sizeof(FrameType3)
    FrameType2Size,                \* sizeof(FrameType2)
    FrameType4Size,                \* sizeof(FrameType4)
    MinMtu,                        \* smallest MTU the Sender works with
    MAX_SUPERFRAME_SIZE,
    MAX_FRAGMENTS_PER_SUPERFRAME,
    UINT32_MAX,                    \* "no DTS" in FrameType2.mDtsPtsDiff
    UINT64_MAX                     \* "no timestamp" in mPts and mDts

ASSUME WireAssumption ==
    /\ FrameType1Size \in Nat \ {0}
    /\ FrameType2Size \in Nat
    /\ FrameType4Size \in Nat \ {0}
    /\ FrameType1Size < FrameType2Size
    /\ MinMtu \in Nat /\ FrameType2Size < MinMtu
    /\ MAX_SUPERFRAME_SIZE \in Nat
    /\ MAX_FRAGMENTS_PER_SUPERFRAME \in Nat \ {0}
    /\ UINT32_MAX \in Nat /\ UINT64_MAX \in Nat
    /\ UINT32_MAX < UINT64_MAX

\* SubFragmentMode: how many Type1 fragments share one network packet.
SubFragmentMode == {1, 2, 4, 8}
SINGLE == 1

\* Slip: the constructor trusts its argument.
EffectiveMtuUnchecked(aMtu) == aMtu

\* The constructor raises a small MTU.
EffectiveMtu(aMtu) == IF aMtu < MinMtu THEN MinMtu ELSE aMtu

------------------------------------------------------------------------------
(***************************************************************************)
(* Cutting a SuperFrame.                                                   *)
(***************************************************************************)

\* Slip: the Type4 header is forgotten.
Type1FrameSizeNoHeader(mtu, mode) ==
    IF mode = SINGLE THEN mtu ELSE mtu \div mode

\* Bytes of one Type1 frame, header included.
Type1FrameSize(mtu, mode) ==
    IF mode = SINGLE THEN mtu ELSE (mtu - FrameType4Size) \div mode

Type1PayloadSize(mtu, mode) == Type1FrameSize(mtu, mode) - FrameType1Size
Type2PayloadSize(mtu) == mtu - FrameType2Size

\* Slip: a last chunk too long for a Type2 gets no Type3.
SplitPlanNoType3(aSize, p, cap) ==
    LET rem == IF aSize % p = 0 THEN p ELSE aSize % p
        num == (aSize - rem) \div p
    IN  [type1 |-> num, type3 |-> 0, type2 |-> rem, total |-> num + 1]

\* sendFragmented: p is the Type1 payload size, cap the Type2 payload limit.
\* The plan is the number of Type1 fragments and the Type3 (0: none) and Type2
\* payload sizes.
SplitPlan(aSize, p, cap) ==
    LET rem == aSize % p
        num == aSize \div p
    IN  IF rem = 0
          THEN IF p <= cap
                 THEN [type1 |-> num - 1, type3 |-> 0, type2 |-> p,
                       total |-> num]
                 ELSE [type1 |-> num - 1, type3 |-> p - cap, type2 |-> cap,
                       total |-> num + 1]
          ELSE IF rem <= cap
                 THEN [type1 |-> num, type3 |-> 0, type2 |-> rem,
                       total |-> num + 1]
                 ELSE [type1 |-> num, type3 |-> rem - cap, type2 |-> cap,
                       total |-> num + 2]

\* send: what a call does with aSize bytes, before any packet leaves.
SendVerdict(aSize, mtu, mode) ==
    LET p   == Type1PayloadSize(mtu, mode)
        cap == Type2PayloadSize(mtu)
    IN  IF aSize = 0 THEN "INVALID_PARAMETER"
        ELSE IF aSize > MAX_SUPERFRAME_SIZE THEN "TOO_LARGE_FRAME"
        ELSE IF p <= 0 THEN "INVALID_PARAMETER"
        ELSE IF aSize <= cap THEN "OK"
        ELSE IF SplitPlan(aSize, p, cap).total > MAX_FRAGMENTS_PER_SUPERFRAME
               THEN "TOO_LARGE_FRAME"
        ELSE "OK"

\* The plan of an accepted send; a small frame is a lone Type2 (sendType2Only).
SendPlan(aSize, mtu, mode) ==
    LET cap == Type2PayloadSize(mtu)
    IN  IF aSize <= cap
          THEN [type1 |-> 0, type3 |-> 0, type2 |-> aSize, total |-> 1]
          ELSE SplitPlan(aSize, Type1PayloadSize(mtu, mode), cap)

\* FrameType2.mType1PacketSize: 0 in a lone Type2.
PlanType1PacketSize(plan, p) == IF plan.total = 1 THEN 0 ELSE p

------------------------------------------------------------------------------
(***************************************************************************)
(* Placing the fragments at the receiver.  fs is Bucket.mFragmentSize, of  *)
(* the last fragment number, t3 the Type3 payload size (0: none).          *)
(***************************************************************************)

Type1Offset(fs, frag) == fs * frag
Type3Offset(fs, of) == fs * (of - 1)

\* Slip: the Type3 is taken for a full fragment.
Type2OffsetFull(fs, of, t3) == fs * of

\* handleType2: behind the Type3 when there is one, else after of full Type1s.
Type2Offset(fs, of, t3) ==
    IF t3 > 0 THEN (fs * (of - 1)) + t3 ELSE fs * of

\* Upper bound of a frame's size that a first Type1 or Type3 allocates.
AllocBound(fs, of) == fs * (of + 1)

------------------------------------------------------------------------------
(***************************************************************************)
(* Timestamps.                                                             *)
(***************************************************************************)

\* Slip: the difference is cut to 32 bits without a range check.
DtsPtsDiffCut(aPts, aDts) ==
    IF aDts # UINT64_MAX /\ aPts # UINT64_MAX /\ aPts >= aDts
      THEN (aPts - aDts) % (UINT32_MAX + 1) ELSE UINT32_MAX

\* send: the DTS is sent as PTS - DTS when both exist, are ordered and fit.
DtsPtsDiff(aPts, aDts) ==
    IF /\ aDts # UINT64_MAX /\ aPts # UINT64_MAX /\ aPts >= aDts
       /\ aPts - aDts <= UINT32_MAX - 1
      THEN aPts - aDts ELSE UINT32_MAX

\* handleType2: a difference larger than the PTS is refused ...
DiffRefused(mPts, mDiff) == mDiff # UINT32_MAX /\ mDiff > mPts

\* ... and otherwise subtracted again.
DtsOf(mPts, mDiff) == IF mDiff = UINT32_MAX THEN UINT64_MAX ELSE mPts - mDiff
==============================================================================
