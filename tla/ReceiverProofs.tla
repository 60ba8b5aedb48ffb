---------------------------- MODULE ReceiverProofs ----------------------------
(***************************************************************************)
(* Proofs about the receiver, for every ring size, sequence space, set of  *)
(* packets and timing.                                                     *)
(***************************************************************************)
EXTENDS Receiver, NackProofs

------------------------------------------------------------------------------
(***************************************************************************)
(* Sequence numbers.                                                       *)
(***************************************************************************)

LEMMA SeqFacts ==
    /\ SeqSpace \in Nat \ {0} /\ Slots \in Nat \ {0}
    /\ \E k \in Nat : SeqSpace = k * Slots
    /\ \E k \in Nat : SeqSpace = 2 * k
  BY ReceiverAssumption

\* A bucket is found by the number on the wire and by the unwrapped number.
LEMMA SlotOfOrder ==
    ASSUME NEW order \in Int, NEW aFrameNo \in 0..(SeqSpace - 1),
           order % SeqSpace = aFrameNo
    PROVE  Slot(order) = Slot(aFrameNo)
<1>1. PICK k \in Nat : SeqSpace = k * Slots
  BY SeqFacts
<1> DEFINE q == order \div SeqSpace
           q2 == aFrameNo \div Slots
           r == aFrameNo % Slots
<1>2. q \in Int /\ order = (SeqSpace * q) + aFrameNo
  BY IntDivMod, SeqFacts
<1>3. q2 \in Int /\ r \in 0..(Slots - 1) /\ aFrameNo = (Slots * q2) + r
  <2>1. aFrameNo \in Int
    OBVIOUS
  <2> QED BY <2>1, IntDivMod, SeqFacts
<1> HIDE DEF q, q2, r
<1>4. order = (Slots * ((k * q) + q2)) + r
  <2>1. SeqSpace * q = Slots * (k * q)
    BY <1>1, <1>2, SeqFacts, Z3
  <2>2. Slots * ((k * q) + q2) = (Slots * (k * q)) + (Slots * q2)
    BY <1>1, <1>2, <1>3, SeqFacts, Z3
  <2> QED BY <1>1, <1>2, <1>3, <2>1, <2>2, SeqFacts
<1>5. ((Slots * ((k * q) + q2)) + r) % Slots = r
  <2>1. (k * q) + q2 \in Int
    BY <1>1, <1>2, <1>3
  <2> QED BY <1>3, <2>1, ModUnique, SeqFacts
<1> QED BY <1>4, <1>5 DEF Slot, r

\* Unwrapping keeps the number on the wire as the remainder.
LEMMA UnwrapMod ==
    ASSUME NEW recalc \in Int, NEW old \in 0..(SeqSpace - 1),
           NEW aFrameNo \in 0..(SeqSpace - 1), recalc % SeqSpace = old
    PROVE  /\ SignedDelta(aFrameNo, old) \in Int
           /\ (recalc + SignedDelta(aFrameNo, old)) % SeqSpace = aFrameNo
<1> DEFINE d == (aFrameNo - old) % SeqSpace
           q == recalc \div SeqSpace
           e == (aFrameNo - old) \div SeqSpace
<1>1. q \in Int /\ recalc = (SeqSpace * q) + old
  BY IntDivMod, SeqFacts
<1>2. e \in Int /\ d \in Int /\ aFrameNo - old = (SeqSpace * e) + d
  <2>1. aFrameNo - old \in Int
    OBVIOUS
  <2>2. \A n \in Int : /\ n \div SeqSpace \in Int
                      /\ n % SeqSpace \in 0..(SeqSpace - 1)
                      /\ n = (SeqSpace * (n \div SeqSpace)) + (n % SeqSpace)
    BY IntDivMod, SeqFacts
  <2> QED BY <2>1, <2>2, SeqFacts
<1>3. SignedDelta(aFrameNo, old) = d \/ SignedDelta(aFrameNo, old) = d - SeqSpace
  BY DEF SignedDelta
<1> HIDE DEF d, q, e
<1>4. ASSUME NEW c \in Int, SignedDelta(aFrameNo, old) = d - (SeqSpace * c)
      PROVE  (recalc + SignedDelta(aFrameNo, old)) % SeqSpace = aFrameNo
  <2>1. recalc + SignedDelta(aFrameNo, old)
          = (SeqSpace * ((q - e) - c)) + aFrameNo
    <3>1. SeqSpace * ((q - e) - c)
            = ((SeqSpace * q) - (SeqSpace * e)) - (SeqSpace * c)
      BY <1>1, <1>2, <1>4, SeqFacts, Z3
    <3>2. /\ SeqSpace * q \in Int /\ SeqSpace * e \in Int
          /\ SeqSpace * c \in Int
      BY <1>1, <1>2, <1>4, SeqFacts
    <3> QED BY <3>1, <3>2, <1>1, <1>2, <1>4, SeqFacts
  <2>2. ((SeqSpace * ((q - e) - c)) + aFrameNo) % SeqSpace = aFrameNo
    <3>1. (q - e) - c \in Int
      BY <1>1, <1>2, <1>4
    <3> QED BY <3>1, ModUnique, SeqFacts
  <2> QED BY <2>1, <2>2
<1>5. SeqSpace * 0 = 0 /\ SeqSpace * 1 = SeqSpace
  BY SeqFacts
<1>6. CASE SignedDelta(aFrameNo, old) = d
  BY <1>2, <1>4, <1>5, <1>6, SeqFacts
<1>7. CASE SignedDelta(aFrameNo, old) = d - SeqSpace
  BY <1>2, <1>4, <1>5, <1>7, SeqFacts
<1> QED BY <1>3, <1>6, <1>7

------------------------------------------------------------------------------
(***************************************************************************)
(* The inductive invariant.                                                *)
(***************************************************************************)
BucketFields ==
    {"mActive", "mDeliveryOrder", "mSavedFrameNo", "mStreamId", "mSourceId",
     "mFlags", "mReceivedFragments", "mFragmentCount", "mOfFragmentNo",
     "mFragmentSize", "mType3Size", "mType2Size", "mPts", "mDts", "mPayload",
     "mTimeoutUs", "mFirstArrivalUs", "mLastNackUs", "mNackCount", "mSize",
     "mAlloc", "mpData"}

\* The count and the set of received fragments agree.
Counted(b) ==
    /\ IsFiniteSet(b.mReceivedFragments)
    /\ b.mOfFragmentNo \in Nat
    /\ b.mReceivedFragments \subseteq 0..b.mOfFragmentNo
    /\ b.mFragmentCount = Cardinality(b.mReceivedFragments)

\* The allocation covers what may still be written.  A bucket that a Type2
\* opened has room for that Type2 only; one that misses its last fragment has
\* room for a full one; a Type2 stored without a Type3 lies behind of full
\* fragments, from where a Type3 moves it down.
Sized(b) ==
    LET of    == b.mOfFragmentNo
        fs    == b.mFragmentSize
        alloc == b.mAlloc
    IN  /\ fs \in Nat /\ alloc \in Nat /\ b.mSize \in Nat
        /\ b.mType2Size \in Nat /\ b.mType3Size \in Nat
        /\ fs * of <= alloc
        /\ of \notin b.mReceivedFragments =>
             alloc = fs * (of + 1) /\ b.mType2Size = 0
        /\ of \in b.mReceivedFragments /\ (of - 1) \notin b.mReceivedFragments =>
             (fs * of) + b.mType2Size <= alloc
        /\ b.mType3Size > 0 => (of - 1) \in b.mReceivedFragments
        /\ DOMAIN b.mpData = 0..(alloc - 1)
        /\ b.mSize <= alloc

Assembling(b) ==
    /\ b = [f \in BucketFields |-> b[f]]
    /\ b.mActive = TRUE
    /\ Counted(b)
    /\ Sized(b)

\* A bucket in slot s: its order, unwrapped, leads to s as well.
BucketOK(b, s) ==
    /\ b.mActive \in BOOLEAN
    /\ b.mDeliveryOrder \in Int \cup {NoOrder}
    /\ b.mActive =>
         /\ Assembling(b)
         /\ b.mDeliveryOrder \in Int
         /\ Slot(b.mDeliveryOrder) = s

\* The record rx, and the last number received as the remainder of the last
\* unwrapped one.
NumbersOK(r) ==
    /\ r = [mpBuckets |-> r.mpBuckets, mBucketMap |-> r.mBucketMap,
            mStreams |-> r.mStreams, mOldFrameNo |-> r.mOldFrameNo,
            mFrameNoRecalc |-> r.mFrameNoRecalc,
            mFirstFrame |-> r.mFirstFrame]
    /\ r.mOldFrameNo \in 0..(SeqSpace - 1)
    /\ r.mFrameNoRecalc \in Int
    /\ r.mFirstFrame \in BOOLEAN
    /\ ~r.mFirstFrame => r.mFrameNoRecalc % SeqSpace = r.mOldFrameNo

RingOK(r) ==
    /\ r.mpBuckets = [s \in 0..(Slots - 1) |-> r.mpBuckets[s]]
    /\ \A s \in 0..(Slots - 1) : BucketOK(r.mpBuckets[s], s)

MapOK(r) ==
    /\ r.mBucketMap = [o \in DOMAIN r.mBucketMap |-> r.mBucketMap[o]]
    /\ \A o \in DOMAIN r.mBucketMap :
         /\ o \in Int
         /\ r.mBucketMap[o] \in 0..(Slots - 1)
         /\ r.mpBuckets[r.mBucketMap[o]].mActive
         /\ r.mpBuckets[r.mBucketMap[o]].mDeliveryOrder = o
    /\ \A s \in 0..(Slots - 1) :
         r.mpBuckets[s].mActive =>
           /\ r.mpBuckets[s].mDeliveryOrder \in DOMAIN r.mBucketMap
           /\ r.mBucketMap[r.mpBuckets[s].mDeliveryOrder] = s

RxInv(r) == NumbersOK(r) /\ RingOK(r) /\ MapOK(r)

\* The frames of the bundle in progress are frames of a packet.
BundleOK ==
    /\ bundle = [frames |-> bundle.frames, aSourceId |-> bundle.aSourceId]
    /\ bundle.frames \in Seq(InnerFrames)
    /\ bundle = NoBundle \/ bundle.frames # <<>>

IInv ==
    /\ mMode \in {"THREADED", "RUN_TO_COMPLETION"}
    /\ now \in Nat
    /\ returning \in Nat
    /\ BundleOK
    /\ RxInv(rx)

------------------------------------------------------------------------------
(***************************************************************************)
(* Buckets under the handlers.                                             *)
(***************************************************************************)

\* Offsets are monotonic in the fragment number.
LEMMA Offsets ==
    ASSUME NEW fs \in Nat, NEW k \in Nat, NEW of \in Nat
    PROVE  /\ fs * of \in Nat
           /\ fs * (of + 1) = (fs * of) + fs
           /\ fs * (of - 1) = (fs * of) - fs
           /\ k < of => (fs * k) + fs <= fs * of
           /\ k = of => fs * k = fs * of
           /\ fs * k \in Nat
<1>1. /\ fs * of \in Nat /\ fs * k \in Nat
      /\ fs * (of + 1) = (fs * of) + fs
      /\ fs * (of - 1) = (fs * of) - fs
  BY Z3
<1>2. ASSUME k < of PROVE (fs * k) + fs <= fs * of
  <2>1. PICK n \in Nat : of = (k + 1) + n
    <3>1. of - (k + 1) \in Nat
      BY <1>2
    <3> QED BY <3>1
  <2>2. fs * of = ((fs * k) + fs) + (fs * n)
    BY <2>1, Z3
  <2>3. fs * n \in Nat
    BY <2>1, Z3
  <2> QED BY <1>1, <2>2, <2>3
<1> QED BY <1>1, <1>2

\* A write inside the allocation leaves its extent alone.
LEMMA WriteDomain ==
    ASSUME NEW buffer, NEW alloc \in Nat, DOMAIN buffer = 0..(alloc - 1),
           NEW offset \in Nat, NEW data, Len(data) \in Nat,
           offset + Len(data) <= alloc
    PROVE  DOMAIN Write(buffer, offset, data) = 0..(alloc - 1)
  BY DEF Write

LEMMA MoveDomain ==
    ASSUME NEW buffer, NEW alloc \in Nat, DOMAIN buffer = 0..(alloc - 1),
           NEW to \in Nat, NEW from, NEW size \in Nat, to + size <= alloc
    PROVE  DOMAIN Move(buffer, to, from, size) = 0..(alloc - 1)
  BY DEF Move

\* One more fragment.
LEMMA CountOneMore ==
    ASSUME NEW b, Counted(b), NEW k \in 0..b.mOfFragmentNo,
           k \notin b.mReceivedFragments
    PROVE  /\ IsFiniteSet(b.mReceivedFragments \cup {k})
           /\ b.mReceivedFragments \cup {k} \subseteq 0..b.mOfFragmentNo
           /\ b.mFragmentCount + 1 = Cardinality(b.mReceivedFragments \cup {k})
  BY FS_AddElement DEF Counted

LEMMA Store1OK ==
    ASSUME NEW b, Assembling(b), NEW p, NEW aSourceId, FragmentHeader(p),
           p.mFrameType = 1, p.mFragmentNo <= p.mOfFragmentNo,
           Refusal1(b, p, aSourceId) = "OK"
    PROVE  /\ Assembling(Store1(b, p))
           /\ Store1(b, p).mDeliveryOrder = b.mDeliveryOrder
<1> DEFINE c == Store1(b, p)
           k == p.mFragmentNo
           of == b.mOfFragmentNo
           fs == b.mFragmentSize
<1>1. /\ p.mOfFragmentNo = of /\ k \notin b.mReceivedFragments
      /\ Len(p.data) = fs
  BY DEF Refusal1, Mismatch
<1>2. k \in 0..of /\ k \in Nat /\ of \in Nat /\ fs \in Nat
  BY <1>1 DEF FragmentHeader, Assembling, Counted, Sized
<1>3. /\ c = [f \in BucketFields |-> c[f]]
      /\ c.mActive = TRUE
      /\ c.mDeliveryOrder = b.mDeliveryOrder
      /\ c.mReceivedFragments = b.mReceivedFragments \cup {k}
      /\ c.mFragmentCount = b.mFragmentCount + 1
      /\ c.mpData = Write(b.mpData, fs * k, p.data)
      /\ c.mOfFragmentNo = of /\ c.mFragmentSize = fs
      /\ c.mAlloc = b.mAlloc /\ c.mSize = b.mSize
      /\ c.mType2Size = b.mType2Size /\ c.mType3Size = b.mType3Size
  BY DEF Assembling, BucketFields, Store1, Type1Offset
<1> HIDE DEF c
<1>4. Counted(c)
  <2>1. Counted(b)
    BY DEF Assembling
  <2>2. /\ IsFiniteSet(b.mReceivedFragments \cup {k})
        /\ b.mReceivedFragments \cup {k} \subseteq 0..of
        /\ b.mFragmentCount + 1 = Cardinality(b.mReceivedFragments \cup {k})
    BY <1>1, <1>2, <2>1, CountOneMore
  <2> QED BY ONLY <1>2, <1>3, <2>2 DEF Counted
<1>5. Sized(c)
  <2>1. /\ fs * of \in Nat /\ fs * k \in Nat
        /\ fs * (of + 1) = (fs * of) + fs
        /\ k < of => (fs * k) + fs <= fs * of
        /\ k = of => fs * k = fs * of
    BY <1>2, Offsets
  <2>2. (fs * k) + Len(p.data) <= b.mAlloc
    <3> DEFINE x == fs * of
               y == fs * k
               z == fs * (of + 1)
    <3>1. Sized(b)
      BY DEF Assembling
    <3>2. b.mAlloc \in Nat /\ x <= b.mAlloc /\ (k = of => b.mAlloc = z)
      BY <1>1, <3>1 DEF Sized
    <3>3. /\ x \in Nat /\ y \in Nat /\ z = x + fs
          /\ k < of => y + fs <= x
          /\ k = of => y = x
      BY <2>1
    <3>4. k < of \/ k = of
      BY <1>2
    <3> HIDE DEF x, y, z
    <3>5. fs \in Nat
      BY <1>2
    <3>6. y + fs <= b.mAlloc
      BY ONLY <3>2, <3>3, <3>4, <3>5
    <3> QED BY ONLY <1>1, <3>6 DEF y
  <2>3. DOMAIN c.mpData = 0..(b.mAlloc - 1)
    <3>1. /\ b.mAlloc \in Nat /\ DOMAIN b.mpData = 0..(b.mAlloc - 1)
          /\ Len(p.data) \in Nat
      BY <1>1, <1>2 DEF Assembling, Sized
    <3>2. DOMAIN Write(b.mpData, fs * k, p.data) = 0..(b.mAlloc - 1)
      BY <2>1, <2>2, <3>1, WriteDomain
    <3> QED BY <1>3, <3>2
  <2>4. Sized(b)
    BY DEF Assembling
  <2>5. c.mType3Size > 0 => (of - 1) \in c.mReceivedFragments
    BY <1>3, <2>4 DEF Sized
  <2>6. of \notin c.mReceivedFragments =>
          c.mAlloc = fs * (of + 1) /\ c.mType2Size = 0
    BY <1>3, <2>4 DEF Sized
  <2>7. of \in c.mReceivedFragments /\ (of - 1) \notin c.mReceivedFragments =>
          (fs * of) + c.mType2Size <= c.mAlloc
    <3>1. CASE of \in b.mReceivedFragments
      BY <1>3, <2>4, <3>1 DEF Sized
    <3>2. CASE of \notin b.mReceivedFragments
      <4>1. b.mAlloc = fs * (of + 1) /\ b.mType2Size = 0
        BY <2>4, <3>2 DEF Sized
      <4> QED BY ONLY <1>2, <1>3, <2>1, <4>1
    <3> QED BY <3>1, <3>2
  <2>8. /\ c.mFragmentSize \in Nat /\ c.mAlloc \in Nat /\ c.mSize \in Nat
        /\ c.mType2Size \in Nat /\ c.mType3Size \in Nat
        /\ fs * of <= c.mAlloc /\ c.mSize <= c.mAlloc
    BY <1>3, <2>4 DEF Sized
  <2> QED BY <1>3, <2>3, <2>5, <2>6, <2>7, <2>8 DEF Sized
<1> QED BY <1>3, <1>4, <1>5 DEF Assembling, c

LEMMA Store2OK ==
    ASSUME NEW b, Assembling(b), NEW p, NEW aSourceId, FragmentHeader(p),
           p.mFrameType = 2, p.mSizeOfData = Len(p.data),
           Refusal2(b, p, aSourceId) = "OK"
    PROVE  /\ Assembling(Store2(b, p))
           /\ Store2(b, p).mDeliveryOrder = b.mDeliveryOrder
<1> DEFINE c == Store2(b, p)
           of == b.mOfFragmentNo
           fs == b.mFragmentSize
           offset == Type2Offset(fs, of, b.mType3Size)
           size == p.mSizeOfData
<1>1. /\ p.mOfFragmentNo = of /\ of \notin b.mReceivedFragments
      /\ offset + size <= fs * (of + 1)
  <2>1. Mismatch(b, p, aSourceId) = "OK"
    BY DEF Refusal2
  <2>2. p.mOfFragmentNo = of
    BY <2>1 DEF Mismatch
  <2>3. of \notin b.mReceivedFragments
    BY <2>1, <2>2 DEF Refusal2
  <2>4. ~(offset + size > AllocBound(fs, of))
    BY <2>1, <2>2, <2>3 DEF Refusal2
  <2>5. offset + size \in Int /\ fs * (of + 1) \in Int
    <3>1. Sized(b) /\ Counted(b)
      BY DEF Assembling
    <3>2. of \in Nat /\ fs \in Nat /\ b.mType3Size \in Nat
      BY <3>1 DEF Sized, Counted
    <3>3. size \in Nat
      BY DEF FragmentHeader
    <3>4. fs * (of - 1) \in Int /\ fs * of \in Int /\ fs * (of + 1) \in Int
      BY ONLY <3>2
    <3>5. offset \in Int
      BY ONLY <3>2, <3>4 DEF Type2Offset
    <3> QED BY ONLY <3>3, <3>4, <3>5
  <2> QED BY <2>2, <2>3, <2>4, <2>5 DEF AllocBound
<1>2. of \in 0..of /\ of \in Nat /\ fs \in Nat /\ size \in Nat
  BY <1>1 DEF FragmentHeader, Assembling, Counted, Sized
<1>3. /\ c = [f \in BucketFields |-> c[f]]
      /\ c.mActive = TRUE
      /\ c.mDeliveryOrder = b.mDeliveryOrder
      /\ c.mReceivedFragments = b.mReceivedFragments \cup {of}
      /\ c.mFragmentCount = b.mFragmentCount + 1
      /\ c.mpData = Write(b.mpData, offset, p.data)
      /\ c.mOfFragmentNo = of /\ c.mFragmentSize = fs
      /\ c.mAlloc = b.mAlloc /\ c.mSize = offset + size
      /\ c.mType2Size = size /\ c.mType3Size = b.mType3Size
  <2>1. b = [f \in BucketFields |-> b[f]] /\ b.mActive = TRUE
    BY DEF Assembling
  <2>2. p.mOfFragmentNo = of
    BY <1>1
  <2>3. c = [f \in BucketFields |-> c[f]]
    BY ONLY <2>1 DEF Store2
  <2>4. /\ c.mActive = b.mActive
        /\ c.mDeliveryOrder = b.mDeliveryOrder
        /\ c.mOfFragmentNo = of /\ c.mFragmentSize = fs
        /\ c.mAlloc = b.mAlloc /\ c.mType3Size = b.mType3Size
    BY ONLY <2>1 DEF BucketFields, Store2
  <2>5. /\ c.mReceivedFragments = b.mReceivedFragments \cup {of}
        /\ c.mFragmentCount = b.mFragmentCount + 1
    BY ONLY <2>1, <2>2 DEF BucketFields, Store2
  <2>6. /\ c.mSize = offset + size
        /\ c.mType2Size = size
    BY ONLY <2>1, <2>2 DEF BucketFields, Store2
  <2>7. c.mpData = Write(b.mpData, offset, p.data)
    BY ONLY <2>1, <2>2 DEF BucketFields, Store2
  <2> QED BY ONLY <2>1, <2>3, <2>4, <2>5, <2>6, <2>7
<1>4. /\ Counted(b) /\ Sized(b)
  BY DEF Assembling
<1> HIDE DEF c
<1>5. Counted(c)
  <2>1. /\ IsFiniteSet(b.mReceivedFragments \cup {of})
        /\ b.mReceivedFragments \cup {of} \subseteq 0..of
        /\ b.mFragmentCount + 1 = Cardinality(b.mReceivedFragments \cup {of})
    BY <1>1, <1>2, <1>4, CountOneMore
  <2> QED BY ONLY <1>2, <1>3, <2>1 DEF Counted
<1>6. Sized(c)
  <2>1. /\ fs * of \in Nat
        /\ fs * (of + 1) = (fs * of) + fs
        /\ fs * (of - 1) = (fs * of) - fs
        /\ of > 0 => fs <= fs * of
    <3>1. of > 0 => (fs * 0) + fs <= fs * of
      BY <1>2, Offsets
    <3>2. fs * 0 = 0
      BY <1>2
    <3> QED BY <1>2, <3>1, <3>2, Offsets
  <2>2. b.mAlloc = fs * (of + 1) /\ b.mAlloc \in Nat
    BY <1>1, <1>4 DEF Sized
  <2>3. b.mType3Size \in Nat
        /\ (b.mType3Size > 0 => (of - 1) \in b.mReceivedFragments)
    BY <1>4 DEF Sized
  <2>4. b.mType3Size > 0 => of > 0
    BY <1>2, <1>4, <2>3 DEF Counted
  <2>5. offset \in Nat
    <3>1. CASE b.mType3Size > 0
      BY <1>2, <2>1, <2>3, <2>4, <3>1 DEF Type2Offset
    <3>2. CASE ~(b.mType3Size > 0)
      BY <1>2, <2>1, <3>2 DEF Type2Offset
    <3> QED BY <3>1, <3>2
  <2>6. b.mType3Size = 0 => offset = fs * of
    BY DEF Type2Offset
  <2> HIDE DEF offset
  <2>7. DOMAIN c.mpData = 0..(b.mAlloc - 1)
    <3>1. DOMAIN b.mpData = 0..(b.mAlloc - 1) /\ Len(p.data) \in Nat
      BY <1>2, <1>4 DEF Sized
    <3>2. DOMAIN Write(b.mpData, offset, p.data) = 0..(b.mAlloc - 1)
      BY <1>1, <2>2, <2>5, <3>1, WriteDomain
    <3> QED BY <1>3, <3>2
  <2>8. c.mSize \in Nat /\ c.mSize <= c.mAlloc
    BY ONLY <1>1, <1>2, <1>3, <2>2, <2>5
  <2>9. c.mType3Size > 0 => (of - 1) \in c.mReceivedFragments
    BY <1>3, <2>3
  <2>10. of \in c.mReceivedFragments
    BY <1>3
  <2>11. (of - 1) \notin c.mReceivedFragments => (fs * of) + c.mType2Size <= c.mAlloc
    <3> SUFFICES ASSUME (of - 1) \notin c.mReceivedFragments
                 PROVE  (fs * of) + c.mType2Size <= c.mAlloc
      OBVIOUS
    <3>1. b.mType3Size = 0
      BY <1>3, <2>3
    <3> QED BY ONLY <1>1, <1>3, <2>2, <2>6, <3>1
  <2>12. fs * of <= c.mAlloc
    BY ONLY <1>2, <1>3, <2>1, <2>2
  <2> QED BY <1>2, <1>3, <2>2, <2>3, <2>7, <2>8, <2>9, <2>10, <2>11, <2>12
          DEF Sized
<1> QED BY <1>3, <1>5, <1>6 DEF Assembling, c

LEMMA Store3OK ==
    ASSUME NEW b, Assembling(b), NEW p, NEW aSourceId, FragmentHeader(p),
           p.mFrameType = 3, p.mOfFragmentNo # 0,
           Len(p.data) <= p.mType1PacketSize,
           Refusal3(b, p, aSourceId) = "OK"
    PROVE  /\ Assembling(Store3(b, p))
           /\ Store3(b, p).mDeliveryOrder = b.mDeliveryOrder
<1> DEFINE c == Store3(b, p)
           of == b.mOfFragmentNo
           fs == b.mFragmentSize
           len == Len(p.data)
           offset == Type3Offset(fs, of)
           moved == of \in b.mReceivedFragments /\ b.mType2Size > 0
           source == IF moved
                       THEN Move(b.mpData, offset + len, fs * of, b.mType2Size)
                       ELSE b.mpData
<1>1. /\ p.mOfFragmentNo = of /\ (of - 1) \notin b.mReceivedFragments
      /\ p.mType1PacketSize = fs
  BY DEF Refusal3, Mismatch
<1>2. of \in Nat /\ fs \in Nat /\ len \in Nat /\ len <= fs /\ of > 0
      /\ of - 1 \in 0..of
  BY <1>1 DEF FragmentHeader, Assembling, Counted, Sized
<1>3. /\ c = [f \in BucketFields |-> c[f]]
      /\ c.mActive = TRUE
      /\ c.mDeliveryOrder = b.mDeliveryOrder
      /\ c.mReceivedFragments = b.mReceivedFragments \cup {of - 1}
      /\ c.mFragmentCount = b.mFragmentCount + 1
      /\ c.mpData = Write(source, offset, p.data)
      /\ c.mOfFragmentNo = of /\ c.mFragmentSize = fs
      /\ c.mAlloc = b.mAlloc
      /\ c.mSize = IF moved THEN (offset + len) + b.mType2Size
                   ELSE IF of \in b.mReceivedFragments THEN b.mSize
                   ELSE offset + len
      /\ c.mType2Size = b.mType2Size /\ c.mType3Size = len
  BY <1>1 DEF Assembling, BucketFields, Store3
<1>4. /\ Counted(b) /\ Sized(b)
  BY DEF Assembling
<1> HIDE DEF c
<1>5. Counted(c)
  <2>1. /\ IsFiniteSet(b.mReceivedFragments \cup {of - 1})
        /\ b.mReceivedFragments \cup {of - 1} \subseteq 0..of
        /\ b.mFragmentCount + 1 = Cardinality(b.mReceivedFragments \cup {of - 1})
    BY <1>1, <1>2, <1>4, CountOneMore
  <2> QED BY ONLY <1>2, <1>3, <2>1 DEF Counted
<1>6. Sized(c)
  <2>1. /\ fs * of \in Nat
        /\ offset = (fs * of) - fs
        /\ fs <= fs * of
    <3>1. (fs * 0) + fs <= fs * of
      BY <1>2, Offsets
    <3>2. fs * 0 = 0
      BY <1>2
    <3> QED BY <1>2, <3>1, <3>2, Offsets DEF Type3Offset
  <2>2. offset \in Nat /\ offset + len <= fs * of
    BY ONLY <1>2, <2>1
  <2>3. /\ b.mAlloc \in Nat /\ b.mSize \in Nat /\ b.mType2Size \in Nat
        /\ fs * of <= b.mAlloc /\ b.mSize <= b.mAlloc
        /\ DOMAIN b.mpData = 0..(b.mAlloc - 1)
        /\ of \notin b.mReceivedFragments =>
             b.mAlloc = fs * (of + 1) /\ b.mType2Size = 0
        /\ of \in b.mReceivedFragments => (fs * of) + b.mType2Size <= b.mAlloc
    BY <1>1, <1>4 DEF Sized
  <2> HIDE DEF offset
  <2>4. DOMAIN source = 0..(b.mAlloc - 1)
    <3>1. CASE moved
      <4>1. (offset + len) + b.mType2Size <= b.mAlloc /\ offset + len \in Nat
        <5> DEFINE x == fs * of
        <5>1. /\ x \in Nat /\ offset \in Nat /\ len \in Nat
              /\ b.mType2Size \in Nat /\ b.mAlloc \in Nat
              /\ offset + len <= x
          BY ONLY <1>2, <2>1, <2>2, <2>3
        <5>2. x + b.mType2Size <= b.mAlloc
          BY ONLY <2>3, <3>1
        <5> HIDE DEF x
        <5> QED BY ONLY <5>1, <5>2
      <4>2. DOMAIN Move(b.mpData, offset + len, fs * of, b.mType2Size)
              = 0..(b.mAlloc - 1)
        BY <2>3, <4>1, MoveDomain
      <4> QED BY <3>1, <4>2
    <3>2. CASE ~moved
      BY <2>3, <3>2
    <3> QED BY <3>1, <3>2
  <2> HIDE DEF source
  <2>5. DOMAIN c.mpData = 0..(b.mAlloc - 1)
    <3>1. offset + len <= b.mAlloc
      BY ONLY <1>2, <2>1, <2>2, <2>3
    <3>2. DOMAIN Write(source, offset, p.data) = 0..(b.mAlloc - 1)
      BY <1>2, <2>2, <2>3, <2>4, <3>1, WriteDomain
    <3> QED BY <1>3, <3>2
  <2>6. c.mSize \in Nat /\ c.mSize <= c.mAlloc
    <3>1. CASE moved
      <4>1. c.mSize = (offset + len) + b.mType2Size
        BY ONLY <1>3, <3>1
      <4>2. (fs * of) + b.mType2Size <= b.mAlloc
        BY ONLY <2>3, <3>1
      <4>3. c.mAlloc = b.mAlloc /\ b.mAlloc \in Nat /\ b.mType2Size \in Nat
        BY ONLY <1>3, <2>3
      <4>4. fs * of \in Nat /\ len \in Nat
        BY ONLY <1>2, <2>1
      <4> QED BY ONLY <2>2, <4>1, <4>2, <4>3, <4>4
    <3>2. CASE ~moved /\ of \in b.mReceivedFragments
      BY ONLY <1>3, <2>3, <3>2
    <3>3. CASE of \notin b.mReceivedFragments
      <4>1. c.mSize = offset + len
        BY ONLY <1>3, <3>3
      <4>2. c.mAlloc = b.mAlloc /\ b.mAlloc \in Nat /\ fs * of <= b.mAlloc
        BY ONLY <1>3, <2>3
      <4>3. fs * of \in Nat /\ len \in Nat
        BY ONLY <1>2, <2>1
      <4> QED BY ONLY <2>2, <4>1, <4>2, <4>3
    <3> QED BY <3>1, <3>2, <3>3
  <2>7. (of - 1) \in c.mReceivedFragments
    BY <1>3
  <2>8. of \notin c.mReceivedFragments =>
          c.mAlloc = fs * (of + 1) /\ c.mType2Size = 0
    BY <1>3, <2>3
  <2> QED BY <1>2, <1>3, <2>3, <2>5, <2>6, <2>7, <2>8 DEF Sized
<1> QED BY <1>3, <1>5, <1>6 DEF Assembling, c

\* What the three kinds of first fragment have in common.
FirstOK(p, f) ==
    LET of == p.mOfFragmentNo
        fs == f.fragmentSize
    IN  /\ f.fragment \in 0..of
        /\ fs \in Nat /\ f.alloc \in Nat /\ f.offset \in Nat
        /\ f.type2Size \in Nat /\ f.type3Size \in Nat
        /\ f.offset + Len(p.data) <= f.alloc
        /\ fs * of <= f.alloc
        /\ f.fragment # of => f.alloc = fs * (of + 1) /\ f.type2Size = 0
        /\ f.fragment = of => (fs * of) + f.type2Size <= f.alloc
        /\ f.type3Size > 0 => f.fragment = of - 1

LEMMA OpenedOK ==
    ASSUME NEW p, FragmentHeader(p), NEW aSourceId, NEW order, NEW f,
           FirstOK(p, f)
    PROVE  /\ Assembling(Opened(p, aSourceId, order, f))
           /\ Opened(p, aSourceId, order, f).mDeliveryOrder = order
<1> DEFINE c == Opened(p, aSourceId, order, f)
           of == p.mOfFragmentNo
           fs == f.fragmentSize
           fresh == [i \in 0..(f.alloc - 1) |-> Junk]
<1>1. /\ c = [g \in BucketFields |-> c[g]]
      /\ c.mActive = TRUE
      /\ c.mDeliveryOrder = order
      /\ c.mReceivedFragments = {f.fragment}
      /\ c.mFragmentCount = 1
      /\ c.mpData = Write(fresh, f.offset, p.data)
      /\ c.mOfFragmentNo = of /\ c.mFragmentSize = fs
      /\ c.mAlloc = f.alloc /\ c.mSize = f.alloc
      /\ c.mType2Size = f.type2Size /\ c.mType3Size = f.type3Size
  BY DEF BucketFields, Opened
<1>2. DOMAIN Write(fresh, f.offset, p.data) = 0..(f.alloc - 1)
  <2>1. /\ DOMAIN fresh = 0..(f.alloc - 1) /\ f.alloc \in Nat
        /\ f.offset \in Nat /\ Len(p.data) \in Nat
        /\ f.offset + Len(p.data) <= f.alloc
    BY DEF FirstOK, FragmentHeader
  <2> HIDE DEF fresh
  <2> QED BY <2>1, WriteDomain
<1> HIDE DEF c, fresh
<1>3. Counted(c)
  <2>1. IsFiniteSet({f.fragment}) /\ Cardinality({f.fragment}) = 1
    BY FS_Singleton
  <2> QED BY <1>1, <2>1 DEF Counted, FirstOK, FragmentHeader
<1>4. Sized(c)
  <2>1. of \in Nat /\ f.alloc <= f.alloc
    BY DEF FirstOK, FragmentHeader
  <2>2. of \notin c.mReceivedFragments =>
          c.mAlloc = fs * (of + 1) /\ c.mType2Size = 0
    BY <1>1 DEF FirstOK
  <2>3. of \in c.mReceivedFragments => (fs * of) + c.mType2Size <= c.mAlloc
    BY <1>1 DEF FirstOK
  <2>4. c.mType3Size > 0 => (of - 1) \in c.mReceivedFragments
    BY <1>1 DEF FirstOK
  <2>5. /\ fs \in Nat /\ f.alloc \in Nat /\ f.type2Size \in Nat
        /\ f.type3Size \in Nat /\ fs * of <= f.alloc
    BY DEF FirstOK
  <2> QED BY ONLY <1>1, <1>2, <2>1, <2>2, <2>3, <2>4, <2>5 DEF Sized
<1> QED BY <1>1, <1>3, <1>4 DEF Assembling, c

LEMMA First1OK ==
    ASSUME NEW r, NEW p, FragmentHeader(p), p.mFrameType = 1,
           p.mFragmentNo <= p.mOfFragmentNo
    PROVE  FirstOK(p, First1(r, p))
<1> DEFINE fs == Len(p.data)
           of == p.mOfFragmentNo
           k == p.mFragmentNo
           f == First1(r, p)
<1>1. fs \in Nat /\ of \in Nat /\ k \in Nat /\ k \in 0..of
  BY DEF FragmentHeader
<1>2. /\ f.fragment = k /\ f.fragmentSize = fs /\ f.type2Size = 0
      /\ f.type3Size = 0 /\ f.alloc = fs * (of + 1) /\ f.offset = fs * k
  BY DEF First1, AllocBound, Type1Offset
<1>3. /\ fs * of \in Nat /\ fs * k \in Nat
      /\ fs * (of + 1) = (fs * of) + fs
      /\ k < of => (fs * k) + fs <= fs * of
      /\ k = of => fs * k = fs * of
  BY <1>1, Offsets
<1>4. (fs * k) + fs <= fs * (of + 1) /\ fs * (of + 1) \in Nat
      /\ fs * of <= fs * (of + 1)
  <2> DEFINE x == fs * of
             y == fs * (of + 1)
             z == fs * k
  <2>1. /\ x \in Nat /\ z \in Nat /\ y = x + fs
        /\ k < of => z + fs <= x
        /\ k = of => z = x
    BY <1>3
  <2>2. k < of \/ k = of
    BY <1>1
  <2>3. fs \in Nat
    BY <1>1
  <2> HIDE DEF x, y, z
  <2>4. z + fs <= y /\ y \in Nat /\ x <= y
    BY ONLY <2>1, <2>2, <2>3
  <2> QED BY <2>4 DEF x, y, z
<1> HIDE DEF f
<1>5. FirstOK(p, f)
  BY <1>1, <1>2, <1>3, <1>4 DEF FirstOK
<1> QED BY <1>5 DEF f

LEMMA First2OK ==
    ASSUME NEW p, FragmentHeader(p), p.mFrameType = 2,
           p.mSizeOfData = Len(p.data)
    PROVE  FirstOK(p, First2(p))
<1> DEFINE fs == p.mType1PacketSize
           of == p.mOfFragmentNo
           size == p.mSizeOfData
           f == First2(p)
<1>1. fs \in Nat /\ of \in Nat /\ size \in Nat /\ Len(p.data) = size
  BY DEF FragmentHeader
<1>2. /\ f.fragment = of /\ f.fragmentSize = fs /\ f.type2Size = size
      /\ f.type3Size = 0 /\ f.alloc = (fs * of) + size /\ f.offset = fs * of
  BY DEF First2, Type2Offset
<1>3. fs * of \in Nat
  BY <1>1, Offsets
<1> HIDE DEF f
<1>4. FirstOK(p, f)
  BY <1>1, <1>2, <1>3 DEF FirstOK
<1> QED BY <1>4 DEF f

LEMMA First3OK ==
    ASSUME NEW r, NEW p, FragmentHeader(p), p.mFrameType = 3,
           p.mOfFragmentNo # 0, Len(p.data) <= p.mType1PacketSize
    PROVE  FirstOK(p, First3(r, p))
<1> DEFINE fs == p.mType1PacketSize
           of == p.mOfFragmentNo
           len == Len(p.data)
           f == First3(r, p)
<1>1. /\ fs \in Nat /\ of \in Nat /\ of > 0 /\ len \in Nat /\ len <= fs
      /\ of - 1 \in 0..of /\ of - 1 # of
  BY DEF FragmentHeader
<1>2. /\ f.fragment = of - 1 /\ f.fragmentSize = fs /\ f.type2Size = 0
      /\ f.type3Size = len /\ f.alloc = fs * (of + 1)
      /\ f.offset = fs * (of - 1)
  BY DEF First3, AllocBound, Type3Offset
<1>3. /\ fs * of \in Nat
      /\ fs * (of + 1) = (fs * of) + fs
      /\ fs * (of - 1) = (fs * of) - fs
      /\ fs <= fs * of
  <2>1. (fs * 0) + fs <= fs * of
    BY <1>1, Offsets
  <2>2. fs * 0 = 0
    BY <1>1
  <2> QED BY <1>1, <2>1, <2>2, Offsets
<1>4. /\ fs * (of - 1) \in Nat /\ fs * (of + 1) \in Nat
      /\ (fs * (of - 1)) + len <= fs * (of + 1)
      /\ fs * of <= fs * (of + 1)
  <2> DEFINE x == fs * of
             y == fs * (of + 1)
             z == fs * (of - 1)
  <2>1. x \in Nat /\ y = x + fs /\ z = x - fs /\ fs <= x
    BY <1>3
  <2> HIDE DEF x, y, z
  <2>2. fs \in Nat /\ len \in Nat /\ len <= fs
    BY <1>1
  <2>3. z \in Nat /\ y \in Nat /\ z + len <= y /\ x <= y
    BY ONLY <2>1, <2>2
  <2> QED BY <2>3 DEF x, y, z
<1> HIDE DEF f
<1>5. FirstOK(p, f)
  BY <1>1, <1>2, <1>3, <1>4 DEF FirstOK
<1> QED BY <1>5 DEF f

------------------------------------------------------------------------------
(***************************************************************************)
(* The ring and the map under the handlers.                                *)
(***************************************************************************)

\* An inactive bucket's slot has no entry in the map.
LEMMA FreeSlot ==
    ASSUME NEW r, RxInv(r), NEW s \in 0..(Slots - 1),
           ~r.mpBuckets[s].mActive, NEW o \in DOMAIN r.mBucketMap
    PROVE  r.mBucketMap[o] # s /\ Slot(o) # s
<1>1. /\ r.mBucketMap[o] \in 0..(Slots - 1)
      /\ r.mpBuckets[r.mBucketMap[o]].mActive
      /\ r.mpBuckets[r.mBucketMap[o]].mDeliveryOrder = o
  BY DEF RxInv, MapOK
<1>2. Slot(o) = r.mBucketMap[o]
  BY <1>1 DEF RxInv, RingOK, BucketOK
<1> QED BY <1>1, <1>2

LEMMA SameRing ==
    ASSUME NEW r, RxInv(r), NEW r2, NumbersOK(r2),
           r2.mpBuckets = r.mpBuckets, r2.mBucketMap = r.mBucketMap
    PROVE  RxInv(r2)
  BY DEF RxInv, RingOK, MapOK

\* A failed allocation.
LEMMA LeftClosed ==
    ASSUME NEW r, RxInv(r), NEW r2, NumbersOK(r2), NEW s \in 0..(Slots - 1),
           ~r.mpBuckets[s].mActive, NEW order \in Int, Slot(order) = s,
           r2.mpBuckets = [r.mpBuckets EXCEPT
                             ![s] = [mActive |-> FALSE,
                                     mDeliveryOrder |-> order]],
           r2.mBucketMap = Erase(r.mBucketMap, order)
    PROVE  RxInv(r2)
<1> DEFINE b == [mActive |-> FALSE, mDeliveryOrder |-> order]
<1>1. /\ r2.mpBuckets = [t \in 0..(Slots - 1) |-> r2.mpBuckets[t]]
      /\ r2.mpBuckets[s] = b
      /\ \A t \in (0..(Slots - 1)) \ {s} : r2.mpBuckets[t] = r.mpBuckets[t]
  BY DEF RxInv, RingOK
<1>2. RingOK(r2)
  <2>1. BucketOK(b, s)
    BY DEF BucketOK
  <2> QED BY <1>1, <2>1 DEF RxInv, RingOK
<1>3. order \notin DOMAIN r.mBucketMap
  BY FreeSlot
<1>4. r2.mBucketMap = r.mBucketMap
  BY <1>3 DEF Erase, RxInv, MapOK
<1>5. \A o \in DOMAIN r.mBucketMap : r.mBucketMap[o] # s
  BY FreeSlot
<1>6. ~r2.mpBuckets[s].mActive
  BY <1>1
<1> HIDE DEF b
<1>7. MapOK(r2)
  BY <1>1, <1>4, <1>5, <1>6 DEF RxInv, MapOK
<1> QED BY <1>2, <1>7 DEF RxInv

\* A first fragment.
LEMMA PutOpen ==
    ASSUME NEW r, RxInv(r), NEW r2, NumbersOK(r2), NEW s \in 0..(Slots - 1),
           ~r.mpBuckets[s].mActive, NEW order \in Int, Slot(order) = s,
           NEW b, Assembling(b), b.mDeliveryOrder = order,
           r2.mpBuckets = [r.mpBuckets EXCEPT ![s] = b],
           r2.mBucketMap = Enter(r.mBucketMap, order, s)
    PROVE  RxInv(r2)
<1>1. /\ r2.mpBuckets = [t \in 0..(Slots - 1) |-> r2.mpBuckets[t]]
      /\ r2.mpBuckets[s] = b
      /\ \A t \in (0..(Slots - 1)) \ {s} : r2.mpBuckets[t] = r.mpBuckets[t]
  BY DEF RxInv, RingOK
<1>2. RingOK(r2)
  <2>1. BucketOK(b, s)
    BY DEF BucketOK, Assembling
  <2> QED BY <1>1, <2>1 DEF RxInv, RingOK
<1>3. order \notin DOMAIN r.mBucketMap
  BY FreeSlot
<1>4. /\ DOMAIN r2.mBucketMap = DOMAIN r.mBucketMap \cup {order}
      /\ r2.mBucketMap = [o \in DOMAIN r2.mBucketMap |-> r2.mBucketMap[o]]
      /\ r2.mBucketMap[order] = s
      /\ \A o \in DOMAIN r.mBucketMap : r2.mBucketMap[o] = r.mBucketMap[o]
  BY <1>3 DEF Enter
<1>5. \A o \in DOMAIN r.mBucketMap : r.mBucketMap[o] # s
  BY FreeSlot
<1>6. b.mActive
  BY DEF Assembling
<1>7. MapOK(r2)
  <2>1. ASSUME NEW o \in DOMAIN r2.mBucketMap
        PROVE  /\ o \in Int
               /\ r2.mBucketMap[o] \in 0..(Slots - 1)
               /\ r2.mpBuckets[r2.mBucketMap[o]].mActive
               /\ r2.mpBuckets[r2.mBucketMap[o]].mDeliveryOrder = o
    <3>1. CASE o = order
      BY <1>1, <1>4, <1>6, <3>1
    <3>2. CASE o \in DOMAIN r.mBucketMap
      BY <1>1, <1>4, <1>5, <3>2 DEF RxInv, MapOK
    <3> QED BY <1>4, <3>1, <3>2
  <2>2. ASSUME NEW t \in 0..(Slots - 1), r2.mpBuckets[t].mActive
        PROVE  /\ r2.mpBuckets[t].mDeliveryOrder \in DOMAIN r2.mBucketMap
               /\ r2.mBucketMap[r2.mpBuckets[t].mDeliveryOrder] = t
    <3>1. CASE t = s
      BY <1>1, <1>4, <3>1
    <3>2. CASE t # s
      BY <1>1, <1>4, <2>2, <3>2 DEF RxInv, MapOK
    <3> QED BY <3>1, <3>2
  <2> QED BY <1>4, <2>1, <2>2 DEF MapOK
<1> QED BY <1>2, <1>7 DEF RxInv

\* A later fragment.
LEMMA PutMore ==
    ASSUME NEW r, RxInv(r), NEW r2, NumbersOK(r2), NEW s \in 0..(Slots - 1),
           r.mpBuckets[s].mActive, NEW b, Assembling(b),
           b.mDeliveryOrder = r.mpBuckets[s].mDeliveryOrder,
           r2.mpBuckets = [r.mpBuckets EXCEPT ![s] = b],
           r2.mBucketMap = r.mBucketMap
    PROVE  RxInv(r2)
<1>1. /\ r2.mpBuckets = [t \in 0..(Slots - 1) |-> r2.mpBuckets[t]]
      /\ r2.mpBuckets[s] = b
      /\ \A t \in (0..(Slots - 1)) \ {s} : r2.mpBuckets[t] = r.mpBuckets[t]
  BY DEF RxInv, RingOK
<1>2. b.mActive = TRUE
  BY DEF Assembling
<1>3. RingOK(r2)
  <2>1. BucketOK(b, s)
    BY <1>2 DEF BucketOK, RxInv, RingOK
  <2> QED BY <1>1, <2>1 DEF RxInv, RingOK
<1>4. MapOK(r2)
  <2>1. ASSUME NEW t \in 0..(Slots - 1)
        PROVE  /\ r2.mpBuckets[t].mDeliveryOrder = r.mpBuckets[t].mDeliveryOrder
               /\ r2.mpBuckets[t].mActive <=> r.mpBuckets[t].mActive
    BY <1>1, <1>2
  <2> QED BY <2>1 DEF RxInv, MapOK
<1> QED BY <1>3, <1>4 DEF RxInv

LEMMA RecalcOK ==
    ASSUME NEW r, NumbersOK(r), NEW aFrameNo \in 0..(SeqSpace - 1)
    PROVE  LET r1 == recalculateSuperFrameNo(r, aFrameNo)
           IN  /\ NumbersOK(r1)
               /\ r1.mFrameNoRecalc \in Int
               /\ r1.mFrameNoRecalc % SeqSpace = aFrameNo
               /\ r1.mpBuckets = r.mpBuckets
               /\ r1.mBucketMap = r.mBucketMap
               /\ r1.mStreams = r.mStreams
<1> DEFINE r1 == recalculateSuperFrameNo(r, aFrameNo)
<1>1. r1 = [mpBuckets |-> r.mpBuckets, mBucketMap |-> r.mBucketMap,
            mStreams |-> r.mStreams, mOldFrameNo |-> aFrameNo,
            mFrameNoRecalc |->
              IF r.mFirstFrame THEN aFrameNo
              ELSE r.mFrameNoRecalc + SignedDelta(aFrameNo, r.mOldFrameNo),
            mFirstFrame |-> FALSE]
  <2>1. r = [mpBuckets |-> r.mpBuckets, mBucketMap |-> r.mBucketMap,
             mStreams |-> r.mStreams, mOldFrameNo |-> r.mOldFrameNo,
             mFrameNoRecalc |-> r.mFrameNoRecalc,
             mFirstFrame |-> r.mFirstFrame]
    BY DEF NumbersOK
  <2>2. r1 = [[[r EXCEPT !.mOldFrameNo = aFrameNo] EXCEPT
                !.mFrameNoRecalc =
                   IF r.mFirstFrame THEN aFrameNo
                   ELSE r.mFrameNoRecalc + SignedDelta(aFrameNo, r.mOldFrameNo)]
              EXCEPT !.mFirstFrame = FALSE]
    BY DEF recalculateSuperFrameNo
  <2> QED BY <2>1, <2>2
<1>2. /\ r1.mFrameNoRecalc \in Int
      /\ r1.mFrameNoRecalc % SeqSpace = aFrameNo
  <2>1. CASE r.mFirstFrame
    <3>1. ((SeqSpace * 0) + aFrameNo) % SeqSpace = aFrameNo
      BY ModUnique, SeqFacts
    <3>2. (SeqSpace * 0) + aFrameNo = aFrameNo
      BY SeqFacts
    <3>3. r1.mFrameNoRecalc = aFrameNo
      BY <1>1, <2>1
    <3> QED BY <3>1, <3>2, <3>3
  <2>2. CASE ~r.mFirstFrame
    <3>1. /\ r.mFrameNoRecalc \in Int /\ r.mOldFrameNo \in 0..(SeqSpace - 1)
          /\ r.mFrameNoRecalc % SeqSpace = r.mOldFrameNo
      BY <2>2 DEF NumbersOK
    <3>2. /\ SignedDelta(aFrameNo, r.mOldFrameNo) \in Int
          /\ (r.mFrameNoRecalc + SignedDelta(aFrameNo, r.mOldFrameNo)) % SeqSpace
               = aFrameNo
      BY <3>1, UnwrapMod
    <3>3. r1.mFrameNoRecalc
            = r.mFrameNoRecalc + SignedDelta(aFrameNo, r.mOldFrameNo)
      BY <1>1, <2>2
    <3> QED BY <3>1, <3>2, <3>3
  <2> QED BY <2>1, <2>2
<1>3. NumbersOK(r1)
  <2>1. /\ r1 = [mpBuckets |-> r1.mpBuckets, mBucketMap |-> r1.mBucketMap,
                 mStreams |-> r1.mStreams, mOldFrameNo |-> r1.mOldFrameNo,
                 mFrameNoRecalc |-> r1.mFrameNoRecalc,
                 mFirstFrame |-> r1.mFirstFrame]
        /\ r1.mOldFrameNo = aFrameNo /\ r1.mFirstFrame = FALSE
    BY <1>1
  <2> HIDE DEF r1
  <2> QED BY <1>2, <2>1 DEF NumbersOK
<1> QED BY <1>1, <1>2, <1>3

\* rx with another ring, map and stream table.
WithRing(r, buckets, map, streams) ==
    [mpBuckets |-> buckets, mBucketMap |-> map, mStreams |-> streams,
     mOldFrameNo |-> r.mOldFrameNo, mFrameNoRecalc |-> r.mFrameNoRecalc,
     mFirstFrame |-> r.mFirstFrame]

LEMMA WithRingOK ==
    ASSUME NEW r, NumbersOK(r), NEW buckets, NEW map, NEW streams
    PROVE  LET r2 == WithRing(r, buckets, map, streams)
           IN  /\ NumbersOK(r2)
               /\ r2.mpBuckets = buckets /\ r2.mBucketMap = map
<1> DEFINE r2 == WithRing(r, buckets, map, streams)
<1>1. /\ r2 = [mpBuckets |-> r2.mpBuckets, mBucketMap |-> r2.mBucketMap,
               mStreams |-> r2.mStreams, mOldFrameNo |-> r2.mOldFrameNo,
               mFrameNoRecalc |-> r2.mFrameNoRecalc,
               mFirstFrame |-> r2.mFirstFrame]
      /\ r2.mpBuckets = buckets /\ r2.mBucketMap = map
      /\ r2.mOldFrameNo = r.mOldFrameNo
      /\ r2.mFrameNoRecalc = r.mFrameNoRecalc
      /\ r2.mFirstFrame = r.mFirstFrame
  BY DEF WithRing
<1> HIDE DEF r2
<1>2. NumbersOK(r2)
  BY <1>1 DEF NumbersOK
<1> QED BY <1>1, <1>2 DEF r2

\* The same, as the handlers write it.
LEMMA ExceptBuckets ==
    ASSUME NEW r, NumbersOK(r), NEW buckets,
           NEW x, x = [r EXCEPT !.mpBuckets = buckets]
    PROVE  x = WithRing(r, buckets, r.mBucketMap, r.mStreams)
  BY DEF NumbersOK, WithRing

LEMMA ExceptMap ==
    ASSUME NEW r, NEW buckets, NEW m, NEW streams, NEW map,
           NEW x, x = WithRing(r, buckets, m, streams),
           NEW y, y = [x EXCEPT !.mBucketMap = map]
    PROVE  y = WithRing(r, buckets, map, streams)
  BY DEF WithRing

LEMMA SlotRange ==
    ASSUME NEW n \in Nat
    PROVE  Slot(n) \in 0..(Slots - 1)
  BY IntDivMod, SeqFacts DEF Slot

LEMMA OpenBucketOK ==
    ASSUME NEW r, RxInv(r), NEW p, FragmentHeader(p), NEW aSourceId,
           NEW f, FirstOK(p, f), NEW memory,
           ~r.mpBuckets[Slot(p.mSuperFrameNo)].mActive
    PROVE  RxInv(OpenBucket(r, p, aSourceId, f, memory).rx)
<1> DEFINE sfn == p.mSuperFrameNo
           r1 == recalculateSuperFrameNo(r, sfn)
           order == r1.mFrameNoRecalc
           s == Slot(sfn)
           streams == IF p.mFrameType = 2
                        THEN [r.mStreams EXCEPT ![p.mStreamId] = p.mPayload]
                        ELSE r.mStreams
           closed == [mActive |-> FALSE, mDeliveryOrder |-> order]
           opened == Opened(p, aSourceId, order, f)
           buckets2 == [r1.mpBuckets EXCEPT ![s] = closed]
           map2 == Erase(r1.mBucketMap, order)
           r2 == WithRing(r1, buckets2, map2, streams)
           buckets3 == [r1.mpBuckets EXCEPT ![s] = opened]
           map3 == Enter(r1.mBucketMap, order, s)
           r3 == WithRing(r1, buckets3, map3, streams)
           result == OpenBucket(r, p, aSourceId, f, memory).rx
<1>1. sfn \in 0..(SeqSpace - 1) /\ s \in 0..(Slots - 1)
  <2>1. sfn \in 0..(SeqSpace - 1)
    BY DEF FragmentHeader
  <2>2. sfn \in Nat
    BY <2>1, SeqFacts
  <2> HIDE DEF sfn
  <2> QED BY <2>1, <2>2, SlotRange
<1>2. /\ NumbersOK(r1) /\ order \in Int /\ order % SeqSpace = sfn
      /\ r1.mpBuckets = r.mpBuckets /\ r1.mBucketMap = r.mBucketMap
  BY <1>1, RecalcOK DEF RxInv
<1>3. result = r1 \/ result = r2 \/ result = r3
  <2>1. \/ OpenBucket(r, p, aSourceId, f, memory)
             = [rx |-> r1, result |-> "FRAGMENT_TOO_OLD"]
        \/ OpenBucket(r, p, aSourceId, f, memory)
             = [rx |-> r1, result |-> "TOO_LARGE_FRAME"]
        \/ OpenBucket(r, p, aSourceId, f, memory)
             = [rx |-> r2, result |-> "MEMORY_ALLOCATION_ERROR"]
        \/ OpenBucket(r, p, aSourceId, f, memory)
             = [rx |-> r3, result |-> "OK"]
    <3> DEFINE x2 == [r1 EXCEPT !.mpBuckets = buckets2]
               y2 == [x2 EXCEPT !.mBucketMap = map2]
               e2 == [y2 EXCEPT !.mStreams = streams]
               x3 == [r1 EXCEPT !.mpBuckets = buckets3]
               y3 == [x3 EXCEPT !.mBucketMap = map3]
               e3 == [y3 EXCEPT !.mStreams = streams]
    <3>1. e2 = r2 /\ e3 = r3
      <4>1. NumbersOK(r1)
        BY <1>2
      <4> HIDE DEF r1, buckets2, map2, buckets3, map3, streams
      <4>2. /\ x2 = WithRing(r1, buckets2, r1.mBucketMap, r1.mStreams)
            /\ x3 = WithRing(r1, buckets3, r1.mBucketMap, r1.mStreams)
        BY <4>1, ExceptBuckets
      <4> HIDE DEF x2, x3
      <4>3. /\ y2 = WithRing(r1, buckets2, map2, r1.mStreams)
            /\ y3 = WithRing(r1, buckets3, map3, r1.mStreams)
        BY <4>2, ExceptMap
      <4> HIDE DEF y2, y3
      <4>4. e2 = WithRing(r1, buckets2, map2, streams)
        BY ONLY <4>3 DEF WithRing
      <4>5. e3 = WithRing(r1, buckets3, map3, streams)
        BY ONLY <4>3 DEF WithRing
      <4> QED BY ONLY <4>4, <4>5
    <3>2. \/ OpenBucket(r, p, aSourceId, f, memory)
               = [rx |-> r1, result |-> "FRAGMENT_TOO_OLD"]
          \/ OpenBucket(r, p, aSourceId, f, memory)
               = [rx |-> r1, result |-> "TOO_LARGE_FRAME"]
          \/ OpenBucket(r, p, aSourceId, f, memory)
               = [rx |-> e2, result |-> "MEMORY_ALLOCATION_ERROR"]
          \/ OpenBucket(r, p, aSourceId, f, memory)
               = [rx |-> e3, result |-> "OK"]
      BY DEF OpenBucket
    <3> HIDE DEF r1, r2, r3, e2, e3
    <3> QED BY <3>1, <3>2
  <2> HIDE DEF r1, r2, r3
  <2> QED BY <2>1
<1>4. Slot(order) = s
  BY <1>1, <1>2, SlotOfOrder
<1>5. ~r.mpBuckets[s].mActive
  OBVIOUS
<1> HIDE DEF r1, order, s, sfn
<1>6. CASE result = r1
  BY <1>2, <1>6, SameRing
<1>7. CASE result = r2
  <2>1. /\ NumbersOK(r2)
        /\ r2.mpBuckets = [r.mpBuckets EXCEPT ![s] = closed]
        /\ r2.mBucketMap = Erase(r.mBucketMap, order)
    BY <1>2, WithRingOK
  <2> HIDE DEF r2
  <2>2. RxInv(r2)
    BY <1>1, <1>2, <1>4, <1>5, <2>1, LeftClosed
  <2> QED BY <1>7, <2>2
<1>8. CASE result = r3
  <2>1. /\ NumbersOK(r3)
        /\ r3.mpBuckets = [r.mpBuckets EXCEPT ![s] = opened]
        /\ r3.mBucketMap = Enter(r.mBucketMap, order, s)
    BY <1>2, WithRingOK
  <2>2. Assembling(opened) /\ opened.mDeliveryOrder = order
    BY OpenedOK
  <2> HIDE DEF r3, opened
  <2>3. RxInv(r3)
    BY <1>1, <1>2, <1>4, <1>5, <2>1, <2>2, PutOpen
  <2> QED BY <1>8, <2>3
<1> QED BY <1>3, <1>6, <1>7, <1>8

\* A fragment stored in an active bucket.
LEMMA StoredOK ==
    ASSUME NEW r, RxInv(r), NEW s \in 0..(Slots - 1), r.mpBuckets[s].mActive,
           NEW b, Assembling(b),
           b.mDeliveryOrder = r.mpBuckets[s].mDeliveryOrder, NEW streams
    PROVE  RxInv(WithRing(r, [r.mpBuckets EXCEPT ![s] = b], r.mBucketMap,
                          streams))
<1> DEFINE r2 == WithRing(r, [r.mpBuckets EXCEPT ![s] = b], r.mBucketMap,
                          streams)
<1>1. /\ NumbersOK(r2)
      /\ r2.mpBuckets = [r.mpBuckets EXCEPT ![s] = b]
      /\ r2.mBucketMap = r.mBucketMap
  BY WithRingOK DEF RxInv
<1> HIDE DEF r2
<1>2. RxInv(r2)
  BY <1>1, PutMore
<1> QED BY <1>2 DEF r2

\* A bucket that is found active is being assembled.
LEMMA ActiveBucket ==
    ASSUME NEW r, RxInv(r), NEW p, FragmentHeader(p)
    PROVE  LET s == Slot(p.mSuperFrameNo)
           IN  /\ s \in 0..(Slots - 1)
               /\ r.mpBuckets[s].mActive => Assembling(r.mpBuckets[s])
<1> DEFINE s == Slot(p.mSuperFrameNo)
<1>1. p.mSuperFrameNo \in Nat
  BY SeqFacts DEF FragmentHeader
<1>2. s \in 0..(Slots - 1)
  BY <1>1, SlotRange
<1> HIDE DEF s
<1>3. r.mpBuckets[s].mActive => Assembling(r.mpBuckets[s])
  BY <1>2 DEF RxInv, RingOK, BucketOK
<1> QED BY <1>2, <1>3 DEF s

LEMMA StoredRx ==
    ASSUME NEW r, RxInv(r), NEW s, NEW b
    PROVE  Stored(r, s, b).rx
             = WithRing(r, [r.mpBuckets EXCEPT ![s] = b], r.mBucketMap,
                        r.mStreams)
<1> DEFINE buckets == [r.mpBuckets EXCEPT ![s] = b]
           x == [r EXCEPT !.mpBuckets = buckets]
<1>1. Stored(r, s, b).rx = x
  BY DEF Stored
<1>2. NumbersOK(r)
  BY DEF RxInv
<1> HIDE DEF buckets
<1>3. x = WithRing(r, buckets, r.mBucketMap, r.mStreams)
  BY ONLY <1>2, ExceptBuckets
<1> HIDE DEF x
<1> QED BY <1>1, <1>3 DEF buckets

LEMMA HandleType1OK ==
    ASSUME NEW r, RxInv(r), NEW p, FragmentHeader(p), p.mFrameType = 1,
           NEW aSourceId, NEW memory
    PROVE  RxInv(handleType1(r, p, aSourceId, memory).rx)
<1> DEFINE s == Slot(p.mSuperFrameNo)
           b == r.mpBuckets[s]
           h == handleType1(r, p, aSourceId, memory)
           refuse == \/ p.mOfFragmentNo >= MAX_FRAGMENTS_PER_SUPERFRAME
                     \/ p.mFragmentNo > p.mOfFragmentNo
<1>1. s \in 0..(Slots - 1) /\ (b.mActive => Assembling(b))
  BY ActiveBucket
<1>2. CASE refuse
  <2>1. h.rx = r
    BY <1>2 DEF handleType1, Refused
  <2> QED BY <2>1
<1>3. ~refuse => p.mFragmentNo <= p.mOfFragmentNo
  BY DEF FragmentHeader
<1>4. CASE ~refuse /\ ~b.mActive
  <2>1. h = OpenBucket(r, p, aSourceId, First1(r, p), memory)
    BY <1>4 DEF handleType1
  <2>2. FirstOK(p, First1(r, p))
    BY <1>3, <1>4, First1OK
  <2>3. RxInv(OpenBucket(r, p, aSourceId, First1(r, p), memory).rx)
    BY <1>4, <2>2, OpenBucketOK
  <2> QED BY <2>1, <2>3
<1>5. CASE ~refuse /\ b.mActive /\ Refusal1(b, p, aSourceId) # "OK"
  <2>1. h.rx = r
    BY <1>5 DEF handleType1, Refused
  <2> QED BY <2>1
<1>6. CASE ~refuse /\ b.mActive /\ Refusal1(b, p, aSourceId) = "OK"
  <2> DEFINE c == Store1(b, p)
  <2>1. h = Stored(r, s, c)
    BY <1>6 DEF handleType1
  <2>2. Assembling(c) /\ c.mDeliveryOrder = b.mDeliveryOrder
    BY <1>1, <1>3, <1>6, Store1OK
  <2> HIDE DEF c
  <2>3. RxInv(WithRing(r, [r.mpBuckets EXCEPT ![s] = c], r.mBucketMap,
                       r.mStreams))
    BY <1>1, <1>6, <2>2, StoredOK
  <2>4. Stored(r, s, c).rx
          = WithRing(r, [r.mpBuckets EXCEPT ![s] = c], r.mBucketMap, r.mStreams)
    BY StoredRx
  <2>5. h.rx = WithRing(r, [r.mpBuckets EXCEPT ![s] = c], r.mBucketMap,
                        r.mStreams)
    BY ONLY <2>1, <2>4
  <2> QED BY ONLY <2>3, <2>5
<1> QED BY <1>2, <1>4, <1>5, <1>6

LEMMA HandleType2OK ==
    ASSUME NEW r, RxInv(r), NEW p, FragmentHeader(p), p.mFrameType = 2,
           NEW aSourceId, NEW memory
    PROVE  RxInv(handleType2(r, p, aSourceId, memory).rx)
<1> DEFINE s == Slot(p.mSuperFrameNo)
           b == r.mpBuckets[s]
           h == handleType2(r, p, aSourceId, memory)
<1>1. s \in 0..(Slots - 1) /\ (b.mActive => Assembling(b))
  BY ActiveBucket
<1>2. CASE Malformed2(p) # "OK"
  <2>1. h.rx = r
    BY <1>2 DEF handleType2, Refused
  <2> QED BY <2>1
<1>3. Malformed2(p) = "OK" => p.mSizeOfData = Len(p.data)
  BY DEF Malformed2
<1>4. CASE Malformed2(p) = "OK" /\ ~b.mActive
  <2>1. h = OpenBucket(r, p, aSourceId, First2(p), memory)
    BY <1>4 DEF handleType2
  <2>2. FirstOK(p, First2(p))
    BY <1>3, <1>4, First2OK
  <2>3. RxInv(OpenBucket(r, p, aSourceId, First2(p), memory).rx)
    BY <1>4, <2>2, OpenBucketOK
  <2> QED BY <2>1, <2>3
<1>5. CASE /\ Malformed2(p) = "OK" /\ b.mActive
           /\ Refusal2(b, p, aSourceId) # "OK"
  <2>1. h.rx = r
    BY <1>5 DEF handleType2, Refused
  <2> QED BY <2>1
<1>6. CASE /\ Malformed2(p) = "OK" /\ b.mActive
           /\ Refusal2(b, p, aSourceId) = "OK"
  <2> DEFINE c == Store2(b, p)
             x == Stored(r, s, c).rx
             streams == [x.mStreams EXCEPT ![p.mStreamId] = p.mPayload]
             buckets == [r.mpBuckets EXCEPT ![s] = c]
  <2>1. h.rx = [x EXCEPT !.mStreams = streams]
    BY <1>6 DEF handleType2, Stored
  <2>2. Assembling(c) /\ c.mDeliveryOrder = b.mDeliveryOrder
    BY <1>1, <1>3, <1>6, Store2OK
  <2> HIDE DEF c
  <2>3. x = WithRing(r, buckets, r.mBucketMap, r.mStreams)
    BY StoredRx
  <2> HIDE DEF x, streams
  <2>4. RxInv(WithRing(r, buckets, r.mBucketMap, streams))
    BY <1>1, <1>6, <2>2, StoredOK
  <2> HIDE DEF buckets, h
  <2>5. h.rx = WithRing(r, buckets, r.mBucketMap, streams)
    BY ONLY <2>1, <2>3 DEF WithRing
  <2> QED BY <2>4, <2>5 DEF h
<1> QED BY <1>2, <1>4, <1>5, <1>6

LEMMA HandleType3OK ==
    ASSUME NEW r, RxInv(r), NEW p, FragmentHeader(p), p.mFrameType = 3,
           NEW aSourceId, NEW memory
    PROVE  RxInv(handleType3(r, p, aSourceId, memory).rx)
<1> DEFINE s == Slot(p.mSuperFrameNo)
           b == r.mpBuckets[s]
           h == handleType3(r, p, aSourceId, memory)
<1>1. s \in 0..(Slots - 1) /\ (b.mActive => Assembling(b))
  BY ActiveBucket
<1>2. CASE Malformed3(p) # "OK"
  <2>1. h.rx = r
    BY <1>2 DEF handleType3, Refused
  <2> QED BY <2>1
<1>3. Malformed3(p) = "OK" => /\ p.mOfFragmentNo # 0
                              /\ Len(p.data) <= p.mType1PacketSize
  BY DEF Malformed3, FragmentHeader
<1>4. CASE Malformed3(p) = "OK" /\ ~b.mActive
  <2>1. h = OpenBucket(r, p, aSourceId, First3(r, p), memory)
    BY <1>4 DEF handleType3
  <2>2. FirstOK(p, First3(r, p))
    BY <1>3, <1>4, First3OK
  <2>3. RxInv(OpenBucket(r, p, aSourceId, First3(r, p), memory).rx)
    BY <1>4, <2>2, OpenBucketOK
  <2> QED BY <2>1, <2>3
<1>5. CASE /\ Malformed3(p) = "OK" /\ b.mActive
           /\ Refusal3(b, p, aSourceId) # "OK"
  <2>1. h.rx = r
    BY <1>5 DEF handleType3, Refused
  <2> QED BY <2>1
<1>6. CASE /\ Malformed3(p) = "OK" /\ b.mActive
           /\ Refusal3(b, p, aSourceId) = "OK"
  <2> DEFINE c == Store3(b, p)
  <2>1. h = Stored(r, s, c)
    BY <1>6 DEF handleType3
  <2>2. Assembling(c) /\ c.mDeliveryOrder = b.mDeliveryOrder
    BY <1>1, <1>3, <1>6, Store3OK
  <2> HIDE DEF c
  <2>3. RxInv(WithRing(r, [r.mpBuckets EXCEPT ![s] = c], r.mBucketMap,
                       r.mStreams))
    BY <1>1, <1>6, <2>2, StoredOK
  <2>4. h.rx = WithRing(r, [r.mpBuckets EXCEPT ![s] = c], r.mBucketMap,
                        r.mStreams)
    BY <2>1, StoredRx
  <2> QED BY <2>3, <2>4
<1> QED BY <1>2, <1>4, <1>5, <1>6

LEMMA HandleOK ==
    ASSUME NEW r, RxInv(r), NEW p, FragmentHeader(p), NEW aSourceId,
           NEW memory
    PROVE  RxInv(Handle(r, p, aSourceId, memory).rx)
<1>1. p.mFrameType = 1 \/ p.mFrameType = 2 \/ p.mFrameType = 3
  BY DEF FragmentHeader
<1>2. CASE p.mFrameType = 1
  BY <1>2, HandleType1OK DEF Handle
<1>3. CASE p.mFrameType = 2
  BY <1>3, HandleType2OK DEF Handle
<1>4. CASE p.mFrameType = 3
  BY <1>4, HandleType3OK DEF Handle
<1> QED BY <1>1, <1>2, <1>3, <1>4

------------------------------------------------------------------------------
(***************************************************************************)
(* The ring and the map under processTimeouts.                             *)
(***************************************************************************)

\* An entry of the map leads to a bucket that is being assembled.
LEMMA EntryBucket ==
    ASSUME NEW r, RxInv(r), NEW o \in DOMAIN r.mBucketMap
    PROVE  /\ r.mBucketMap[o] \in 0..(Slots - 1)
           /\ r.mpBuckets[r.mBucketMap[o]].mActive
           /\ r.mpBuckets[r.mBucketMap[o]].mDeliveryOrder = o
           /\ Assembling(r.mpBuckets[r.mBucketMap[o]])
  BY DEF RxInv, MapOK, RingOK, BucketOK

LEMMA NackedOK ==
    ASSUME NEW b, Assembling(b)
    PROVE  /\ Assembling(Nacked(b))
           /\ Nacked(b).mDeliveryOrder = b.mDeliveryOrder
<1> DEFINE c == Nacked(b)
<1>1. /\ c = [f \in BucketFields |-> c[f]]
      /\ c.mActive = b.mActive /\ c.mDeliveryOrder = b.mDeliveryOrder
      /\ c.mReceivedFragments = b.mReceivedFragments
      /\ c.mFragmentCount = b.mFragmentCount
      /\ c.mpData = b.mpData
      /\ c.mOfFragmentNo = b.mOfFragmentNo
      /\ c.mFragmentSize = b.mFragmentSize
      /\ c.mAlloc = b.mAlloc /\ c.mSize = b.mSize
      /\ c.mType2Size = b.mType2Size /\ c.mType3Size = b.mType3Size
  BY DEF Assembling, BucketFields, Nacked
<1> HIDE DEF c
<1>2. Counted(c)
  BY <1>1 DEF Assembling, Counted
<1>3. Sized(c)
  BY <1>1 DEF Assembling, Sized
<1> QED BY <1>1, <1>2, <1>3 DEF Assembling, c

LEMMA ProcessNacksOK ==
    ASSUME NEW r, RxInv(r), NEW base
    PROVE  RxInv(processNacks(r, base))
<1> DEFINE due == {r.mBucketMap[o] : o \in OrdersDue(r, base)}
           buckets == [t \in 0..(Slots - 1) |->
                         IF t \in due THEN Nacked(r.mpBuckets[t])
                         ELSE r.mpBuckets[t]]
           r2 == WithRing(r, buckets, r.mBucketMap, r.mStreams)
           x == [r EXCEPT !.mpBuckets = buckets]
<1>1. processNacks(r, base) = x
  BY DEF processNacks
<1>2. NumbersOK(r)
  BY DEF RxInv
<1>3. x = r2
  <2> HIDE DEF buckets
  <2> QED BY ONLY <1>2, ExceptBuckets
<1>4. \A t \in due : /\ t \in 0..(Slots - 1) /\ r.mpBuckets[t].mActive
                     /\ Assembling(r.mpBuckets[t])
  <2>1. \A o \in OrdersDue(r, base) : o \in DOMAIN r.mBucketMap
    BY DEF OrdersDue
  <2> QED BY <2>1, EntryBucket
<1> HIDE DEF due
<1>5. ASSUME NEW t \in 0..(Slots - 1)
      PROVE  /\ buckets[t].mDeliveryOrder = r.mpBuckets[t].mDeliveryOrder
             /\ buckets[t].mActive <=> r.mpBuckets[t].mActive
             /\ BucketOK(buckets[t], t)
  <2>1. BucketOK(r.mpBuckets[t], t)
    BY DEF RxInv, RingOK
  <2>2. CASE t \in due
    <3> DEFINE b == r.mpBuckets[t]
               c == Nacked(b)
    <3>1. Assembling(c) /\ c.mDeliveryOrder = b.mDeliveryOrder
      BY <1>4, <2>2, NackedOK
    <3>2. buckets[t] = c
      BY <2>2
    <3>3. b.mActive /\ c.mActive = TRUE
      BY <1>4, <2>2, <3>1 DEF Assembling
    <3> HIDE DEF c, buckets
    <3> QED BY <2>1, <3>1, <3>2, <3>3 DEF BucketOK
  <2>3. CASE t \notin due
    BY <2>1, <2>3
  <2> QED BY <2>2, <2>3
<1>6. buckets = [t \in 0..(Slots - 1) |-> buckets[t]]
  OBVIOUS
<1> HIDE DEF buckets
<1>7. /\ NumbersOK(r2)
      /\ r2.mpBuckets = buckets /\ r2.mBucketMap = r.mBucketMap
  BY <1>2, WithRingOK
<1> HIDE DEF r2
<1>8. RingOK(r2)
  BY <1>5, <1>6, <1>7 DEF RingOK
<1>9. MapOK(r2)
  BY <1>5, <1>7 DEF RxInv, MapOK
<1>10. RxInv(r2)
  BY <1>7, <1>8, <1>9 DEF RxInv
<1> QED BY <1>1, <1>3, <1>10

LEMMA DeliverFramesOK ==
    ASSUME NEW r, RxInv(r)
    PROVE  RxInv(deliverFrames(r))
<1> DEFINE ready == ReadyOrders(r)
           slots == {r.mBucketMap[o] : o \in ready}
           buckets == [t \in 0..(Slots - 1) |->
                         IF t \in slots THEN Closed(r.mpBuckets[t])
                         ELSE r.mpBuckets[t]]
           map == [o \in (DOMAIN r.mBucketMap) \ ready |-> r.mBucketMap[o]]
           x == [r EXCEPT !.mpBuckets = buckets]
           y == [x EXCEPT !.mBucketMap = map]
           r2 == WithRing(r, buckets, map, r.mStreams)
<1>1. deliverFrames(r) = y
  BY DEF deliverFrames
<1>2. NumbersOK(r)
  BY DEF RxInv
<1>3. y = r2
  <2> HIDE DEF buckets, map
  <2>1. x = WithRing(r, buckets, r.mBucketMap, r.mStreams)
    BY ONLY <1>2, ExceptBuckets
  <2> HIDE DEF x
  <2> QED BY ONLY <2>1, ExceptMap
<1>4. ready \subseteq DOMAIN r.mBucketMap
  BY DEF ReadyOrders
<1> HIDE DEF ready, y
<1>5. ASSUME NEW o \in DOMAIN r.mBucketMap
      PROVE  o \in ready <=> r.mBucketMap[o] \in slots
  <2>1. ASSUME NEW q \in ready, r.mBucketMap[o] = r.mBucketMap[q]
        PROVE  o = q
    BY <1>4, <2>1, EntryBucket
  <2> QED BY <2>1
<1> HIDE DEF slots
<1>6. buckets = [t \in 0..(Slots - 1) |-> buckets[t]]
  OBVIOUS
<1>7. ASSUME NEW t \in slots, t \in 0..(Slots - 1)
      PROVE  /\ buckets[t].mActive = FALSE
             /\ buckets[t].mDeliveryOrder = r.mpBuckets[t].mDeliveryOrder
  BY <1>7 DEF Closed
<1>8. ASSUME NEW t \in 0..(Slots - 1), t \notin slots
      PROVE  buckets[t] = r.mpBuckets[t]
  BY <1>8
<1>9. /\ DOMAIN map = (DOMAIN r.mBucketMap) \ ready
      /\ map = [o \in DOMAIN map |-> map[o]]
      /\ \A o \in DOMAIN map : map[o] = r.mBucketMap[o]
  OBVIOUS
<1> HIDE DEF buckets, map
<1>10. /\ NumbersOK(r2) /\ r2.mpBuckets = buckets /\ r2.mBucketMap = map
  BY <1>2, WithRingOK
<1> HIDE DEF r2
<1>11. RingOK(r2)
  <2>1. ASSUME NEW t \in 0..(Slots - 1)
        PROVE  BucketOK(buckets[t], t)
    <3>1. BucketOK(r.mpBuckets[t], t)
      BY DEF RxInv, RingOK
    <3>2. CASE t \in slots
      BY <1>7, <3>1, <3>2 DEF BucketOK
    <3>3. CASE t \notin slots
      BY <1>8, <3>1, <3>3
    <3> QED BY <3>2, <3>3
  <2> QED BY <1>6, <1>10, <2>1 DEF RingOK
<1>12. MapOK(r2)
  <2>1. ASSUME NEW o \in DOMAIN map
        PROVE  /\ o \in Int
               /\ map[o] \in 0..(Slots - 1)
               /\ buckets[map[o]].mActive
               /\ buckets[map[o]].mDeliveryOrder = o
    <3>1. o \in DOMAIN r.mBucketMap /\ o \notin ready /\ map[o] = r.mBucketMap[o]
      BY <1>9
    <3>2. map[o] \notin slots
      BY <1>5, <3>1
    <3>3. o \in Int
      BY <3>1 DEF RxInv, MapOK
    <3>4. map[o] \in 0..(Slots - 1)
      BY <3>1, EntryBucket
    <3> QED BY <1>8, <3>1, <3>2, <3>3, <3>4, EntryBucket
  <2>2. ASSUME NEW t \in 0..(Slots - 1), buckets[t].mActive
        PROVE  /\ buckets[t].mDeliveryOrder \in DOMAIN map
               /\ map[buckets[t].mDeliveryOrder] = t
    <3>1. t \notin slots
      BY <1>7, <2>2
    <3>2. buckets[t] = r.mpBuckets[t]
      BY <1>8, <3>1
    <3>3. /\ buckets[t].mDeliveryOrder \in DOMAIN r.mBucketMap
          /\ r.mBucketMap[buckets[t].mDeliveryOrder] = t
      BY <2>2, <3>2 DEF RxInv, MapOK
    <3> QED BY <1>5, <1>9, <3>1, <3>3
  <2> QED BY <1>9, <1>10, <2>1, <2>2 DEF MapOK
<1>13. RxInv(r2)
  BY <1>10, <1>11, <1>12 DEF RxInv
<1> QED BY <1>1, <1>3, <1>13

------------------------------------------------------------------------------
(***************************************************************************)
(* The steps.                                                              *)
(***************************************************************************)
LEMMA InitIInv == Init => IInv
<1> SUFFICES ASSUME Init PROVE IInv
  OBVIOUS
<1>1. /\ mMode \in {"THREADED", "RUN_TO_COMPLETION"}
      /\ now \in Nat /\ returning \in Nat
  BY ReceiverAssumption DEF Init
<1>2. BundleOK
  <2>1. /\ bundle = [frames |-> <<>>, aSourceId |-> NoOrder]
        /\ bundle = NoBundle
    BY DEF Init, NoBundle
  <2>2. <<>> \in Seq(InnerFrames)
    OBVIOUS
  <2>3. bundle.frames = <<>> /\ bundle.aSourceId = NoOrder
    BY <2>1
  <2> QED BY <2>1, <2>2, <2>3 DEF BundleOK
<1>3. /\ rx = [mpBuckets |-> rx.mpBuckets, mBucketMap |-> rx.mBucketMap,
               mStreams |-> rx.mStreams, mOldFrameNo |-> rx.mOldFrameNo,
               mFrameNoRecalc |-> rx.mFrameNoRecalc,
               mFirstFrame |-> rx.mFirstFrame]
      /\ rx.mpBuckets = [s \in 0..(Slots - 1) |-> Unused]
      /\ rx.mBucketMap = [o \in {} |-> 0]
      /\ rx.mOldFrameNo = 0 /\ rx.mFrameNoRecalc = 0 /\ rx.mFirstFrame = TRUE
  BY DEF Init
<1>4. NumbersOK(rx)
  <2>1. 0 \in 0..(SeqSpace - 1)
    BY SeqFacts
  <2>2. rx.mOldFrameNo = 0 /\ rx.mFrameNoRecalc = 0 /\ rx.mFirstFrame = TRUE
    BY ONLY <1>3
  <2>3. rx = [mpBuckets |-> rx.mpBuckets, mBucketMap |-> rx.mBucketMap,
              mStreams |-> rx.mStreams, mOldFrameNo |-> rx.mOldFrameNo,
              mFrameNoRecalc |-> rx.mFrameNoRecalc,
              mFirstFrame |-> rx.mFirstFrame]
    BY ONLY <1>3
  <2>4. /\ rx.mFirstFrame \in BOOLEAN
        /\ ~rx.mFirstFrame => rx.mFrameNoRecalc % SeqSpace = rx.mOldFrameNo
    BY ONLY <2>2, Zenon
  <2>5. rx.mOldFrameNo \in 0..(SeqSpace - 1) /\ rx.mFrameNoRecalc \in Int
    BY ONLY <2>1, <2>2
  <2> QED BY ONLY <2>3, <2>4, <2>5 DEF NumbersOK
<1>5. RingOK(rx)
  <2>1. \A s \in 0..(Slots - 1) : BucketOK(Unused, s)
    BY DEF BucketOK, Unused
  <2> QED BY ONLY <1>3, <2>1 DEF RingOK
<1>6. MapOK(rx)
  BY <1>3 DEF MapOK, Unused
<1> QED BY <1>1, <1>2, <1>4, <1>5, <1>6 DEF IInv, RxInv

\* What every action that runs a handler preserves.
LEMMA HandlerReturnsOK ==
    ASSUME returning \in Nat, NEW r, RxInv(r), HandlerReturns(r)
    PROVE  RxInv(rx') /\ returning' \in Nat
  BY DEF HandlerReturns

LEMMA ProcessTimeoutsOK ==
    ASSUME RxInv(rx), processTimeouts(rx)
    PROVE  RxInv(rx')
<1>1. PICK base \in BaseDelays : rx' = deliverFrames(processNacks(rx, base))
  BY DEF processTimeouts
<1> QED BY <1>1, ProcessNacksOK, DeliverFramesOK

LEMMA BundleStepOK ==
    ASSUME IInv, NEW memory, BundleStep(memory)
    PROVE  IInv'
<1> DEFINE round == BundleRound(bundle, rx, memory)
           p == Head(bundle.frames)
           h == handleType1(rx, p, bundle.aSourceId, memory)
<1>1. /\ bundle.frames \in Seq(InnerFrames) /\ bundle.frames # <<>>
      /\ RxInv(rx)
  BY DEF IInv, BundleOK, BundleStep, Unlocked
<1>2. FragmentHeader(p)
  <2>1. p \in InnerFrames
    BY <1>1
  <2> QED BY <2>1, PacketAssumption
<1>3. RxInv(round.rx)
  <2>1. CASE p.mFrameType = 1
    <3>1. round.rx = h.rx
      BY <2>1 DEF BundleRound
    <3> QED BY <1>1, <1>2, <2>1, <3>1, HandleType1OK
  <2>2. CASE p.mFrameType # 1
    <3>1. round.rx = rx
      BY <2>2 DEF BundleRound, Refused
    <3> QED BY <1>1, <3>1
  <2> QED BY <2>1, <2>2
<1>4. round.rest \in Seq(InnerFrames)
  <2>1. round.rest = Tail(bundle.frames) \/ round.rest = <<>>
    BY DEF BundleRound
  <2>2. Tail(bundle.frames) \in Seq(InnerFrames) /\ <<>> \in Seq(InnerFrames)
    BY <1>1
  <2> QED BY <2>1, <2>2
<1> HIDE DEF round, p, h
<1>5. /\ mMode' \in {"THREADED", "RUN_TO_COMPLETION"} /\ now' \in Nat
  BY DEF IInv, BundleStep
<1>6. CASE round.rest = <<>>
  <2>1. bundle' = NoBundle /\ HandlerReturns(round.rx)
    BY <1>6 DEF BundleStep, round
  <2>2. RxInv(rx') /\ returning' \in Nat
    BY <1>3, <2>1, HandlerReturnsOK DEF IInv
  <2>3. BundleOK'
    <3>1. <<>> \in Seq(InnerFrames)
      OBVIOUS
    <3>2. /\ bundle' = [frames |-> bundle'.frames,
                        aSourceId |-> bundle'.aSourceId]
          /\ bundle'.frames = <<>> /\ bundle' = NoBundle
      BY <2>1 DEF NoBundle
    <3> QED BY <3>1, <3>2 DEF BundleOK, NoBundle
  <2> QED BY <1>5, <2>2, <2>3 DEF IInv
<1>7. CASE round.rest # <<>>
  <2>1. /\ bundle' = [bundle EXCEPT !.frames = round.rest]
        /\ rx' = round.rx /\ returning' = returning
    BY <1>7 DEF BundleStep, round
  <2>2. BundleOK'
    <3>1. /\ bundle' = [frames |-> bundle'.frames,
                        aSourceId |-> bundle'.aSourceId]
          /\ bundle'.frames = round.rest
      BY <2>1 DEF IInv, BundleOK
    <3> QED BY <1>4, <1>7, <3>1 DEF BundleOK
  <2> QED BY <1>3, <1>5, <2>1, <2>2 DEF IInv
<1> QED BY <1>6, <1>7

LEMMA NextIInv == IInv /\ [Next]_vars => IInv'
<1> SUFFICES ASSUME IInv, [Next]_vars PROVE IInv'
  OBVIOUS
<1>0. /\ mMode \in {"THREADED", "RUN_TO_COMPLETION"}
      /\ now \in Nat /\ returning \in Nat /\ BundleOK /\ RxInv(rx)
  BY DEF IInv
<1>1. ASSUME NEW p \in Packets, NEW aSourceId \in Sources, NEW memory,
             ReceiveFragment(p, aSourceId, memory)
      PROVE  IInv'
  <2>1. FragmentHeader(p)
    BY <1>1, PacketAssumption DEF ReceiveFragment
  <2>2. RxInv(Handle(rx, p, aSourceId, memory).rx)
    BY <1>0, <2>1, HandleOK
  <2>3. HandlerReturns(Handle(rx, p, aSourceId, memory).rx)
    BY <1>1 DEF ReceiveFragment
  <2>4. RxInv(rx') /\ returning' \in Nat
    BY <1>0, <2>2, <2>3, HandlerReturnsOK
  <2>5. UNCHANGED <<mMode, now, bundle>>
    BY <1>1 DEF ReceiveFragment
  <2> QED BY <1>0, <2>4, <2>5 DEF IInv, BundleOK
<1>2. ASSUME NEW p \in Packets, ReceiveSignal(p)
      PROVE  IInv'
  <2>1. RxInv(rx') /\ returning' \in Nat
    BY <1>0, <1>2, HandlerReturnsOK DEF ReceiveSignal
  <2>2. UNCHANGED <<mMode, now, bundle>>
    BY <1>2 DEF ReceiveSignal
  <2> QED BY <1>0, <2>1, <2>2 DEF IInv, BundleOK
<1>3. ASSUME NEW p \in Packets, NEW aSourceId \in Sources,
             ReceiveBundle(p, aSourceId)
      PROVE  IInv'
  <2>1. UNCHANGED <<mMode, now>>
    BY <1>3 DEF ReceiveBundle
  <2>2. CASE p.frames = <<>>
    <3>1. HandlerReturns(rx) /\ UNCHANGED bundle
      BY <1>3, <2>2 DEF ReceiveBundle
    <3>2. RxInv(rx') /\ returning' \in Nat
      BY <1>0, <3>1, HandlerReturnsOK
    <3> QED BY <1>0, <2>1, <3>1, <3>2 DEF IInv, BundleOK
  <2>3. CASE p.frames # <<>>
    <3>1. /\ bundle' = [frames |-> p.frames, aSourceId |-> aSourceId]
          /\ UNCHANGED <<rx, returning>>
      BY <1>3, <2>3 DEF ReceiveBundle
    <3>2. p.frames \in Seq(InnerFrames)
      BY <1>3, PacketAssumption DEF ReceiveBundle
    <3>3. BundleOK'
      <4>1. /\ bundle'.frames = p.frames /\ bundle'.aSourceId = aSourceId
            /\ bundle' = [frames |-> bundle'.frames,
                          aSourceId |-> bundle'.aSourceId]
        BY <3>1
      <4> QED BY <2>3, <3>2, <4>1 DEF BundleOK
    <3> QED BY <1>0, <2>1, <3>1, <3>3 DEF IInv
  <2> QED BY <2>2, <2>3
<1>4. ASSUME NEW memory, BundleStep(memory)
      PROVE  IInv'
  BY <1>4, BundleStepOK
<1>5. ASSUME FinishReceive PROVE IInv'
  <2>1. RxInv(rx')
    BY <1>0, <1>5, ProcessTimeoutsOK DEF FinishReceive
  <2>2. returning' \in Nat
    BY <1>0, <1>5 DEF FinishReceive
  <2>3. UNCHANGED <<mMode, now, bundle>>
    BY <1>5 DEF FinishReceive
  <2> QED BY <1>0, <2>1, <2>2, <2>3 DEF IInv, BundleOK
<1>6. ASSUME Poll \/ Worker PROVE IInv'
  <2>1. RxInv(rx')
    BY <1>0, <1>6, ProcessTimeoutsOK DEF Poll, Worker
  <2>2. UNCHANGED <<mMode, now, bundle, returning>>
    BY <1>6 DEF Poll, Worker
  <2> QED BY <1>0, <2>1, <2>2 DEF IInv, BundleOK
<1>7. ASSUME Delivery PROVE IInv'
  <2>1. UNCHANGED <<mMode, now, rx, bundle, returning>>
    BY <1>7 DEF Delivery
  <2> QED BY <1>0, <2>1 DEF IInv, BundleOK
<1>8. ASSUME Tick PROVE IInv'
  <2>1. now' \in Nat /\ UNCHANGED <<mMode, rx, bundle, returning>>
    BY <1>0, <1>8 DEF Tick
  <2> QED BY <1>0, <2>1 DEF IInv, BundleOK
<1>9. ASSUME UNCHANGED vars PROVE IInv'
  <2>1. UNCHANGED <<mMode, now, rx, bundle, returning>>
    BY <1>9 DEF vars
  <2> QED BY <1>0, <2>1 DEF IInv, BundleOK
<1> QED BY <1>1, <1>2, <1>3, <1>4, <1>5, <1>6, <1>7, <1>8, <1>9
        DEF Next, Receive, Internal

------------------------------------------------------------------------------
(***************************************************************************)
(* What a refused packet leaves behind.                                    *)
(***************************************************************************)
Kept(r, h) ==
    h.result \in {"OK", "MEMORY_ALLOCATION_ERROR"}
      \/ /\ h.rx.mpBuckets = r.mpBuckets
         /\ h.rx.mBucketMap = r.mBucketMap

LEMMA RefusedKept ==
    ASSUME NEW r, NEW result
    PROVE  Kept(r, Refused(r, result))
  BY DEF Kept, Refused

LEMMA StoredKept ==
    ASSUME NEW r, NEW s, NEW b
    PROVE  Kept(r, Stored(r, s, b))
  BY DEF Kept, Stored

\* A first fragment that is refused has changed the unwrapped number only.
LEMMA OpenBucketKept ==
    ASSUME NEW r, RxInv(r), NEW p, FragmentHeader(p), NEW aSourceId,
           NEW f, NEW memory
    PROVE  Kept(r, OpenBucket(r, p, aSourceId, f, memory))
<1> DEFINE h == OpenBucket(r, p, aSourceId, f, memory)
           r1 == recalculateSuperFrameNo(r, p.mSuperFrameNo)
<1>1. r1.mpBuckets = r.mpBuckets /\ r1.mBucketMap = r.mBucketMap
  <2>1. NumbersOK(r) /\ p.mSuperFrameNo \in 0..(SeqSpace - 1)
    BY DEF RxInv, FragmentHeader
  <2> QED BY <2>1, RecalcOK
<1>2. \/ h.rx = r1
      \/ h.result = "MEMORY_ALLOCATION_ERROR"
      \/ h.result = "OK"
  BY DEF OpenBucket
<1> HIDE DEF h, r1
<1>3. Kept(r, h)
  BY <1>1, <1>2 DEF Kept
<1> QED BY <1>3 DEF h

LEMMA HandleKept ==
    ASSUME NEW r, RxInv(r), NEW p, FragmentHeader(p), NEW aSourceId,
           NEW memory
    PROVE  Kept(r, Handle(r, p, aSourceId, memory))
<1> DEFINE s == Slot(p.mSuperFrameNo)
           b == r.mpBuckets[s]
           h == Handle(r, p, aSourceId, memory)
<1>1. p.mFrameType = 1 \/ p.mFrameType = 2 \/ p.mFrameType = 3
  BY DEF FragmentHeader
<1>2. CASE p.mFrameType = 1
  <2>1. \/ \E result : h = Refused(r, result)
        \/ h = OpenBucket(r, p, aSourceId, First1(r, p), memory)
        \/ h = Stored(r, s, Store1(b, p))
    BY <1>2 DEF Handle, handleType1
  <2> HIDE DEF h
  <2>2. Kept(r, h)
    BY <2>1, RefusedKept, StoredKept, OpenBucketKept
  <2> QED BY <2>2 DEF h
<1>3. CASE p.mFrameType = 2
  <2> DEFINE stored == [Stored(r, s, Store2(b, p)) EXCEPT
                          !.rx.mStreams[p.mStreamId] = p.mPayload]
  <2>1. \/ \E result : h = Refused(r, result)
        \/ h = OpenBucket(r, p, aSourceId, First2(p), memory)
        \/ h = stored
    BY <1>3 DEF Handle, handleType2
  <2>2. stored.result = "OK"
    BY DEF Stored
  <2> HIDE DEF h, stored
  <2>3. Kept(r, stored)
    BY <2>2 DEF Kept
  <2>4. Kept(r, h)
    BY <2>1, <2>3, RefusedKept, OpenBucketKept
  <2> QED BY <2>4 DEF h
<1>4. CASE p.mFrameType = 3
  <2>1. \/ \E result : h = Refused(r, result)
        \/ h = OpenBucket(r, p, aSourceId, First3(r, p), memory)
        \/ h = Stored(r, s, Store3(b, p))
    BY <1>4 DEF Handle, handleType3
  <2> HIDE DEF h
  <2>2. Kept(r, h)
    BY <2>1, RefusedKept, StoredKept, OpenBucketKept
  <2> QED BY <2>2 DEF h
<1> QED BY <1>1, <1>2, <1>3, <1>4

------------------------------------------------------------------------------
(***************************************************************************)
(* The frames one pass of processTimeouts hands over.                      *)
(***************************************************************************)
LEMMA SortedOK ==
    ASSUME NEW S \in SUBSET Int, IsFiniteSet(S)
    PROVE  /\ IsSeq(Sorted(S))
           /\ Len(Sorted(S)) \in Nat
           /\ \A i \in 1..Len(Sorted(S)) : Sorted(S)[i] \in S
           /\ \A i, j \in 1..Len(Sorted(S)) : i < j => Sorted(S)[i] < Sorted(S)[j]
<1> DEFINE n == Cardinality(S)
           Up(s) == \A i, j \in 1..n : i < j => s[i] < s[j]
           t == Sorted(S)
<1>1. n \in Nat /\ \E s \in [1..n -> S] : Up(s)
  BY IncreasingExists
<1>2. t = CHOOSE s \in [1..n -> S] : Up(s)
  BY DEF Sorted
<1>3. t \in [1..n -> S] /\ Up(t)
  <2> HIDE DEF t, Up, n
  <2> QED BY <1>1, <1>2
<1> HIDE DEF t, n
<1>4. IsSeq(t) /\ Len(t) = n
  BY <1>1, <1>3, FunctionIsSeq
<1>5. IsSeq(t) /\ Len(t) \in Nat /\ Len(t) = n
  BY <1>1, <1>4
<1> QED BY <1>3, <1>5 DEF t

LEMMA ReadyOrdersFinite ==
    ASSUME NEW r, RxInv(r)
    PROVE  ReadyOrders(r) \in SUBSET Int /\ IsFiniteSet(ReadyOrders(r))
<1> DEFINE m == r.mBucketMap
<1>1. \A o \in DOMAIN m : o \in Int /\ m[o] \in 0..(Slots - 1)
  BY DEF RxInv, MapOK
<1>2. m \in [DOMAIN m -> 0..(Slots - 1)]
  BY <1>1 DEF RxInv, MapOK
<1>3. ASSUME NEW o \in DOMAIN m, NEW q \in DOMAIN m, m[o] = m[q]
      PROVE  o = q
  BY <1>3, EntryBucket
<1>4. m \in Injection(DOMAIN m, 0..(Slots - 1))
  <2> HIDE DEF m
  <2> QED BY <1>2, <1>3 DEF Injection, IsInjective
<1>5. IsFiniteSet(0..(Slots - 1))
  BY SeqFacts, FS_Interval
<1>6. IsFiniteSet(DOMAIN m)
  <2> HIDE DEF m
  <2> QED BY <1>4, <1>5, FS_Injection
<1>7. ReadyOrders(r) \in SUBSET (DOMAIN m)
  BY DEF ReadyOrders
<1> QED BY <1>1, <1>6, <1>7, FS_Subset

\* They are frames of ready buckets, in the order of their unwrapped numbers.
LEMMA FramesOutOK ==
    ASSUME NEW r, RxInv(r)
    PROVE  LET out == FramesOut(r)
           IN  /\ IsSeq(out)
               /\ \A i \in 1..Len(out) :
                    \E o \in ReadyOrders(r) :
                      out[i] = FrameOf(r.mpBuckets[r.mBucketMap[o]])
               /\ \A i, j \in 1..Len(out) :
                    i < j => out[i].mDeliveryOrder < out[j].mDeliveryOrder
<1> DEFINE ready == ReadyOrders(r)
           orders == Sorted(ready)
           n == Len(orders)
           out == FramesOut(r)
           Frame(o) == FrameOf(r.mpBuckets[r.mBucketMap[o]])
<1>1. /\ n \in Nat
      /\ \A i \in 1..n : orders[i] \in ready
      /\ \A i, j \in 1..n : i < j => orders[i] < orders[j]
  BY ReadyOrdersFinite, SortedOK
<1>2. out = [i \in 1..n |-> Frame(orders[i])]
  BY DEF FramesOut
<1>3. ASSUME NEW o \in ready
      PROVE  Frame(o).mDeliveryOrder = o
  <2>1. r.mpBuckets[r.mBucketMap[o]].mDeliveryOrder = o
    BY EntryBucket DEF ReadyOrders
  <2> QED BY <2>1 DEF FrameOf
<1> HIDE DEF out, orders, n, ready, Frame
<1>4. out = [i \in 1..n |-> out[i]] /\ \A i \in 1..n : out[i] = Frame(orders[i])
  BY <1>2
<1>5. IsSeq(out) /\ Len(out) = n
  BY ONLY <1>1, <1>4, FunctionIsSeq
<1>6. \A i \in 1..n : \E o \in ready : out[i] = Frame(o)
  BY <1>1, <1>4
<1>7. \A i, j \in 1..n : i < j => out[i].mDeliveryOrder < out[j].mDeliveryOrder
  BY <1>1, <1>3, <1>4
<1> QED BY <1>5, <1>6, <1>7 DEF out, ready, Frame

\* What is still active after a pass was not ready, and is as it was.
LEMMA LeftActive ==
    ASSUME NEW r, RxInv(r), NEW s \in 0..(Slots - 1),
           deliverFrames(r).mpBuckets[s].mActive
    PROVE  /\ deliverFrames(r).mpBuckets[s] = r.mpBuckets[s]
           /\ ~Ready(r.mpBuckets[s])
<1> DEFINE slots == {r.mBucketMap[o] : o \in ReadyOrders(r)}
           o == r.mpBuckets[s].mDeliveryOrder
<1>1. deliverFrames(r).mpBuckets[s]
        = IF s \in slots THEN Closed(r.mpBuckets[s]) ELSE r.mpBuckets[s]
  <2>1. NumbersOK(r)
    BY DEF RxInv
  <2>2. deliverFrames(r).mpBuckets
          = [t \in 0..(Slots - 1) |->
               IF t \in slots THEN Closed(r.mpBuckets[t]) ELSE r.mpBuckets[t]]
    BY <2>1 DEF deliverFrames, NumbersOK
  <2> QED BY <2>2
<1>2. s \notin slots
  BY <1>1 DEF Closed
<1>3. deliverFrames(r).mpBuckets[s] = r.mpBuckets[s]
  BY <1>1, <1>2
<1>4. o \in DOMAIN r.mBucketMap /\ r.mBucketMap[o] = s
  BY <1>3 DEF RxInv, MapOK
<1>5. o \notin ReadyOrders(r)
  BY <1>2, <1>4
<1> QED BY <1>3, <1>4, <1>5 DEF ReadyOrders

------------------------------------------------------------------------------
(***************************************************************************)
(* The order of the application's log.                                     *)
(***************************************************************************)
LogInv ==
    /\ IsSeq(callbacks) /\ IsSeq(mDeliveryQueue)
    /\ mMode = "RUN_TO_COMPLETION" => mDeliveryQueue = <<>>

\* A pass appends its frames to the log.
LEMMA PassGrowsLog ==
    ASSUME mMode \in {"THREADED", "RUN_TO_COMPLETION"}, RxInv(rx), LogInv,
           processTimeouts(rx), UNCHANGED mMode
    PROVE  /\ LogInv'
           /\ \E base \in BaseDelays :
                LET r == processNacks(rx, base)
                IN  /\ RxInv(r)
                    /\ rx' = deliverFrames(r)
                    /\ nacks' = nacks \cup NacksSent(rx, base)
                    /\ Log' = Log \o FramesOut(r)
<1>1. PICK base \in BaseDelays :
        \E r1 \in {processNacks(rx, base)} :
          /\ rx' = deliverFrames(r1)
          /\ nacks' = nacks \cup NacksSent(rx, base)
          /\ IF mMode = "THREADED"
               THEN /\ mDeliveryQueue' = mDeliveryQueue \o FramesOut(r1)
                    /\ UNCHANGED callbacks
               ELSE /\ callbacks' = callbacks \o FramesOut(r1)
                    /\ UNCHANGED mDeliveryQueue
  BY DEF processTimeouts
<1> DEFINE r == processNacks(rx, base)
           out == FramesOut(r)
<1>2. /\ rx' = deliverFrames(r)
      /\ nacks' = nacks \cup NacksSent(rx, base)
      /\ IF mMode = "THREADED"
           THEN /\ mDeliveryQueue' = mDeliveryQueue \o out
                /\ UNCHANGED callbacks
           ELSE /\ callbacks' = callbacks \o out
                /\ UNCHANGED mDeliveryQueue
  BY <1>1
<1>3. RxInv(r)
  BY ProcessNacksOK
<1> HIDE DEF r
<1>4. IsSeq(out)
  BY <1>3, FramesOutOK
<1> HIDE DEF out
<1>5. IsSeq(callbacks) /\ IsSeq(mDeliveryQueue)
  BY DEF LogInv
<1>6. LogInv' /\ Log' = Log \o out
  <2>1. CASE mMode = "THREADED"
    <3>1. mDeliveryQueue' = mDeliveryQueue \o out /\ callbacks' = callbacks
      BY <1>2, <2>1
    <3>2. IsSeq(mDeliveryQueue \o out)
      BY <1>4, <1>5, ConcatFacts
    <3>3. (callbacks \o mDeliveryQueue) \o out
            = callbacks \o (mDeliveryQueue \o out)
      BY <1>4, <1>5, ConcatAssoc
    <3>4. IsSeq(callbacks') /\ IsSeq(mDeliveryQueue')
      BY <1>5, <3>1, <3>2
    <3>5. mMode' # "RUN_TO_COMPLETION"
      BY <2>1
    <3>6. LogInv'
      BY <3>4, <3>5 DEF LogInv
    <3> QED BY <3>1, <3>3, <3>6 DEF Log
  <2>2. CASE mMode # "THREADED"
    <3>1. callbacks' = callbacks \o out /\ mDeliveryQueue' = mDeliveryQueue
      BY <1>2, <2>2
    <3>2. mDeliveryQueue = <<>>
      BY <2>2 DEF LogInv
    <3>3. IsSeq(callbacks \o out)
      BY <1>4, <1>5, ConcatFacts
    <3>4. /\ (callbacks \o out) \o <<>> = callbacks \o out
          /\ callbacks \o <<>> = callbacks
      BY <1>5, <3>3, ConcatEmpty
    <3>5. IsSeq(callbacks') /\ IsSeq(mDeliveryQueue') /\ mDeliveryQueue' = <<>>
      BY <1>5, <3>1, <3>2, <3>3
    <3>6. LogInv'
      BY <3>5 DEF LogInv
    <3> QED BY <3>1, <3>2, <3>4, <3>6 DEF Log
  <2> QED BY <2>1, <2>2
<1> QED BY <1>2, <1>3, <1>6 DEF r, out

LEMMA PassAppends ==
    ASSUME IInv, LogInv, processTimeouts(rx), UNCHANGED mMode
    PROVE  /\ LogInv'
           /\ \E base \in BaseDelays :
                LET r == processNacks(rx, base)
                IN  /\ RxInv(r)
                    /\ rx' = deliverFrames(r)
                    /\ nacks' = nacks \cup NacksSent(rx, base)
                    /\ Log' = Log \o FramesOut(r)
  BY PassGrowsLog DEF IInv

\* deliveryLoop only moves a frame from the queue to the callbacks.
LEMMA DeliveryKeepsLog ==
    ASSUME LogInv, Delivery
    PROVE  LogInv' /\ Log' = Log
<1>1. /\ IsSeq(callbacks) /\ IsSeq(mDeliveryQueue) /\ mDeliveryQueue # <<>>
      /\ mDeliveryQueue' = Tail(mDeliveryQueue)
      /\ callbacks' = Append(callbacks, Head(mDeliveryQueue))
      /\ mMode' = mMode /\ mMode # "RUN_TO_COMPLETION"
  BY DEF Delivery, LogInv
<1>2. IsSeq(mDeliveryQueue') /\ IsSeq(callbacks')
  BY <1>1, TailFacts, AppendFacts
<1>3. Append(callbacks, Head(mDeliveryQueue)) \o Tail(mDeliveryQueue)
        = callbacks \o mDeliveryQueue
  BY <1>1, HeadMoves
<1> QED BY <1>1, <1>2, <1>3 DEF LogInv, Log

\* Every other step leaves the log as it is.
LEMMA LogOtherwiseKept ==
    ASSUME IInv, LogInv, [Next]_vars,
           ~(processTimeouts(rx) /\ UNCHANGED mMode)
    PROVE  LogInv' /\ Log' = Log
<1>1. CASE UNCHANGED <<mMode, mDeliveryQueue, callbacks>>
  BY <1>1 DEF LogInv, Log
<1>2. CASE Delivery
  BY <1>2, DeliveryKeepsLog
<1>3. UNCHANGED <<mMode, mDeliveryQueue, callbacks>> \/ Delivery
  <2>1. ASSUME NEW p \in Packets, NEW aSourceId \in Sources,
               Receive(p, aSourceId)
        PROVE  UNCHANGED <<mMode, mDeliveryQueue, callbacks>>
    BY <2>1 DEF Receive, ReceiveFragment, ReceiveSignal, ReceiveBundle
  <2>2. ASSUME NEW memory \in AllocOutcomes, BundleStep(memory)
        PROVE  UNCHANGED <<mMode, mDeliveryQueue, callbacks>>
    BY <2>2 DEF BundleStep
  <2>3. CASE FinishReceive \/ Poll \/ Worker
    BY <2>3 DEF FinishReceive, Poll, Worker
  <2>4. CASE Tick
    BY <2>4 DEF Tick
  <2>5. CASE UNCHANGED vars
    BY <2>5 DEF vars
  <2> QED BY <2>1, <2>2, <2>3, <2>4, <2>5 DEF Next, Internal
<1> QED BY <1>1, <1>2, <1>3

LEMMA InitLogInv == Init => LogInv
  BY EmptyIsSeq DEF Init, LogInv

LEMMA NextLogInv == IInv /\ LogInv /\ [Next]_vars => LogInv'
  BY PassAppends, LogOtherwiseKept

LEMMA StepIsOrdered ==
    ASSUME IInv, LogInv, [Next]_vars
    PROVE  /\ IsPrefix(Log, Log')
           /\ \A i, j \in (Len(Log) + 1)..Len(Log') :
                i < j => Log'[i].mDeliveryOrder < Log'[j].mDeliveryOrder
           /\ Len(Log') > Len(Log) =>
                \A s \in 0..(Slots - 1) :
                  rx'.mpBuckets[s].mActive => ~Complete(rx'.mpBuckets[s])
<1>1. IsSeq(Log)
  BY ConcatFacts DEF LogInv, Log
<1>2. Len(Log) \in Nat
  BY <1>1, LenIsNat
<1>3. CASE processTimeouts(rx) /\ UNCHANGED mMode
  <2>1. PICK base \in BaseDelays :
          LET r == processNacks(rx, base)
          IN  /\ RxInv(r)
              /\ rx' = deliverFrames(r)
              /\ nacks' = nacks \cup NacksSent(rx, base)
              /\ Log' = Log \o FramesOut(r)
    BY <1>3, PassAppends
  <2> DEFINE r == processNacks(rx, base)
             log == Log
             out == FramesOut(r)
  <2>2. RxInv(r) /\ rx' = deliverFrames(r) /\ Log' = log \o out
    BY <2>1
  <2> HIDE DEF r
  <2>3. /\ IsSeq(out)
        /\ \A i, j \in 1..Len(out) :
             i < j => out[i].mDeliveryOrder < out[j].mDeliveryOrder
    BY <2>2, FramesOutOK
  <2>4. IsSeq(log) /\ Len(log) \in Nat
    BY <1>1, <1>2
  <2> HIDE DEF out, log
  <2>5. Len(out) \in Nat
    BY <2>3, LenIsNat
  <2>6. /\ IsSeq(log \o out)
        /\ Len(log \o out) = Len(log) + Len(out)
        /\ \A i \in 1..Len(log) : (log \o out)[i] = log[i]
        /\ \A i \in 1..Len(out) : (log \o out)[Len(log) + i] = out[i]
    BY <2>3, <2>4, ConcatFacts
  <2>7. IsPrefix(log, log \o out)
    <3> DEFINE a == SubSeq(log, 1, Len(log))
               b == SubSeq(log \o out, 1, Len(log))
               n == Len(log)
    <3>1. n \in 0..Len(log) /\ n \in 0..Len(log \o out)
      BY <2>4, <2>5, <2>6
    <3>2. /\ IsSeq(a) /\ Len(a) = n
          /\ \A i \in 1..n : a[i] = log[i]
      BY <2>4, <3>1, PrefixFacts
    <3>3. /\ IsSeq(b) /\ Len(b) = n
          /\ \A i \in 1..n : b[i] = (log \o out)[i]
      BY <2>6, <3>1, PrefixFacts
    <3> HIDE DEF a, b
    <3>4. a = b
      BY <2>6, <3>2, <3>3, SameSeq
    <3> QED BY <2>4, <2>5, <2>6, <3>4 DEF IsPrefix, a, b
  <2>8. ASSUME NEW i \in (Len(log) + 1)..Len(log \o out),
               NEW j \in (Len(log) + 1)..Len(log \o out), i < j
        PROVE  (log \o out)[i].mDeliveryOrder < (log \o out)[j].mDeliveryOrder
    <3> DEFINE x == i - Len(log)
               y == j - Len(log)
    <3>1. /\ x \in 1..Len(out) /\ y \in 1..Len(out) /\ x < y
          /\ i = Len(log) + x /\ j = Len(log) + y
      BY <2>4, <2>5, <2>6, <2>8
    <3> HIDE DEF x, y
    <3>2. (log \o out)[i] = out[x] /\ (log \o out)[j] = out[y]
      BY <2>6, <3>1
    <3> QED BY <2>3, <3>1, <3>2
  <2>9. ASSUME NEW s \in 0..(Slots - 1), rx'.mpBuckets[s].mActive
        PROVE  ~Complete(rx'.mpBuckets[s])
    BY <2>2, <2>9, LeftActive DEF Ready
  <2> QED BY <2>2, <2>7, <2>8, <2>9 DEF log
<1>4. CASE ~(processTimeouts(rx) /\ UNCHANGED mMode)
  <2>1. Log' = Log
    BY <1>4, LogOtherwiseKept
  <2>2. IsPrefix(Log, Log)
    BY <1>2 DEF IsPrefix
  <2>3. (Len(Log) + 1)..Len(Log) = {}
    BY <1>2
  <2>4. ~(Len(Log) > Len(Log))
    BY <1>2
  <2> QED BY <2>1, <2>2, <2>3, <2>4
<1> QED BY <1>3, <1>4

------------------------------------------------------------------------------
(***************************************************************************)
(* The clock of a bucket and the NACKs sent for it.                        *)
(***************************************************************************)
Missing(b) == (0..b.mOfFragmentNo) \ b.mReceivedFragments

\* One of the NACKs names each of the missing fragments.
Asked(missing, aFrameNo, asked) ==
    \A k \in missing :
      \E n \in asked :
        /\ n.mSuperFrameNo = aFrameNo
        /\ \E j \in 1..Len(n.entries) : k \in EntryFragments(n.entries[j])

\* Whatever is missing of a frame of so many fragments, one NACK can name it.
Fits(of) ==
    \A received \in SUBSET (0..of) :
      Len(AllRanges(received, of)) <= MaxEntries

Fragments == {p \in Packets : p.mFrameType \in {1, 2, 3}} \cup InnerFrames

\* NACKs are on, no frame is cut short by the head-of-line timeout, and one
\* NACK has room for all that may be missing of a frame.
NacksSuffice ==
    /\ MaxNackRetries > 0
    /\ HolTimeout = 0
    /\ \A p \in Fragments : Fits(p.mOfFragmentNo)

\* That many fragments always fit.
LEMMA SmallFramesFit ==
    ASSUME NEW of \in Nat, of < MaxEntries
    PROVE  Fits(of)
<1> SUFFICES ASSUME NEW received \in SUBSET (0..of)
             PROVE  Len(AllRanges(received, of)) <= MaxEntries
  BY DEF Fits
<1>1. Len(AllRanges(received, of)) <= of + 1
  BY RangesFit
<1>2. Len(AllRanges(received, of)) \in Nat
  BY AllRangesOK, LenIsNat DEF RangesOK
<1> QED BY <1>1, <1>2, RangeAssumption

\* A bucket that sent a NACK has asked for all it still misses.
Timed(b, time, asked) ==
    /\ b.mTimeoutUs \in Int
    /\ b.mFirstArrivalUs \in Int /\ b.mFirstArrivalUs <= time
    /\ b.mLastNackUs \in Int /\ b.mLastNackUs <= time
    /\ b.mNackCount \in Nat
    /\ Fits(b.mOfFragmentNo)
    /\ b.mNackCount > 0 => Asked(Missing(b), b.mSavedFrameNo, asked)

RingTimed(r, time, asked) ==
    \A s \in 0..(Slots - 1) :
      r.mpBuckets[s].mActive => Timed(r.mpBuckets[s], time, asked)

LogAsked(log, asked) ==
    \A i \in 1..Len(log) : Asked(log[i].missing, log[i].mSuperFrameNo, asked)

NackInv == RingTimed(rx, now, nacks) /\ LogAsked(Log, nacks)

\* What a handler makes of a bucket: nothing, an inactive one, one just
\* opened, or one with a fragment more and its clock unchanged.
JustOpened(p, c) ==
    /\ c.mTimeoutUs = now + Timeout /\ c.mFirstArrivalUs = now
    /\ c.mLastNackUs = 0 /\ c.mNackCount = 0
    /\ c.mOfFragmentNo = p.mOfFragmentNo

Grown(b, c) ==
    /\ b.mActive
    /\ c.mTimeoutUs = b.mTimeoutUs /\ c.mFirstArrivalUs = b.mFirstArrivalUs
    /\ c.mLastNackUs = b.mLastNackUs /\ c.mNackCount = b.mNackCount
    /\ c.mOfFragmentNo = b.mOfFragmentNo
    /\ c.mSavedFrameNo = b.mSavedFrameNo
    /\ b.mReceivedFragments \subseteq c.mReceivedFragments

Shaped(p, b, c) == c = b \/ ~c.mActive \/ JustOpened(p, c) \/ Grown(b, c)

ShapedRing(p, r, r2) ==
    \A s \in 0..(Slots - 1) : Shaped(p, r.mpBuckets[s], r2.mpBuckets[s])

LEMMA StoresGrow ==
    ASSUME NEW b, Assembling(b), NEW p
    PROVE  Grown(b, Store1(b, p)) /\ Grown(b, Store2(b, p))
           /\ Grown(b, Store3(b, p))
<1>1. b = [f \in BucketFields |-> b[f]] /\ b.mActive
  BY DEF Assembling
<1>2. Grown(b, Store1(b, p))
  BY <1>1 DEF Grown, Store1, BucketFields
<1>3. Grown(b, Store2(b, p))
  BY <1>1 DEF Grown, Store2, BucketFields
<1>4. Grown(b, Store3(b, p))
  BY <1>1 DEF Grown, Store3, BucketFields
<1> QED BY <1>2, <1>3, <1>4

LEMMA OpenBucketShape ==
    ASSUME NEW r, RxInv(r), NEW p, FragmentHeader(p), NEW aSourceId,
           NEW f, NEW memory
    PROVE  ShapedRing(p, r, OpenBucket(r, p, aSourceId, f, memory).rx)
<1> DEFINE h == OpenBucket(r, p, aSourceId, f, memory)
           r1 == recalculateSuperFrameNo(r, p.mSuperFrameNo)
           s == Slot(p.mSuperFrameNo)
           order == r1.mFrameNoRecalc
           none == [mActive |-> FALSE, mDeliveryOrder |-> order]
           new == Opened(p, aSourceId, order, f)
<1>1. r1.mpBuckets = r.mpBuckets /\ NumbersOK(r1)
  <2>1. NumbersOK(r) /\ p.mSuperFrameNo \in 0..(SeqSpace - 1)
    BY DEF RxInv, FragmentHeader
  <2> QED BY <2>1, RecalcOK
<1>2. r.mpBuckets = [t \in 0..(Slots - 1) |-> r.mpBuckets[t]]
  BY DEF RxInv, RingOK
<1>3. \/ h.rx.mpBuckets = r.mpBuckets
      \/ h.rx.mpBuckets = [r.mpBuckets EXCEPT ![s] = none]
      \/ h.rx.mpBuckets = [r.mpBuckets EXCEPT ![s] = new]
  BY <1>1 DEF OpenBucket, NumbersOK
<1>4. ~none.mActive
  OBVIOUS
<1>5. JustOpened(p, new)
  BY DEF JustOpened, Opened
<1> HIDE DEF h, none, new, s
<1> SUFFICES ASSUME NEW t \in 0..(Slots - 1)
             PROVE  Shaped(p, r.mpBuckets[t], h.rx.mpBuckets[t])
  BY DEF ShapedRing, h
<1>6. \/ h.rx.mpBuckets[t] = r.mpBuckets[t]
      \/ h.rx.mpBuckets[t] = none
      \/ h.rx.mpBuckets[t] = new
  BY <1>2, <1>3
<1> QED BY <1>4, <1>5, <1>6 DEF Shaped

LEMMA StoredShape ==
    ASSUME NEW r, RxInv(r), NEW p, NEW s \in 0..(Slots - 1), NEW c,
           Grown(r.mpBuckets[s], c), NEW r2,
           r2.mpBuckets = [r.mpBuckets EXCEPT ![s] = c]
    PROVE  ShapedRing(p, r, r2)
<1> SUFFICES ASSUME NEW t \in 0..(Slots - 1)
             PROVE  Shaped(p, r.mpBuckets[t], r2.mpBuckets[t])
  BY DEF ShapedRing
<1>1. r.mpBuckets = [u \in 0..(Slots - 1) |-> r.mpBuckets[u]]
  BY DEF RxInv, RingOK
<1>2. t = s => r2.mpBuckets[t] = c
  BY <1>1
<1>3. t # s => r2.mpBuckets[t] = r.mpBuckets[t]
  BY <1>1
<1> QED BY <1>2, <1>3 DEF Shaped

LEMMA HandleShape ==
    ASSUME NEW r, RxInv(r), NEW p, FragmentHeader(p), NEW aSourceId,
           NEW memory
    PROVE  ShapedRing(p, r, Handle(r, p, aSourceId, memory).rx)
<1> DEFINE s == Slot(p.mSuperFrameNo)
           b == r.mpBuckets[s]
           h == Handle(r, p, aSourceId, memory)
<1>1. p.mFrameType = 1 \/ p.mFrameType = 2 \/ p.mFrameType = 3
  BY DEF FragmentHeader
<1>2. s \in 0..(Slots - 1) /\ (b.mActive => Assembling(b))
  BY ActiveBucket
<1>3. NumbersOK(r)
  BY DEF RxInv
<1>4. \A result : ShapedRing(p, r, Refused(r, result).rx)
  BY DEF ShapedRing, Shaped, Refused
<1>5. \A f : ShapedRing(p, r, OpenBucket(r, p, aSourceId, f, memory).rx)
  BY OpenBucketShape
<1>6. ASSUME NEW c, b.mActive, Grown(b, c), NEW r2,
             r2.mpBuckets = [r.mpBuckets EXCEPT ![s] = c]
      PROVE  ShapedRing(p, r, r2)
  <2> HIDE DEF s
  <2> QED BY <1>2, <1>6, StoredShape
<1>7. \A c : Stored(r, s, c).rx.mpBuckets = [r.mpBuckets EXCEPT ![s] = c]
  BY <1>3 DEF Stored, NumbersOK
<1>8. CASE p.mFrameType = 1
  <2>1. \/ \E result : h = Refused(r, result)
        \/ h = OpenBucket(r, p, aSourceId, First1(r, p), memory)
        \/ b.mActive /\ h = Stored(r, s, Store1(b, p))
    BY <1>8 DEF Handle, handleType1
  <2>2. b.mActive => Grown(b, Store1(b, p))
    BY <1>2, StoresGrow
  <2> DEFINE c == Store1(b, p)
  <2> HIDE DEF h, c, s, b
  <2>3. b.mActive => ShapedRing(p, r, Stored(r, s, c).rx)
    BY <1>6, <1>7, <2>2 DEF c
  <2>4. ShapedRing(p, r, h.rx)
    BY ONLY <1>4, <1>5, <2>1, <2>3 DEF c
  <2> QED BY <2>4 DEF h
<1>9. CASE p.mFrameType = 2
  <2> DEFINE c == Store2(b, p)
             stored == [Stored(r, s, c) EXCEPT
                          !.rx.mStreams[p.mStreamId] = p.mPayload]
  <2>1. \/ \E result : h = Refused(r, result)
        \/ h = OpenBucket(r, p, aSourceId, First2(p), memory)
        \/ b.mActive /\ h = stored
    BY <1>9 DEF Handle, handleType2
  <2>2. b.mActive => Grown(b, c)
    BY <1>2, StoresGrow
  <2>3. stored.rx.mpBuckets = [r.mpBuckets EXCEPT ![s] = c]
    <3> HIDE DEF c, s
    <3> QED BY <1>3 DEF Stored, NumbersOK
  <2> HIDE DEF h, c, s, b, stored
  <2>4. b.mActive => ShapedRing(p, r, stored.rx)
    BY <1>6, <2>2, <2>3
  <2> QED BY <1>4, <1>5, <2>1, <2>4 DEF h
<1>10. CASE p.mFrameType = 3
  <2>1. \/ \E result : h = Refused(r, result)
        \/ h = OpenBucket(r, p, aSourceId, First3(r, p), memory)
        \/ b.mActive /\ h = Stored(r, s, Store3(b, p))
    BY <1>10 DEF Handle, handleType3
  <2>2. b.mActive => Grown(b, Store3(b, p))
    BY <1>2, StoresGrow
  <2> DEFINE c == Store3(b, p)
  <2> HIDE DEF h, c, s, b
  <2>3. b.mActive => ShapedRing(p, r, Stored(r, s, c).rx)
    BY <1>6, <1>7, <2>2 DEF c
  <2> QED BY <1>4, <1>5, <2>1, <2>3 DEF h, c
<1> QED BY <1>1, <1>8, <1>9, <1>10

\* A handler keeps the clocks.
LEMMA ShapedTimed ==
    ASSUME NEW p, FragmentHeader(p), Fits(p.mOfFragmentNo), now \in Nat,
           NEW r, NEW r2, ShapedRing(p, r, r2), NEW asked,
           RingTimed(r, now, asked)
    PROVE  RingTimed(r2, now, asked)
<1> SUFFICES ASSUME NEW s \in 0..(Slots - 1), r2.mpBuckets[s].mActive
             PROVE  Timed(r2.mpBuckets[s], now, asked)
  BY DEF RingTimed
<1> DEFINE b == r.mpBuckets[s]
           c == r2.mpBuckets[s]
<1>1. Shaped(p, b, c) /\ (b.mActive => Timed(b, now, asked)) /\ c.mActive
  BY DEF ShapedRing, RingTimed
<1> HIDE DEF b, c
<1>2. CASE c = b
  BY <1>1, <1>2 DEF c
<1>3. CASE JustOpened(p, c)
  <2>1. now + Timeout \in Int
    BY ReceiverAssumption
  <2> QED BY <1>3, <2>1 DEF JustOpened, Timed, c
<1>4. CASE Grown(b, c)
  <2>1. Timed(b, now, asked)
    BY <1>1, <1>4 DEF Grown
  <2>2. Missing(c) \subseteq Missing(b)
    BY <1>4 DEF Grown, Missing
  <2>3. c.mNackCount > 0 => Asked(Missing(c), c.mSavedFrameNo, asked)
    BY <1>4, <2>1, <2>2 DEF Grown, Timed, Asked
  <2> QED BY <1>4, <2>1, <2>3 DEF Grown, Timed, c
<1> QED BY <1>1, <1>2, <1>3, <1>4 DEF Shaped

LEMMA AskedMore ==
    ASSUME NEW missing, NEW aFrameNo, NEW asked, NEW more,
           Asked(missing, aFrameNo, asked), asked \subseteq more
    PROVE  Asked(missing, aFrameNo, more)
  BY DEF Asked

\* The cap of calculateNackDelayUs: at its deadline a bucket's next NACK is
\* due, whatever the backoff.
LEMMA DueAtDeadline ==
    ASSUME now \in Nat, NEW base \in BaseDelays, NEW b, NEW asked,
           Timed(b, now, asked), TimedOut(b)
    PROVE  now >= (IF b.mLastNackUs = 0 THEN b.mFirstArrivalUs
                   ELSE b.mLastNackUs) + calculateNackDelayUs(b, base)
<1> DEFINE left == b.mTimeoutUs - now - DeliveryMargin
           delay == calculateNackDelayUs(b, base)
           backoff == base * 2^b.mNackCount
<1>1. left \in Int /\ left <= 0
  BY ReceiverAssumption DEF Timed, TimedOut
<1>2. NotNegative(left) = 0
  BY <1>1 DEF NotNegative
<1>3. backoff \in Int
  <2>1. base \in Int
    BY ReceiverAssumption DEF BaseDelays
  <2>2. b.mNackCount \in Nat
    BY DEF Timed
  <2>3. 2^b.mNackCount \in Int
    BY <2>2
  <2> QED BY <2>1, <2>3
<1>4. delay = Least(backoff, 0)
  BY <1>2 DEF calculateNackDelayUs
<1> HIDE DEF backoff, delay
<1>5. delay \in Int /\ delay <= 0
  BY <1>3, <1>4 DEF Least
<1> QED BY <1>5 DEF Timed, delay

\* processNacks asks for all that a bucket misses before it can be given up.
LEMMA PassAsks ==
    ASSUME NacksSuffice, now \in Nat, RxInv(rx), NEW base \in BaseDelays,
           RingTimed(rx, now, nacks), NEW s \in 0..(Slots - 1),
           rx.mpBuckets[s].mActive
    PROVE  LET c     == processNacks(rx, base).mpBuckets[s]
               asked == nacks \cup NacksSent(rx, base)
           IN  /\ Timed(c, now, asked)
               /\ Ready(c) => Asked(Missing(c), c.mSavedFrameNo, asked)
<1> DEFINE b == rx.mpBuckets[s]
           c == processNacks(rx, base).mpBuckets[s]
           sent == NacksSent(rx, base)
           asked == nacks \cup sent
           due == {rx.mBucketMap[o] : o \in OrdersDue(rx, base)}
           o == b.mDeliveryOrder
           all == buildNack(b.mReceivedFragments, b.mOfFragmentNo)
<1>1. /\ Timed(b, now, nacks) /\ Assembling(b)
      /\ o \in DOMAIN rx.mBucketMap /\ rx.mBucketMap[o] = s
  BY DEF RingTimed, RxInv, RingOK, BucketOK, MapOK
<1>2. s \in due <=> NackDue(b, base)
  <2>1. ASSUME s \in due PROVE NackDue(b, base)
    BY <2>1 DEF OrdersDue
  <2>2. ASSUME NackDue(b, base) PROVE s \in due
    <3>1. o \in OrdersDue(rx, base)
      BY <1>1, <2>2 DEF OrdersDue
    <3> QED BY <1>1, <3>1
  <2> QED BY <2>1, <2>2
<1>3. c = IF s \in due THEN Nacked(b) ELSE b
  <2>1. processNacks(rx, base).mpBuckets
          = [t \in 0..(Slots - 1) |->
               IF t \in due THEN Nacked(rx.mpBuckets[t]) ELSE rx.mpBuckets[t]]
    BY DEF processNacks, RxInv, NumbersOK
  <2> QED BY <2>1
<1>4. NackDue(b, base) => Nack(b) \in sent
  <2>1. NackDue(b, base) => o \in OrdersDue(rx, base)
    BY <1>1 DEF OrdersDue
  <2> QED BY <1>1, <2>1 DEF NacksSent
<1>5. /\ b.mOfFragmentNo \in Nat
      /\ b.mReceivedFragments \in SUBSET (0..b.mOfFragmentNo)
      /\ IsFiniteSet(b.mReceivedFragments)
      /\ b.mFragmentCount = Cardinality(b.mReceivedFragments)
  BY <1>1 DEF Assembling, Counted
<1>6. \A k \in Missing(b) :
        \E j \in 1..Len(all) : k \in EntryFragments(all[j])
  <2>1. Len(AllRanges(b.mReceivedFragments, b.mOfFragmentNo)) <= MaxEntries
    BY <1>1, <1>5 DEF Timed, Fits
  <2> QED BY <1>5, <2>1, NackNamesAll DEF Missing
<1>7. /\ Nack(b).mSuperFrameNo = b.mSavedFrameNo
      /\ Nack(b).entries = all
  BY DEF Nack
<1> HIDE DEF b, c, sent, due, o, all
<1>8. NackDue(b, base) => Asked(Missing(b), b.mSavedFrameNo, asked)
  BY <1>4, <1>6, <1>7 DEF Asked
<1>9. Asked(Missing(b), b.mSavedFrameNo, nacks)
        => Asked(Missing(b), b.mSavedFrameNo, asked)
  BY AskedMore
<1>10. b = [f \in BucketFields |-> b[f]]
  BY <1>1 DEF Assembling
<1>11. CASE NackDue(b, base)
  <2>1. c = Nacked(b)
    BY <1>2, <1>3, <1>11
  <2>2. /\ c.mTimeoutUs = b.mTimeoutUs
        /\ c.mFirstArrivalUs = b.mFirstArrivalUs
        /\ c.mLastNackUs = now /\ c.mNackCount = b.mNackCount + 1
        /\ c.mOfFragmentNo = b.mOfFragmentNo
        /\ c.mSavedFrameNo = b.mSavedFrameNo
        /\ c.mReceivedFragments = b.mReceivedFragments
    BY <1>10, <2>1 DEF Nacked, BucketFields
  <2>3. Missing(c) = Missing(b)
    BY <2>2 DEF Missing
  <2>4. Asked(Missing(c), c.mSavedFrameNo, asked)
    BY <1>8, <1>11, <2>2, <2>3
  <2>5. Timed(c, now, asked)
    BY <1>1, <2>2, <2>4 DEF Timed
  <2> QED BY <2>4, <2>5 DEF c, sent
<1>12. CASE ~NackDue(b, base)
  <2>1. c = b
    BY <1>2, <1>3, <1>12
  <2>2. Timed(b, now, asked)
    BY <1>1, <1>9 DEF Timed
  <2>3. ASSUME Ready(b), Missing(b) # {}
        PROVE  Asked(Missing(b), b.mSavedFrameNo, nacks)
    <3>1. ~Complete(b)
      <4>1. SUFFICES ASSUME Complete(b) PROVE FALSE
        OBVIOUS
      <4>2. Cardinality(b.mReceivedFragments) = b.mOfFragmentNo + 1
        BY <1>5, <4>1 DEF Complete
      <4>3. /\ IsFiniteSet(0..b.mOfFragmentNo)
            /\ Cardinality(0..b.mOfFragmentNo) = b.mOfFragmentNo + 1
        <5> DEFINE of == b.mOfFragmentNo
        <5>1. of \in Int /\ 0 \in Int /\ ~(0 > of) /\ of - 0 + 1 = of + 1
          BY <1>5
        <5> HIDE DEF of
        <5>2. IsFiniteSet(0..of) /\ Cardinality(0..of) = of + 1
          BY <5>1, FS_Interval
        <5> QED BY <5>2 DEF of
      <4>4. 0..b.mOfFragmentNo = b.mReceivedFragments
        BY <1>5, <4>2, <4>3, FS_Subset
      <4> QED BY <2>3, <4>4 DEF Missing
    <3>2. TimedOut(b)
      BY <2>3, <3>1 DEF Ready, HolExpired, NacksSuffice
    <3>3. all # <<>>
      BY <1>5, <2>3, NackNotEmpty DEF Missing, all
    <3>4. now >= (IF b.mLastNackUs = 0 THEN b.mFirstArrivalUs
                  ELSE b.mLastNackUs) + calculateNackDelayUs(b, base)
      BY <1>1, <3>2, DueAtDeadline
    <3>5. ~(b.mNackCount < MaxNackRetries)
      BY <1>12, <3>1, <3>3, <3>4 DEF NackDue, NacksSuffice, all
    <3>6. b.mNackCount > 0
      BY <1>1, <3>5, ReceiverAssumption DEF Timed, NacksSuffice
    <3> QED BY <1>1, <3>6 DEF Timed
  <2>4. Ready(b) => Asked(Missing(b), b.mSavedFrameNo, asked)
    <3>1. Missing(b) = {} => Asked(Missing(b), b.mSavedFrameNo, asked)
      BY DEF Asked
    <3> QED BY <1>9, <2>3, <3>1
  <2> QED BY <2>1, <2>2, <2>4 DEF c, sent
<1> QED BY <1>11, <1>12

LEMMA InitNackInv == Init => NackInv
<1> SUFFICES ASSUME Init PROVE NackInv
  OBVIOUS
<1>1. rx.mpBuckets = [s \in 0..(Slots - 1) |-> Unused]
  BY DEF Init
<1>2. RingTimed(rx, now, nacks)
  BY <1>1 DEF RingTimed, Unused
<1>3. Log = <<>>
  <2>1. <<>> \o <<>> = <<>>
    BY EmptyIsSeq, ConcatEmpty
  <2> QED BY <2>1 DEF Init, Log
<1>4. LogAsked(Log, nacks)
  BY <1>3, EmptyIsSeq DEF LogAsked
<1> QED BY <1>2, <1>4 DEF NackInv

\* What a frame handed out says of the bucket it came from.
LEMMA FrameOfFields ==
    ASSUME NEW c
    PROVE  FrameOf(c).missing = Missing(c) /\ FrameOf(c).mSuperFrameNo = c.mSavedFrameNo
  BY DEF FrameOf, Missing

\* A step of processTimeouts.
LEMMA PassNackInv ==
    ASSUME NacksSuffice, IInv, LogInv, NackInv, processTimeouts(rx),
           UNCHANGED <<mMode, now>>
    PROVE  NackInv'
<1>1. PICK base \in BaseDelays :
        LET r == processNacks(rx, base)
        IN  /\ RxInv(r)
            /\ rx' = deliverFrames(r)
            /\ nacks' = nacks \cup NacksSent(rx, base)
            /\ Log' = Log \o FramesOut(r)
  BY PassAppends
<1> DEFINE r == processNacks(rx, base)
           log == Log
           out == FramesOut(r)
           asked == nacks \cup NacksSent(rx, base)
<1>2. RxInv(r) /\ rx' = deliverFrames(r) /\ nacks' = asked /\ Log' = log \o out
  BY <1>1
<1>3. RxInv(rx) /\ now \in Nat /\ now' = now
  BY DEF IInv
<1>4. \A s \in 0..(Slots - 1) :
        r.mpBuckets[s].mActive => rx.mpBuckets[s].mActive
  <2>1. processNacks(rx, base).mpBuckets
          = [t \in 0..(Slots - 1) |->
               IF t \in {rx.mBucketMap[o] : o \in OrdersDue(rx, base)}
                 THEN Nacked(rx.mpBuckets[t]) ELSE rx.mpBuckets[t]]
    BY <1>3 DEF processNacks, RxInv, NumbersOK
  <2>2. \A o \in OrdersDue(rx, base) : rx.mpBuckets[rx.mBucketMap[o]].mActive
    BY <1>3, EntryBucket DEF OrdersDue
  <2> QED BY <2>1, <2>2
<1>5. ASSUME NEW s \in 0..(Slots - 1), r.mpBuckets[s].mActive
      PROVE  LET c == r.mpBuckets[s]
             IN  /\ Timed(c, now, asked)
                 /\ Ready(c) => Asked(Missing(c), c.mSavedFrameNo, asked)
  <2>1. rx.mpBuckets[s].mActive
    BY <1>4, <1>5
  <2>2. RingTimed(rx, now, nacks)
    BY DEF NackInv
  <2> QED BY <1>3, <2>1, <2>2, PassAsks
<1> HIDE DEF r, asked
<1>6. RingTimed(rx', now', nacks')
  <2> SUFFICES ASSUME NEW s \in 0..(Slots - 1), rx'.mpBuckets[s].mActive
               PROVE  Timed(rx'.mpBuckets[s], now, asked)
    BY <1>2, <1>3 DEF RingTimed
  <2>1. rx'.mpBuckets[s] = r.mpBuckets[s]
    BY <1>2, LeftActive
  <2>2. r.mpBuckets[s].mActive
    BY <2>1
  <2> QED BY <1>5, <2>1, <2>2
<1>7. /\ IsSeq(out)
      /\ \A i \in 1..Len(out) :
           \E o \in ReadyOrders(r) :
             out[i] = FrameOf(r.mpBuckets[r.mBucketMap[o]])
  BY <1>2, FramesOutOK
<1>8. ASSUME NEW i \in 1..Len(out)
      PROVE  Asked(out[i].missing, out[i].mSuperFrameNo, asked)
  <2>1. PICK o \in ReadyOrders(r) :
          out[i] = FrameOf(r.mpBuckets[r.mBucketMap[o]])
    BY <1>7
  <2> DEFINE s == r.mBucketMap[o]
             c == r.mpBuckets[s]
  <2>2. o \in DOMAIN r.mBucketMap /\ Ready(c)
    BY <2>1 DEF ReadyOrders
  <2>3. s \in 0..(Slots - 1) /\ c.mActive
    BY <1>2, <2>2, EntryBucket
  <2>4. Asked(Missing(c), c.mSavedFrameNo, asked)
    <3> HIDE DEF s
    <3> QED BY ONLY <1>5, <2>2, <2>3
  <2> HIDE DEF c
  <2>5. out[i].missing = Missing(c) /\ out[i].mSuperFrameNo = c.mSavedFrameNo
    <3>1. out[i] = FrameOf(c)
      BY ONLY <2>1 DEF c
    <3> HIDE DEF out
    <3> QED BY ONLY <3>1, FrameOfFields
  <2> QED BY <2>4, <2>5
<1>9. LogAsked(log, asked)
  BY AskedMore DEF NackInv, LogAsked, asked
<1>10. IsSeq(log)
  BY ConcatFacts DEF LogInv, Log
<1> HIDE DEF log, out
<1>11. Len(log) \in Nat /\ Len(out) \in Nat
  BY <1>7, <1>10, LenIsNat
<1>12. /\ Len(log \o out) = Len(log) + Len(out)
       /\ \A i \in 1..Len(log) : (log \o out)[i] = log[i]
       /\ \A i \in 1..Len(out) : (log \o out)[Len(log) + i] = out[i]
  BY <1>7, <1>10, ConcatFacts
<1>13. LogAsked(log \o out, asked)
  <2> SUFFICES ASSUME NEW i \in 1..Len(log \o out)
               PROVE  Asked((log \o out)[i].missing,
                            (log \o out)[i].mSuperFrameNo, asked)
    BY DEF LogAsked
  <2>1. CASE i \in 1..Len(log)
    BY <1>9, <1>12, <2>1 DEF LogAsked
  <2>2. CASE i \notin 1..Len(log)
    <3> DEFINE j == i - Len(log)
    <3>1. j \in 1..Len(out) /\ i = Len(log) + j
      BY <1>11, <1>12, <2>2
    <3> HIDE DEF j
    <3> QED BY <1>8, <1>12, <3>1
  <2> QED BY <2>1, <2>2
<1> QED BY <1>2, <1>6, <1>13 DEF NackInv

\* A step that changes the ring by a handler, or only the clock.
LEMMA HandlerNackInv ==
    ASSUME NackInv, now \in Nat, Log' = Log, UNCHANGED nacks, now' = now,
           NEW p, FragmentHeader(p), Fits(p.mOfFragmentNo),
           ShapedRing(p, rx, rx')
    PROVE  NackInv'
<1>1. RingTimed(rx', now, nacks)
  <2>1. RingTimed(rx, now, nacks)
    BY DEF NackInv
  <2> QED BY <2>1, ShapedTimed
<1> QED BY <1>1 DEF NackInv

LEMMA NextNackInv ==
    ASSUME NacksSuffice, IInv, LogInv, NackInv, [Next]_vars
    PROVE  NackInv'
<1>0. RxInv(rx) /\ now \in Nat
  BY DEF IInv
<1>1. CASE processTimeouts(rx) /\ UNCHANGED <<mMode, now>>
  BY <1>1, PassNackInv
<1>2. CASE ~(processTimeouts(rx) /\ UNCHANGED mMode)
  <2>0. Log' = Log
    BY <1>2, LogOtherwiseKept
  <2>1. CASE UNCHANGED <<rx, nacks>> /\ now' \in Nat /\ now' >= now
    <3>1. RingTimed(rx, now', nacks)
      BY <1>0, <2>1 DEF NackInv, RingTimed, Timed
    <3> QED BY <2>0, <2>1, <3>1 DEF NackInv
  <2>2. ASSUME NEW p \in Packets, NEW aSourceId \in Sources, NEW memory,
               ReceiveFragment(p, aSourceId, memory)
        PROVE  NackInv'
    <3>1. FragmentHeader(p) /\ p \in Fragments
      BY <2>2, PacketAssumption DEF ReceiveFragment, Fragments
    <3>2. rx' = Handle(rx, p, aSourceId, memory).rx
      BY <2>2 DEF ReceiveFragment, HandlerReturns
    <3>3. ShapedRing(p, rx, rx')
      BY <1>0, <3>1, <3>2, HandleShape
    <3>4. UNCHANGED nacks /\ now' = now
      BY <2>2 DEF ReceiveFragment
    <3>5. Fits(p.mOfFragmentNo)
      BY <3>1 DEF NacksSuffice
    <3> QED BY <1>0, <2>0, <3>1, <3>3, <3>4, <3>5, HandlerNackInv
  <2>3. ASSUME NEW memory, BundleStep(memory)
        PROVE  NackInv'
    <3> DEFINE p == Head(bundle.frames)
               round == BundleRound(bundle, rx, memory)
               h == handleType1(rx, p, bundle.aSourceId, memory)
    <3>1. p \in InnerFrames
      BY <2>3 DEF IInv, BundleOK, BundleStep, Unlocked
    <3>2. FragmentHeader(p) /\ Fits(p.mOfFragmentNo)
      BY <3>1, PacketAssumption DEF NacksSuffice, Fragments
    <3>3. UNCHANGED nacks /\ now' = now /\ rx' = round.rx
      BY <2>3 DEF BundleStep, HandlerReturns
    <3>4. ShapedRing(p, rx, round.rx)
      <4>1. CASE p.mFrameType = 1
        <5>1. round.rx = h.rx
          BY <4>1 DEF BundleRound
        <5>2. Handle(rx, p, bundle.aSourceId, memory) = h
          BY <4>1 DEF Handle
        <5> QED BY <1>0, <3>2, <5>1, <5>2, HandleShape
      <4>2. CASE p.mFrameType # 1
        <5>1. round.rx = rx
          BY <4>2 DEF BundleRound, Refused
        <5> QED BY <5>1 DEF ShapedRing, Shaped
      <4> QED BY <4>1, <4>2
    <3> HIDE DEF p, round
    <3> QED BY <1>0, <2>0, <3>2, <3>3, <3>4, HandlerNackInv
  <2>4. \/ UNCHANGED <<rx, nacks>> /\ now' \in Nat /\ now' >= now
        \/ \E p \in Packets, aSourceId \in Sources, memory \in AllocOutcomes :
             ReceiveFragment(p, aSourceId, memory)
        \/ \E memory \in AllocOutcomes : BundleStep(memory)
    <3>1. ASSUME NEW p \in Packets, ReceiveSignal(p)
          PROVE  UNCHANGED <<rx, nacks>> /\ now' = now
      BY <3>1 DEF ReceiveSignal, HandlerReturns
    <3>2. ASSUME NEW p \in Packets, NEW aSourceId, ReceiveBundle(p, aSourceId)
          PROVE  UNCHANGED <<rx, nacks>> /\ now' = now
      BY <3>2 DEF ReceiveBundle, HandlerReturns
    <3>3. ~(FinishReceive \/ Poll \/ Worker)
      BY <1>2 DEF FinishReceive, Poll, Worker
    <3>4. ASSUME Delivery PROVE UNCHANGED <<rx, nacks>> /\ now' = now
      BY <3>4 DEF Delivery
    <3>5. ASSUME Tick PROVE UNCHANGED <<rx, nacks>> /\ now' = now + 1
      BY <3>5 DEF Tick
    <3>6. ASSUME UNCHANGED vars PROVE UNCHANGED <<rx, nacks>> /\ now' = now
      BY <3>6 DEF vars
    <3> QED BY <1>0, <3>1, <3>2, <3>3, <3>4, <3>5, <3>6
            DEF Next, Receive, Internal
  <2> QED BY <2>1, <2>2, <2>3, <2>4
<1>3. CASE Tick
  <2>1. Log' = Log /\ UNCHANGED <<rx, nacks>> /\ now' = now + 1
    BY <1>3 DEF Tick, Log
  <2>2. RingTimed(rx, now', nacks)
    BY <1>0, <2>1 DEF NackInv, RingTimed, Timed
  <2> QED BY <2>1, <2>2 DEF NackInv
<1>4. CASE ~Tick
  <2>1. ASSUME NEW p, NEW aSourceId, Receive(p, aSourceId)
        PROVE  now' = now
    BY <2>1 DEF Receive, ReceiveFragment, ReceiveSignal, ReceiveBundle
  <2>2. ASSUME Internal PROVE now' = now
    BY <2>2 DEF Internal, BundleStep, FinishReceive, Poll, Worker, Delivery
  <2>3. now' = now
    BY <1>4, <2>1, <2>2 DEF Next, vars
  <2> QED BY <1>1, <1>2, <2>3
<1> QED BY <1>3, <1>4


------------------------------------------------------------------------------
(***************************************************************************)
(* The theorems.                                                           *)
(***************************************************************************)
\* The inductive invariant of the receiver: numbers, ring, map and buckets in
\* step under every handler and every pass of processTimeouts.
THEOREM Invariance == Spec => []IInv
  BY InitIInv, NextIInv, PTL DEF Spec

\* The receiver's state keeps its types: in particular mOldFrameNo stays a
\* 16-bit number and the ring keeps its BUFFER_SIZE + 1 buckets.
THEOREM TypeCorrect == Spec => []TypeOK
<1>1. IInv => TypeOK
  <2> SUFFICES ASSUME IInv PROVE TypeOK
    OBVIOUS
  <2>1. NumbersOK(rx) /\ RingOK(rx)
    BY DEF IInv, RxInv
  <2>2. DOMAIN rx.mpBuckets = 0..(Slots - 1)
    BY <2>1 DEF RingOK
  <2>3. \A s \in 0..(Slots - 1) :
          /\ rx.mpBuckets[s].mActive \in BOOLEAN
          /\ rx.mpBuckets[s].mDeliveryOrder \in Int \cup {NoOrder}
    BY <2>1 DEF RingOK, BucketOK
  <2> QED BY <2>1, <2>2, <2>3 DEF IInv, NumbersOK, TypeOK
<1> QED BY <1>1, Invariance, PTL

\* mBucketMap and the buckets agree for every ring size, every sequence space
\* that the ring divides, every mix of packets and every failed allocation.
THEOREM MapsAgree == Spec => []MapCoherent
<1>1. IInv => MapCoherent
  BY DEF IInv, RxInv, MapOK, MapCoherent
<1> QED BY <1>1, Invariance, PTL

\* No handler writes outside the allocation of the first fragment, whatever
\* sizes and counts the packets claim and in whatever order they come.
THEOREM NoOverrun == Spec => []BufferInBounds
<1>1. IInv => BufferInBounds
  <2> SUFFICES ASSUME IInv, NEW s \in 0..(Slots - 1), rx.mpBuckets[s].mActive
               PROVE  LET b == rx.mpBuckets[s]
                      IN  /\ DOMAIN b.mpData = 0..(b.mAlloc - 1)
                          /\ b.mSize \in 0..b.mAlloc
    BY DEF BufferInBounds
  <2>1. Sized(rx.mpBuckets[s])
    BY DEF IInv, RxInv, RingOK, BucketOK, Assembling
  <2> QED BY <2>1 DEF Sized
<1> QED BY <1>1, Invariance, PTL

\* mFragmentCount is the number of distinct fragments received.
THEOREM CountCorrect == Spec => []CountsFragments
<1>1. IInv => CountsFragments
  BY DEF IInv, RxInv, RingOK, BucketOK, Assembling, Counted, CountsFragments
<1> QED BY <1>1, Invariance, PTL

\* No refusal of a packet, whatever its header says, changes a bucket or the
\* map (handleType1, handleType2, handleType3).
THEOREM RefusalsAreHarmless == Spec => []RefusalLeavesBuckets
<1>1. IInv => RefusalLeavesBuckets
  <2> SUFFICES ASSUME IInv, NEW p \in Packets, NEW aSourceId \in Sources,
                      NEW memory \in AllocOutcomes, p.mFrameType \in {1, 2, 3}
               PROVE  Kept(rx, Handle(rx, p, aSourceId, memory))
    BY DEF RefusalLeavesBuckets, Kept
  <2>1. FragmentHeader(p)
    BY PacketAssumption
  <2> QED BY <2>1, HandleKept DEF IInv
<1> QED BY <1>1, Invariance, PTL

\* Frames already handed over keep their place, the frames of one pass leave
\* in the order of their unwrapped numbers, and no complete frame stays behind
\* (processTimeouts, deliveryLoop), for every ring, clock and mix of packets.
THEOREM PassesAreOrdered == Spec => PassIsOrdered
<1>1. Spec => []LogInv
  BY Invariance, InitLogInv, NextLogInv, PTL DEF Spec
<1>2. IInv /\ LogInv /\ [Next]_vars =>
        [/\ IsPrefix(Log, Log')
         /\ \A i, j \in (Len(Log) + 1)..Len(Log') :
              i < j => Log'[i].mDeliveryOrder < Log'[j].mDeliveryOrder
         /\ Len(Log') > Len(Log) =>
              \A s \in 0..(Slots - 1) :
                rx'.mpBuckets[s].mActive => ~Complete(rx'.mpBuckets[s])]_vars
  BY StepIsOrdered
<1> QED BY <1>1, <1>2, Invariance, PTL DEF Spec, PassIsOrdered

\* No fragment is given up unasked, when NACKs are on, no head-of-line timeout
\* cuts frames short and one NACK has room for what a frame may miss
\* (SmallFramesFit): the cap in calculateNackDelayUs makes a NACK due at the
\* deadline at the latest, for every interval, backoff and clock.
THEOREM NothingGivenUpUnasked ==
    ASSUME NacksSuffice
    PROVE  Spec => []NackBeforeGivingUp
<1>1. Spec => []LogInv
  BY Invariance, InitLogInv, NextLogInv, PTL DEF Spec
<1>2. IInv /\ LogInv /\ NackInv /\ [Next]_vars => NackInv'
  BY NextNackInv
<1>3. NackInv => NackBeforeGivingUp
  BY DEF NackInv, LogAsked, Asked, NackBeforeGivingUp
<1> QED BY <1>1, <1>2, <1>3, InitNackInv, Invariance, PTL DEF Spec
==============================================================================
