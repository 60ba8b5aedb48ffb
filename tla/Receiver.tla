------------------------------- MODULE Receiver -------------------------------
(***************************************************************************)
(* efp::Receiver: reassembly of SuperFrames in a ring of buckets, unwrapped*)
(* sequence numbers, NACKs, timeouts and delivery.                         *)
(*                                                                         *)
(* The variable rx is the state that mNetMutex guards.  A handler is an    *)
(* operator from rx and a packet to the new rx and a Result; an action is  *)
(* one critical section of mNetMutex.  In RUN_TO_COMPLETION mode receive   *)
(* has two: the handler and, after unlocking, processTimeouts; returning   *)
(* counts the callers between them.  The loop of handleType4 is the one    *)
(* exception: its rounds are steps of their own, and rx stays locked       *)
(* (bundle # NoBundle) between them.                                       *)
(*                                                                         *)
(* A packet is its parsed header plus the sequence of its payload bytes.   *)
(* Time is counted in ticks.  mPayload stands for mPayloadType and         *)
(* mPayloadCode together.  Statistics are left out.                        *)
(***************************************************************************)
EXTENDS EfpWire, NackRanges, FiniteSets, SequencesExt

CONSTANTS
    SeqSpace,        \* superframe numbers before the wrap: 2^16
    Slots,           \* BUFFER_SIZE + 1 buckets
    Packets,         \* packets the network may hand to receive
    Sources,         \* source ids
    StreamIds,
    Modes,           \* {"THREADED"} or {"RUN_TO_COMPLETION"} or both
    AllocOutcomes,   \* outcomes of posix_memalign: a subset of BOOLEAN
    Timeout,         \* mTimeoutMs
    HolTimeout,      \* mHolTimeoutMs, 0: off
    MaxNackRetries,  \* mMaxNackRetries, 0: NACKs off
    NackInterval,    \* mNackIntervalMs, 0: adaptive
    AdaptiveDelays,  \* values max(10ms, 4 * mJitterUs) may take
    DeliveryMargin,  \* the 10 ms kept free before the timeout
    NoOrder,         \* INT64_MAX: the bucket was never used
    Junk,            \* an uninitialised byte
    NoPayload,       \* mPayloadType 0, mPayloadCode UINT32_MAX
    MaxCallers,      \* bound: threads inside receive
    MaxTime,         \* bound: last tick
    MaxFrames,       \* bound: frames delivered
    MaxOrder         \* bound: distance of unwrapped numbers from 0

\* What the constructor accepts; the NACK budget is a uint32_t product.
ConfigAccepted ==
    /\ HolTimeout > 0 => HolTimeout < Timeout
    /\ MaxNackRetries > 0 /\ NackInterval > 0 =>
         (NackInterval * MaxNackRetries) % (UINT32_MAX + 1) < Timeout

ASSUME ReceiverAssumption ==
    /\ ConfigAccepted
    /\ Slots \in Nat \ {0}
    /\ SeqSpace \in Nat
    /\ \E k \in 1..SeqSpace : SeqSpace = k * Slots
    /\ \E k \in 1..SeqSpace : SeqSpace = 2 * k
    /\ NoOrder \notin Int
    /\ Timeout \in Nat \ {0} /\ HolTimeout \in Nat /\ MaxNackRetries \in Nat
    /\ NackInterval \in Nat /\ AdaptiveDelays \subseteq Nat
    /\ DeliveryMargin \in Nat
    /\ AllocOutcomes \subseteq BOOLEAN
    /\ Modes \subseteq {"THREADED", "RUN_TO_COMPLETION"}

\* What the header fields of a Type1, Type2 or Type3 can hold: any value of
\* their unsigned types, consistent or not.
FragmentHeader(p) ==
    /\ p.mFrameType \in {1, 2, 3}
    /\ p.mSuperFrameNo \in 0..(SeqSpace - 1)
    /\ p.mOfFragmentNo \in Nat
    /\ Len(p.data) \in Nat
    /\ p.mFrameType = 1 => p.mFragmentNo \in Nat
    /\ p.mFrameType = 2 => p.mSizeOfData \in Nat
    /\ p.mFrameType \in {2, 3} => p.mType1PacketSize \in Nat

\* The frames inside bundles.
InnerFrames ==
    UNION {{p.frames[i] : i \in 1..Len(p.frames)} :
             p \in {q \in Packets : q.mFrameType = 4}}

ASSUME PacketAssumption ==
    /\ \A p \in Packets :
         /\ p.mFrameType \in {1, 2, 3} => FragmentHeader(p)
         /\ p.mFrameType = 4 => p.frames \in Seq(InnerFrames)
    /\ \A p \in InnerFrames : FragmentHeader(p)

VARIABLES
    mMode,           \* Receiver::mMode
    now,             \* nowUs()
    rx,              \* everything mNetMutex guards
    bundle,          \* the Type4 packet handleType4 is working on
    returning,       \* receive calls that still have to processTimeouts
    mDeliveryQueue,  \* frames between worker and delivery thread
    callbacks,       \* history: frames handed to mCallback
    nacks            \* NACKs handed to mNackCallback, in flight

vars == <<mMode, now, rx, bundle, returning, mDeliveryQueue, callbacks, nacks>>

NoBundle == [frames |-> <<>>, aSourceId |-> NoOrder]

Unused == [mActive |-> FALSE, mDeliveryOrder |-> NoOrder]

\* The constructor.
Init ==
    /\ mMode \in Modes
    /\ now = 1
    /\ rx = [mpBuckets |-> [s \in 0..(Slots - 1) |-> Unused],
             mBucketMap |-> [o \in {} |-> 0],
             mStreams |-> [s \in StreamIds |-> NoPayload],
             mOldFrameNo |-> 0, mFrameNoRecalc |-> 0, mFirstFrame |-> TRUE]
    /\ bundle = NoBundle
    /\ returning = 0
    /\ mDeliveryQueue = <<>>
    /\ callbacks = <<>>
    /\ nacks = {}

------------------------------------------------------------------------------
(***************************************************************************)
(* Sequence numbers and buckets.                                           *)
(***************************************************************************)

\* mSuperFrameNo & BUFFER_SIZE
Slot(aFrameNo) == aFrameNo % Slots

\* Slip: the difference is not read as a signed number.
UnsignedDelta(aFrameNo, aOld) == (aFrameNo - aOld) % SeqSpace

\* (int16_t)(uint16_t)(aFrameNo - mOldFrameNo)
SignedDelta(aFrameNo, aOld) ==
    LET d == (aFrameNo - aOld) % SeqSpace
    IN  IF d < SeqSpace \div 2 THEN d ELSE d - SeqSpace

\* Slip: the unwrapped number is remembered in place of the one received.
recalculateFromUnwrapped(r, aFrameNo) ==
    LET order == IF r.mFirstFrame THEN aFrameNo
                 ELSE r.mFrameNoRecalc + SignedDelta(aFrameNo, r.mOldFrameNo)
    IN  [r EXCEPT !.mOldFrameNo = order, !.mFrameNoRecalc = order,
                  !.mFirstFrame = FALSE]

\* The unwrapped number is mFrameNoRecalc of the result.
recalculateSuperFrameNo(r, aFrameNo) ==
    [r EXCEPT !.mOldFrameNo = aFrameNo,
              !.mFrameNoRecalc = IF r.mFirstFrame THEN aFrameNo
                                 ELSE @ + SignedDelta(aFrameNo, r.mOldFrameNo),
              !.mFirstFrame = FALSE]

\* memcpy of data to offset; a byte outside the allocation would widen the
\* buffer's domain.
Write(buffer, offset, data) ==
    LET region == offset..(offset + Len(data) - 1)
    IN  [i \in (DOMAIN buffer) \cup region |->
           IF i \in region THEN data[i - offset + 1] ELSE buffer[i]]

\* Slip: the Type2 payload is left where it was.
MoveNothing(buffer, to, from, size) == buffer

\* memmove of size bytes.
Move(buffer, to, from, size) ==
    LET region == to..(to + size - 1)
    IN  [i \in (DOMAIN buffer) \cup region |->
           IF i \in region THEN buffer[i - to + from] ELSE buffer[i]]

Complete(b) == b.mFragmentCount = b.mOfFragmentNo + 1

\* mBucketMap[order] = the bucket of slot s.
Enter(map, order, s) ==
    [o \in (DOMAIN map) \cup {order} |-> IF o = order THEN s ELSE map[o]]

\* mBucketMap without one order.
Erase(map, order) == [o \in (DOMAIN map) \ {order} |-> map[o]]

\* Slip: the bucket is reset to its initial state.
ClosedForgetting(b) == Unused

\* mActive = false.  The other fields keep their values in the code; each one
\* is written before it is read again, except mDeliveryOrder.
Closed(b) == [mActive |-> FALSE, mDeliveryOrder |-> b.mDeliveryOrder]

\* The bucket fields a first fragment writes; f holds what depends on its type.
Opened(p, aSourceId, order, f) ==
    [mActive |-> TRUE, mDeliveryOrder |-> order,
     mSavedFrameNo |-> p.mSuperFrameNo, mStreamId |-> p.mStreamId,
     mSourceId |-> aSourceId, mFlags |-> p.mFlags,
     mReceivedFragments |-> {f.fragment}, mFragmentCount |-> 1,
     mOfFragmentNo |-> p.mOfFragmentNo, mFragmentSize |-> f.fragmentSize,
     mType3Size |-> f.type3Size, mType2Size |-> f.type2Size,
     mPts |-> f.mPts, mDts |-> f.mDts, mPayload |-> f.mPayload,
     mTimeoutUs |-> now + Timeout, mFirstArrivalUs |-> now,
     mLastNackUs |-> 0, mNackCount |-> 0,
     mSize |-> f.alloc, mAlloc |-> f.alloc,
     mpData |-> Write([i \in 0..(f.alloc - 1) |-> Junk], f.offset, p.data)]

\* A handler's branch for an inactive bucket.  The unwrapped number is
\* remembered even when the fragment is then refused, and a failed allocation
\* leaves mDeliveryOrder behind.
OpenBucket(r, p, aSourceId, f, memory) ==
    LET r1      == recalculateSuperFrameNo(r, p.mSuperFrameNo)
        order   == r1.mFrameNoRecalc
        s       == Slot(p.mSuperFrameNo)
        streams == IF p.mFrameType = 2
                     THEN [r.mStreams EXCEPT ![p.mStreamId] = p.mPayload]
                     ELSE r.mStreams
    IN  IF order = r.mpBuckets[s].mDeliveryOrder
          THEN [rx |-> r1, result |-> "FRAGMENT_TOO_OLD"]
        ELSE IF f.alloc > MAX_SUPERFRAME_SIZE
          THEN [rx |-> r1, result |-> "TOO_LARGE_FRAME"]
        ELSE IF f.alloc = 0 \/ ~memory
          THEN [rx |-> [r1 EXCEPT
                          !.mpBuckets[s] = [mActive |-> FALSE,
                                            mDeliveryOrder |-> order],
                          !.mBucketMap = Erase(@, order),
                          !.mStreams = streams],
                result |-> "MEMORY_ALLOCATION_ERROR"]
        ELSE [rx |-> [r1 EXCEPT
                        !.mpBuckets[s] = Opened(p, aSourceId, order, f),
                        !.mBucketMap = Enter(@, order, s),
                        !.mStreams = streams],
              result |-> "OK"]

\* The checks of every handler on an active bucket.
Mismatch(b, p, aSourceId) ==
    IF p.mSuperFrameNo # b.mSavedFrameNo THEN "BUFFER_OUT_OF_RESOURCES"
    ELSE IF p.mStreamId # b.mStreamId \/ aSourceId # b.mSourceId
      THEN "INVALID_PARAMETER"
    ELSE IF p.mOfFragmentNo # b.mOfFragmentNo THEN "BUFFER_OUT_OF_BOUNDS"
    ELSE "OK"

------------------------------------------------------------------------------
(***************************************************************************)
(* The handlers.                                                           *)
(***************************************************************************)
Refused(r, result) == [rx |-> r, result |-> result]
Stored(r, s, b) == [rx |-> [r EXCEPT !.mpBuckets[s] = b], result |-> "OK"]

First1(r, p) ==
    [fragment |-> p.mFragmentNo, fragmentSize |-> Len(p.data),
     type3Size |-> 0, type2Size |-> 0, mPts |-> UINT64_MAX,
     mDts |-> UINT64_MAX, mPayload |-> r.mStreams[p.mStreamId],
     alloc |-> AllocBound(Len(p.data), p.mOfFragmentNo),
     offset |-> Type1Offset(Len(p.data), p.mFragmentNo)]

\* Slip: no size check.
Refusal1AnySize(b, p, aSourceId) ==
    IF Mismatch(b, p, aSourceId) # "OK" THEN Mismatch(b, p, aSourceId)
    ELSE IF p.mFragmentNo \in b.mReceivedFragments THEN "DUPLICATE_FRAGMENT"
    ELSE "OK"

\* Slip: no duplicate check.
Refusal1Repeated(b, p, aSourceId) ==
    IF Mismatch(b, p, aSourceId) # "OK" THEN Mismatch(b, p, aSourceId)
    ELSE IF Len(p.data) # b.mFragmentSize THEN "FRAME_SIZE_MISMATCH"
    ELSE "OK"

\* Duplicates are told before a wrong size.
Refusal1(b, p, aSourceId) ==
    IF Mismatch(b, p, aSourceId) # "OK" THEN Mismatch(b, p, aSourceId)
    ELSE IF p.mFragmentNo \in b.mReceivedFragments THEN "DUPLICATE_FRAGMENT"
    ELSE IF Len(p.data) # b.mFragmentSize THEN "FRAME_SIZE_MISMATCH"
    ELSE "OK"

Store1(b, p) ==
    [b EXCEPT !.mReceivedFragments = @ \cup {p.mFragmentNo},
              !.mFragmentCount = @ + 1,
              !.mpData = Write(@, Type1Offset(b.mFragmentSize, p.mFragmentNo),
                               p.data)]

handleType1(r, p, aSourceId, memory) ==
    LET s == Slot(p.mSuperFrameNo)
        b == r.mpBuckets[s]
    IN  IF \/ p.mOfFragmentNo >= MAX_FRAGMENTS_PER_SUPERFRAME
           \/ p.mFragmentNo > p.mOfFragmentNo
          THEN Refused(r, "BUFFER_OUT_OF_BOUNDS")
        ELSE IF ~b.mActive
          THEN OpenBucket(r, p, aSourceId, First1(r, p), memory)
        ELSE IF Refusal1(b, p, aSourceId) # "OK"
          THEN Refused(r, Refusal1(b, p, aSourceId))
        ELSE Stored(r, s, Store1(b, p))

\* handleType2's checks of the packet alone.
Malformed2(p) ==
    IF p.mSizeOfData # Len(p.data) THEN "FRAME_SIZE_MISMATCH"
    ELSE IF p.mOfFragmentNo >= MAX_FRAGMENTS_PER_SUPERFRAME
      THEN "BUFFER_OUT_OF_BOUNDS"
    ELSE IF p.mOfFragmentNo > 0 /\ p.mType1PacketSize = 0
      THEN "INVALID_PARAMETER"
    ELSE IF DiffRefused(p.mPts, p.mDtsPtsDiff) THEN "INVALID_PARAMETER"
    ELSE IF (p.mType1PacketSize * p.mOfFragmentNo) + p.mSizeOfData
              > MAX_SUPERFRAME_SIZE
      THEN "TOO_LARGE_FRAME"
    ELSE "OK"

First2(p) ==
    [fragment |-> p.mOfFragmentNo, fragmentSize |-> p.mType1PacketSize,
     type3Size |-> 0, type2Size |-> p.mSizeOfData, mPts |-> p.mPts,
     mDts |-> DtsOf(p.mPts, p.mDtsPtsDiff), mPayload |-> p.mPayload,
     alloc |-> (p.mType1PacketSize * p.mOfFragmentNo) + p.mSizeOfData,
     offset |-> Type2Offset(p.mType1PacketSize, p.mOfFragmentNo, 0)]

\* Here a wrong Type1 size is told before a duplicate.
Refusal2(b, p, aSourceId) ==
    IF Mismatch(b, p, aSourceId) # "OK" THEN Mismatch(b, p, aSourceId)
    ELSE IF p.mOfFragmentNo > 0 /\ p.mType1PacketSize # b.mFragmentSize
      THEN "FRAME_SIZE_MISMATCH"
    ELSE IF p.mOfFragmentNo \in b.mReceivedFragments THEN "DUPLICATE_FRAGMENT"
    ELSE IF Type2Offset(b.mFragmentSize, p.mOfFragmentNo, b.mType3Size)
              + p.mSizeOfData > AllocBound(b.mFragmentSize, b.mOfFragmentNo)
      THEN "BUFFER_OUT_OF_BOUNDS"
    ELSE "OK"

Store2(b, p) ==
    LET offset == Type2Offset(b.mFragmentSize, p.mOfFragmentNo, b.mType3Size)
    IN  [b EXCEPT !.mReceivedFragments = @ \cup {p.mOfFragmentNo},
                  !.mFragmentCount = @ + 1,
                  !.mPts = p.mPts, !.mDts = DtsOf(p.mPts, p.mDtsPtsDiff),
                  !.mPayload = p.mPayload, !.mFlags = p.mFlags,
                  !.mType2Size = p.mSizeOfData,
                  !.mSize = offset + p.mSizeOfData,
                  !.mpData = Write(@, offset, p.data)]

\* Slip: the fragment is marked received before it is checked.
handleType2MarksFirst(r, p, aSourceId, memory) ==
    LET s == Slot(p.mSuperFrameNo)
        b == r.mpBuckets[s]
    IN  IF Malformed2(p) # "OK" THEN Refused(r, Malformed2(p))
        ELSE IF ~b.mActive
          THEN OpenBucket(r, p, aSourceId, First2(p), memory)
        ELSE [rx |-> [r EXCEPT !.mpBuckets[s].mReceivedFragments =
                                  @ \cup {p.mOfFragmentNo}],
              result |-> Refusal2(b, p, aSourceId)]

handleType2(r, p, aSourceId, memory) ==
    LET s == Slot(p.mSuperFrameNo)
        b == r.mpBuckets[s]
    IN  IF Malformed2(p) # "OK" THEN Refused(r, Malformed2(p))
        ELSE IF ~b.mActive
          THEN OpenBucket(r, p, aSourceId, First2(p), memory)
        ELSE IF Refusal2(b, p, aSourceId) # "OK"
          THEN Refused(r, Refusal2(b, p, aSourceId))
        ELSE [Stored(r, s, Store2(b, p)) EXCEPT
                !.rx.mStreams[p.mStreamId] = p.mPayload]

Malformed3(p) ==
    IF p.mOfFragmentNo >= MAX_FRAGMENTS_PER_SUPERFRAME \/ p.mOfFragmentNo = 0
      THEN "BUFFER_OUT_OF_BOUNDS"
    ELSE IF Len(p.data) > p.mType1PacketSize THEN "BUFFER_OUT_OF_BOUNDS"
    ELSE IF AllocBound(p.mType1PacketSize, p.mOfFragmentNo)
              > MAX_SUPERFRAME_SIZE
      THEN "TOO_LARGE_FRAME"
    ELSE "OK"

First3(r, p) ==
    [fragment |-> p.mOfFragmentNo - 1, fragmentSize |-> p.mType1PacketSize,
     type3Size |-> Len(p.data), type2Size |-> 0, mPts |-> UINT64_MAX,
     mDts |-> UINT64_MAX, mPayload |-> r.mStreams[p.mStreamId],
     alloc |-> AllocBound(p.mType1PacketSize, p.mOfFragmentNo),
     offset |-> Type3Offset(p.mType1PacketSize, p.mOfFragmentNo)]

Refusal3(b, p, aSourceId) ==
    IF Mismatch(b, p, aSourceId) # "OK" THEN Mismatch(b, p, aSourceId)
    ELSE IF p.mType1PacketSize # b.mFragmentSize THEN "FRAME_SIZE_MISMATCH"
    ELSE IF p.mOfFragmentNo - 1 \in b.mReceivedFragments
      THEN "DUPLICATE_FRAGMENT"
    ELSE IF Type3Offset(b.mFragmentSize, p.mOfFragmentNo) + Len(p.data)
              > AllocBound(b.mFragmentSize, b.mOfFragmentNo)
      THEN "BUFFER_OUT_OF_BOUNDS"
    ELSE "OK"

\* A Type2 that came first is moved behind the Type3 before the Type3 is
\* written; without a Type2 the frame ends at the Type3 for now.
Store3(b, p) ==
    LET offset == Type3Offset(b.mFragmentSize, p.mOfFragmentNo)
        behind == offset + Len(p.data)
        final  == p.mOfFragmentNo \in b.mReceivedFragments
        moved  == final /\ b.mType2Size > 0
    IN  [b EXCEPT !.mReceivedFragments = @ \cup {p.mOfFragmentNo - 1},
                  !.mFragmentCount = @ + 1,
                  !.mType3Size = Len(p.data),
                  !.mSize = IF moved THEN behind + b.mType2Size
                            ELSE IF final THEN @ ELSE behind,
                  !.mpData = Write(IF moved
                                     THEN Move(@, behind,
                                               b.mFragmentSize * p.mOfFragmentNo,
                                               b.mType2Size)
                                     ELSE @,
                                   offset, p.data)]

handleType3(r, p, aSourceId, memory) ==
    LET s == Slot(p.mSuperFrameNo)
        b == r.mpBuckets[s]
    IN  IF Malformed3(p) # "OK" THEN Refused(r, Malformed3(p))
        ELSE IF ~b.mActive
          THEN OpenBucket(r, p, aSourceId, First3(r, p), memory)
        ELSE IF Refusal3(b, p, aSourceId) # "OK"
          THEN Refused(r, Refusal3(b, p, aSourceId))
        ELSE Stored(r, s, Store3(b, p))

\* The dispatch of receive for a packet that is one fragment.
Handle(r, p, aSourceId, memory) ==
    CASE p.mFrameType = 1 -> handleType1(r, p, aSourceId, memory)
      [] p.mFrameType = 2 -> handleType2(r, p, aSourceId, memory)
      [] p.mFrameType = 3 -> handleType3(r, p, aSourceId, memory)

------------------------------------------------------------------------------
(***************************************************************************)
(* NACKs, timeouts and delivery: processTimeouts and what it calls.        *)
(***************************************************************************)
BaseDelays == IF NackInterval > 0 THEN {NackInterval} ELSE AdaptiveDelays

Least(a, b) == IF a < b THEN a ELSE b
NotNegative(a) == IF a < 0 THEN 0 ELSE a

\* Slip: no cap.
calculateNackDelayUncapped(b, base) == base * 2^b.mNackCount

\* Exponential backoff, capped by what is left before the timeout.
calculateNackDelayUs(b, base) ==
    Least(base * 2^b.mNackCount,
          NotNegative(b.mTimeoutUs - now - DeliveryMargin))

NackDue(b, base) ==
    /\ MaxNackRetries > 0
    /\ ~Complete(b)
    /\ b.mNackCount < MaxNackRetries
    /\ now >= (IF b.mLastNackUs = 0 THEN b.mFirstArrivalUs ELSE b.mLastNackUs)
                + calculateNackDelayUs(b, base)
    /\ buildNack(b.mReceivedFragments, b.mOfFragmentNo) # <<>>

Nack(b) ==
    [mStreamId |-> b.mStreamId, mSuperFrameNo |-> b.mSavedFrameNo,
     entries |-> buildNack(b.mReceivedFragments, b.mOfFragmentNo)]

\* Orders of mBucketMap whose bucket satisfies a test.
OrdersDue(r, base) ==
    {o \in DOMAIN r.mBucketMap : NackDue(r.mpBuckets[r.mBucketMap[o]], base)}

Nacked(b) == [b EXCEPT !.mLastNackUs = now, !.mNackCount = @ + 1]

processNacks(r, base) ==
    LET due == {r.mBucketMap[o] : o \in OrdersDue(r, base)}
    IN  [r EXCEPT !.mpBuckets =
           [s \in 0..(Slots - 1) |->
              IF s \in due THEN Nacked(r.mpBuckets[s]) ELSE r.mpBuckets[s]]]

NacksSent(r, base) ==
    {Nack(r.mpBuckets[r.mBucketMap[o]]) : o \in OrdersDue(r, base)}

TimedOut(b) == b.mTimeoutUs <= now
HolExpired(b) == HolTimeout > 0 /\ now - b.mFirstArrivalUs >= HolTimeout

\* Slip: no deadline.
ReadyWhenComplete(b) == Complete(b)

Ready(b) == Complete(b) \/ TimedOut(b) \/ HolExpired(b)

ReadyOrders(r) ==
    {o \in DOMAIN r.mBucketMap : Ready(r.mpBuckets[r.mBucketMap[o]])}

\* The SuperFrame deliverFrame hands over: mpData up to mSize.  mDeliveryOrder
\* and missing are kept for the properties only.
FrameOf(b) ==
    [mSuperFrameNo |-> b.mSavedFrameNo, mBroken |-> ~Complete(b),
     mSize |-> b.mSize, mpData |-> [i \in 0..(b.mSize - 1) |-> b.mpData[i]],
     mPayload |-> b.mPayload, mPts |-> b.mPts, mDts |-> b.mDts,
     mStreamId |-> b.mStreamId, mSourceId |-> b.mSourceId,
     mFlags |-> b.mFlags, mDeliveryOrder |-> b.mDeliveryOrder,
     missing |-> (0..b.mOfFragmentNo) \ b.mReceivedFragments]

\* Slip: the map entry stays.
deliverFramesKeepMap(r) ==
    LET slots == {r.mBucketMap[o] : o \in ReadyOrders(r)}
    IN  [r EXCEPT !.mpBuckets =
                    [s \in 0..(Slots - 1) |->
                       IF s \in slots THEN Closed(r.mpBuckets[s])
                       ELSE r.mpBuckets[s]]]

\* deliverFrame for every ready bucket: the receiver's side ...
deliverFrames(r) ==
    LET slots == {r.mBucketMap[o] : o \in ReadyOrders(r)}
    IN  [r EXCEPT !.mpBuckets =
                    [s \in 0..(Slots - 1) |->
                       IF s \in slots THEN Closed(r.mpBuckets[s])
                       ELSE r.mpBuckets[s]],
                  !.mBucketMap =
                    [o \in (DOMAIN r.mBucketMap) \ ReadyOrders(r) |->
                       r.mBucketMap[o]]]

\* std::sort on numbers that are all different.
Sorted(S) ==
    CHOOSE s \in [1..Cardinality(S) -> S] :
      \A i, j \in 1..Cardinality(S) : i < j => s[i] < s[j]

\* Slip: buckets are delivered in the order of the ring.
FramesOutByBucket(r) ==
    LET slots == Sorted({r.mBucketMap[o] : o \in ReadyOrders(r)})
    IN  [i \in 1..Len(slots) |-> FrameOf(r.mpBuckets[slots[i]])]

\* ... and the frames, sorted by delivery order.
FramesOut(r) ==
    LET orders == Sorted(ReadyOrders(r))
    IN  [i \in 1..Len(orders) |->
           FrameOf(r.mpBuckets[r.mBucketMap[orders[i]]])]

processTimeouts(r) ==
    \E base \in BaseDelays : \E r1 \in {processNacks(r, base)} :
      /\ rx' = deliverFrames(r1)
      /\ nacks' = nacks \cup NacksSent(r, base)
      /\ IF mMode = "THREADED"
           THEN /\ mDeliveryQueue' = mDeliveryQueue \o FramesOut(r1)
                /\ UNCHANGED callbacks
           ELSE /\ callbacks' = callbacks \o FramesOut(r1)
                /\ UNCHANGED mDeliveryQueue

------------------------------------------------------------------------------
(***************************************************************************)
(* Actions.                                                                *)
(***************************************************************************)
Unlocked == bundle = NoBundle

WithinBounds ==
    /\ returning < MaxCallers
    /\ now + Timeout <= MaxTime
    /\ Len(callbacks) + Len(mDeliveryQueue) < MaxFrames
    /\ rx.mFrameNoRecalc \in (-MaxOrder)..MaxOrder

\* The handler is done and mNetMutex released.  In RUN_TO_COMPLETION mode the
\* call goes on to processTimeouts.
HandlerReturns(r) ==
    /\ rx' = r
    /\ returning' = IF mMode = "RUN_TO_COMPLETION" THEN returning + 1
                    ELSE returning

\* receive of a Type1, Type2 or Type3 packet.
ReceiveFragment(p, aSourceId, memory) ==
    /\ Unlocked /\ WithinBounds
    /\ p.mFrameType \in {1, 2, 3}
    /\ HandlerReturns(Handle(rx, p, aSourceId, memory).rx)
    /\ UNCHANGED <<mMode, now, bundle, mDeliveryQueue, callbacks, nacks>>

\* receive of a Type0 packet: no effect of its own.
ReceiveSignal(p) ==
    /\ Unlocked /\ WithinBounds
    /\ p.mFrameType = 0
    /\ HandlerReturns(rx)
    /\ UNCHANGED <<mMode, now, bundle, mDeliveryQueue, callbacks, nacks>>

\* handleType4 up to its loop.  A bundle without frames stands for every bundle
\* whose header is refused.
ReceiveBundle(p, aSourceId) ==
    /\ Unlocked /\ WithinBounds
    /\ p.mFrameType = 4
    /\ IF p.frames = <<>>
         THEN HandlerReturns(rx) /\ UNCHANGED bundle
         ELSE /\ bundle' = [frames |-> p.frames, aSourceId |-> aSourceId]
              /\ UNCHANGED <<rx, returning>>
    /\ UNCHANGED <<mMode, now, mDeliveryQueue, callbacks, nacks>>

\* One inner frame; anything but OK and DUPLICATE_FRAGMENT ends the loop.
BundleRound(b, r, memory) ==
    LET p    == Head(b.frames)
        step == IF p.mFrameType # 1 THEN Refused(r, "INVALID_PARAMETER")
                ELSE handleType1(r, p, b.aSourceId, memory)
    IN  [rx |-> step.rx,
         rest |-> IF step.result \in {"OK", "DUPLICATE_FRAGMENT"}
                    THEN Tail(b.frames) ELSE <<>>]

BundleStep(memory) ==
    LET round == BundleRound(bundle, rx, memory)
    IN  /\ ~Unlocked
        /\ IF round.rest = <<>>
             THEN bundle' = NoBundle /\ HandlerReturns(round.rx)
             ELSE /\ bundle' = [bundle EXCEPT !.frames = round.rest]
                  /\ rx' = round.rx
                  /\ UNCHANGED returning
        /\ UNCHANGED <<mMode, now, mDeliveryQueue, callbacks, nacks>>

\* The second critical section of receive, in RUN_TO_COMPLETION mode.
FinishReceive ==
    /\ Unlocked /\ returning > 0
    /\ processTimeouts(rx)
    /\ returning' = returning - 1
    /\ UNCHANGED <<mMode, now, bundle>>

\* poll, in RUN_TO_COMPLETION mode.
Poll ==
    /\ Unlocked /\ mMode = "RUN_TO_COMPLETION"
    /\ processTimeouts(rx)
    /\ UNCHANGED <<mMode, now, bundle, returning>>

\* One round of workerLoop.
Worker ==
    /\ Unlocked /\ mMode = "THREADED"
    /\ processTimeouts(rx)
    /\ UNCHANGED <<mMode, now, bundle, returning>>

\* One round of deliveryLoop: take one frame, then call mCallback.
Delivery ==
    /\ mDeliveryQueue # <<>>
    /\ mDeliveryQueue' = Tail(mDeliveryQueue)
    /\ callbacks' = Append(callbacks, Head(mDeliveryQueue))
    /\ UNCHANGED <<mMode, now, rx, bundle, returning, nacks>>

\* The clock.
Tick ==
    /\ now < MaxTime
    /\ now' = now + 1
    /\ UNCHANGED <<mMode, rx, bundle, returning, mDeliveryQueue, callbacks,
                   nacks>>

Receive(p, aSourceId) ==
    \/ \E memory \in AllocOutcomes : ReceiveFragment(p, aSourceId, memory)
    \/ ReceiveSignal(p)
    \/ ReceiveBundle(p, aSourceId)

Internal ==
    \/ \E memory \in AllocOutcomes : BundleStep(memory)
    \/ FinishReceive
    \/ Poll
    \/ Worker
    \/ Delivery

Next ==
    \/ \E p \in Packets, aSourceId \in Sources : Receive(p, aSourceId)
    \/ Internal
    \/ Tick

Spec == Init /\ [][Next]_vars

\* The receiver's own threads (or the caller that polls) run whenever there is
\* something for them to do, and time passes.  Arrivals are never required.
Fairness == WF_vars(Internal) /\ WF_vars(Tick)

FairSpec == Spec /\ Fairness

------------------------------------------------------------------------------
(***************************************************************************)
(* Properties.                                                             *)
(***************************************************************************)
Buckets == {rx.mpBuckets[s] : s \in DOMAIN rx.mpBuckets}
ActiveBuckets == {b \in Buckets : b.mActive}

\* Ranges of the receiver's state.
TypeOK ==
    /\ mMode \in {"THREADED", "RUN_TO_COMPLETION"}
    /\ now \in Nat
    /\ DOMAIN rx.mpBuckets = 0..(Slots - 1)
    /\ rx.mOldFrameNo \in 0..(SeqSpace - 1)
    /\ rx.mFrameNoRecalc \in Int
    /\ rx.mFirstFrame \in BOOLEAN
    /\ returning \in Nat
    /\ \A s \in 0..(Slots - 1) :
         /\ rx.mpBuckets[s].mActive \in BOOLEAN
         /\ rx.mpBuckets[s].mDeliveryOrder \in Int \cup {NoOrder}

\* mBucketMap and the mActive flags never drift apart, whatever packets arrive
\* and whatever is refused or cannot be allocated: every entry leads to an
\* active bucket of that order, and every active bucket is found under its own
\* order.  Otherwise deliverFrame erases the wrong entry and a frame is never
\* delivered, or delivered from a bucket without a buffer.
MapCoherent ==
    /\ \A o \in DOMAIN rx.mBucketMap :
         /\ rx.mBucketMap[o] \in 0..(Slots - 1)
         /\ rx.mpBuckets[rx.mBucketMap[o]].mActive
         /\ rx.mpBuckets[rx.mBucketMap[o]].mDeliveryOrder = o
    /\ \A s \in 0..(Slots - 1) :
         rx.mpBuckets[s].mActive =>
           /\ rx.mpBuckets[s].mDeliveryOrder \in DOMAIN rx.mBucketMap
           /\ rx.mBucketMap[rx.mpBuckets[s].mDeliveryOrder] = s

\* Every memcpy and memmove of the handlers stays inside the allocation of the
\* first fragment, and the size handed to the application does too, for any
\* order and any mix of Type1, Type2 and Type3 packets.
BufferInBounds ==
    \A s \in 0..(Slots - 1) :
      LET b == rx.mpBuckets[s]
      IN  b.mActive => /\ DOMAIN b.mpData = 0..(b.mAlloc - 1)
                       /\ b.mSize \in 0..b.mAlloc

\* The count that decides between complete and broken is the number of
\* fragments marked received, all of them fragments of the frame: a duplicate
\* or a refused fragment never completes a frame.
CountsFragments ==
    \A s \in 0..(Slots - 1) :
      LET b == rx.mpBuckets[s]
      IN  b.mActive =>
            /\ b.mReceivedFragments \subseteq 0..b.mOfFragmentNo
            /\ b.mFragmentCount = Cardinality(b.mReceivedFragments)

\* handleType2: "A malformed final fragment must not poison a bucket."  A
\* packet that is not accepted changes no bucket and no map entry; only a
\* failed allocation leaves its delivery order behind.
RefusalLeavesBuckets ==
    \A p \in Packets, aSourceId \in Sources, memory \in AllocOutcomes :
      p.mFrameType \in {1, 2, 3} =>
        LET h == Handle(rx, p, aSourceId, memory)
        IN  h.result \notin {"OK", "MEMORY_ALLOCATION_ERROR"} =>
              /\ h.rx.mpBuckets = rx.mpBuckets
              /\ h.rx.mBucketMap = rx.mBucketMap

\* The application's log, frames still queued for the delivery thread included.
Log == callbacks \o mDeliveryQueue

\* Frames leave in the order of their unwrapped numbers within one pass of
\* processTimeouts, frames already handed over keep their place, and the pass
\* leaves no complete frame waiting.
PassIsOrdered ==
    [][/\ IsPrefix(Log, Log')
       /\ \A i, j \in (Len(Log) + 1)..Len(Log') :
            i < j => Log'[i].mDeliveryOrder < Log'[j].mDeliveryOrder
       /\ Len(Log') > Len(Log) =>
            \A s \in 0..(Slots - 1) :
              rx'.mpBuckets[s].mActive => ~Complete(rx'.mpBuckets[s])]_vars

\* No fragment is given up unasked: when a frame is handed over broken without
\* the head-of-line timeout, each of its missing fragments was requested by
\* some NACK, however late the adaptive delay would have been.
NackBeforeGivingUp ==
    \A i \in 1..Len(Log) : \A k \in Log[i].missing :
      \E n \in nacks :
        /\ n.mSuperFrameNo = Log[i].mSuperFrameNo
        /\ \E j \in 1..Len(n.entries) : k \in EntryFragments(n.entries[j])

\* Every frame that occupies a bucket reaches the application: complete,
\* timed out or cut short by the head-of-line timeout.
EveryFrameDelivered ==
    \A o \in 0..MaxOrder :
      (o \in DOMAIN rx.mBucketMap) ~>
        (\E i \in 1..Len(callbacks) : callbacks[i].mDeliveryOrder = o)
==============================================================================
