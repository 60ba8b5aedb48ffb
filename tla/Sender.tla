-------------------------------- MODULE Sender --------------------------------
(***************************************************************************)
(* efp::Sender: fragmentation of SuperFrames, Type4 bundling, the retention*)
(* buffer and retransmission.                                              *)
(*                                                                         *)
(* Every public operation holds mMutex from its first state change to its  *)
(* return, while it walks fragments, NACK entries or the retransmit queue  *)
(* and calls mCallback.  task is the operation that holds mMutex; a round  *)
(* of its loop is one action, and no other operation starts in between.    *)
(*                                                                         *)
(* A packet is its header plus the sequence of its payload bytes.  Byte i  *)
(* of the n-th accepted SuperFrame is <<n, i>>; the packet field frame = n *)
(* is auxiliary, no code reads it.  Statistics and mRetryCount, which no   *)
(* code reads either, are left out.                                        *)
(***************************************************************************)
EXTENDS EfpWire, NackRanges, FiniteSets, Functions

CONSTANTS
    SeqSpace,          \* superframe numbers before the wrap: 2^16
    Mtu,               \* mMtu
    Mode,              \* mSubFragmentMode
    RetentionMs,       \* mRetentionMs, 0: no retention
    RetentionMaxBytes, \* mRetentionMaxBytes
    Frames,            \* SuperFrames the application may send
    Nacks,             \* NACKs the network may hand to receiveNack
    MaxCounts,         \* arguments of processRetransmits
    MaxSends,          \* bound: accepted SuperFrames
    MaxTime,           \* bound: last tick
    MaxQueue           \* bound: retransmit queue when a NACK is taken

ASSUME SenderAssumption ==
    /\ SeqSpace \in Nat \ {0}
    /\ Mtu \in Nat /\ Mtu >= MinMtu
    /\ Mode \in SubFragmentMode
    /\ RetentionMs \in Nat /\ RetentionMaxBytes \in Nat
    /\ MaxCounts \subseteq Nat
    /\ \A m \in Frames : m.size \in Nat

VARIABLES
    now,               \* nowUs()
    mSuperFrameNo,     \* Sender::mSuperFrameNo
    ret,               \* retention buffer, its order, retransmit queue
    task,              \* the operation holding mMutex
    out,               \* packets handed to mCallback by the last step
    sent               \* history: the accepted SuperFrames

vars == <<now, mSuperFrameNo, ret, task, out, sent>>

Idle == [op |-> "idle"]

\* A Sender whose next superframe number is n.
InitAt(n) ==
    /\ now = 1
    /\ mSuperFrameNo = n
    /\ ret = [mRetentionBuffer |-> [k \in {} |-> 0], mRetentionOrder |-> <<>>,
              mRetransmitQueue |-> <<>>, mQueuedRetransmits |-> {},
              mRetentionBufferBytes |-> 0, mRetentionGeneration |-> 0]
    /\ task = Idle
    /\ out = <<>>
    /\ sent = <<>>

Init == InitAt(0)

------------------------------------------------------------------------------
(***************************************************************************)
(* Packets.                                                                *)
(***************************************************************************)
Payload == Type1PayloadSize(Mtu, Mode)

\* Bytes from..from+n-1 of the f-th SuperFrame.
Bytes(f, from, n) == [i \in 1..n |-> <<f, from + i - 1>>]

Type1Packet(f, m, sfn, plan, i) ==
    [mFrameType |-> 1, mFlags |-> m.mFlags, mStreamId |-> m.mStreamId,
     mSuperFrameNo |-> sfn, mFragmentNo |-> i, mOfFragmentNo |-> plan.total - 1,
     data |-> Bytes(f, i * Payload, Payload), frame |-> f]

Type3Packet(f, m, sfn, plan) ==
    [mFrameType |-> 3, mFlags |-> m.mFlags, mStreamId |-> m.mStreamId,
     mSuperFrameNo |-> sfn, mType1PacketSize |-> Payload,
     mOfFragmentNo |-> plan.total - 1,
     data |-> Bytes(f, plan.type1 * Payload, plan.type3), frame |-> f]

Type2Packet(f, m, sfn, plan) ==
    [mFrameType |-> 2, mFlags |-> m.mFlags, mStreamId |-> m.mStreamId,
     mPayload |-> m.mPayload, mSizeOfData |-> plan.type2,
     mSuperFrameNo |-> sfn, mOfFragmentNo |-> plan.total - 1,
     mType1PacketSize |-> PlanType1PacketSize(plan, Payload),
     mPts |-> m.mPts, mDtsPtsDiff |-> DtsPtsDiff(m.mPts, m.mDts),
     data |-> Bytes(f, m.size - plan.type2, plan.type2), frame |-> f]

\* The fragments of one SuperFrame in the order they are produced.
Fragments(f, m, sfn, plan) ==
    [i \in 1..plan.type1 |-> Type1Packet(f, m, sfn, plan, i - 1)]
      \o (IF plan.type3 > 0 THEN <<Type3Packet(f, m, sfn, plan)>> ELSE <<>>)
      \o <<Type2Packet(f, m, sfn, plan)>>

FragmentNo(p) ==
    CASE p.mFrameType = 1 -> p.mFragmentNo
      [] p.mFrameType = 2 -> p.mOfFragmentNo
      [] p.mFrameType = 3 -> p.mOfFragmentNo - 1

PacketSize(p) ==
    Len(p.data) + (IF p.mFrameType = 2 THEN FrameType2Size ELSE FrameType1Size)

BundlePacket(m, frames) ==
    [mFrameType |-> 4, mFlags |-> m.mFlags, frames |-> frames]

------------------------------------------------------------------------------
(***************************************************************************)
(* The retention buffer.  r is ret.                                        *)
(***************************************************************************)
makeRetentionKey(aSuperFrameNo, aFragmentNo) == <<aSuperFrameNo, aFragmentNo>>

\* Slip: the key alone decides.
LiveByKey(r, rec) == rec.mKey \in DOMAIN r.mRetentionBuffer

\* The entry a record of mRetentionOrder or mRetransmitQueue was made for is
\* still there; a replaced entry has a newer generation.
Live(r, rec) ==
    /\ rec.mKey \in DOMAIN r.mRetentionBuffer
    /\ r.mRetentionBuffer[rec.mKey].mGeneration = rec.mGeneration

EntrySize(r, key) == PacketSize(r.mRetentionBuffer[key].mData)

\* Positions of live records among the first n of mRetentionOrder.
LiveAmong(r, n) == {i \in 1..n : Live(r, r.mRetentionOrder[i])}

\* Slip: the evicted bytes are not given back.
BytesAfterUnchanged(r, n) == r.mRetentionBufferBytes

BytesAfter(r, n) ==
    r.mRetentionBufferBytes
      - SumFunction([i \in LiveAmong(r, n) |->
                       EntrySize(r, r.mRetentionOrder[i].mKey)])

Expired(r, key) == r.mRetentionBuffer[key].mTimestampUs < now - RetentionMs

\* The eviction loop ends before record n+1: it is live, not expired, and what
\* is left fits the limit together with aRequiredBytes.
StopsAfter(r, n, aRequiredBytes) ==
    \/ n = Len(r.mRetentionOrder)
    \/ LET rec == r.mRetentionOrder[n + 1]
       IN  /\ Live(r, rec)
           /\ ~Expired(r, rec.mKey)
           /\ aRequiredBytes <= RetentionMaxBytes
           /\ BytesAfter(r, n) <= RetentionMaxBytes - aRequiredBytes

\* Slip: the records leave, the entries stay.
EvictRecordsOnly(r, n) ==
    [r EXCEPT !.mRetentionOrder = SubSeq(@, n + 1, Len(@))]

\* The oldest n records leave, stale ones and live ones with their entries.
EvictFirst(r, n) ==
    LET gone == {r.mRetentionOrder[i] : i \in LiveAmong(r, n)}
    IN  [r EXCEPT
           !.mRetentionBuffer =
              [k \in (DOMAIN r.mRetentionBuffer) \ {rec.mKey : rec \in gone} |->
                 r.mRetentionBuffer[k]],
           !.mRetentionOrder = SubSeq(@, n + 1, Len(@)),
           !.mQueuedRetransmits = @ \ {rec.mGeneration : rec \in gone},
           !.mRetentionBufferBytes = BytesAfter(r, n)]

EvictCount(r, aRequiredBytes) ==
    CHOOSE n \in 0..Len(r.mRetentionOrder) :
      /\ StopsAfter(r, n, aRequiredBytes)
      /\ \A k \in 0..(n - 1) : ~StopsAfter(r, k, aRequiredBytes)

evictOldRetention(r, aRequiredBytes) ==
    EvictFirst(r, EvictCount(r, aRequiredBytes))

\* The entry goes in; an entry of the same key makes room first.
Insert(r, key, p) ==
    LET old == key \in DOMAIN r.mRetentionBuffer
        g   == r.mRetentionGeneration + 1
    IN  [r EXCEPT
           !.mRetentionBuffer =
              [k \in (DOMAIN r.mRetentionBuffer) \cup {key} |->
                 IF k = key THEN [mGeneration |-> g, mTimestampUs |-> now,
                                  mStreamId |-> p.mStreamId, mData |-> p]
                 ELSE r.mRetentionBuffer[k]],
           !.mRetentionOrder = Append(@, [mKey |-> key, mGeneration |-> g]),
           !.mQueuedRetransmits =
              IF old THEN @ \ {r.mRetentionBuffer[key].mGeneration} ELSE @,
           !.mRetentionBufferBytes =
              @ - (IF old THEN EntrySize(r, key) ELSE 0) + PacketSize(p),
           !.mRetentionGeneration = g]

\* Slip: no room is made in advance.
RequiredBytesNone(r, key, size) == 0

\* Bytes retainFragment asks evictOldRetention to make room for: the growth
\* over an entry of the same key.
RequiredBytes(r, key, size) ==
    LET existing == IF key \in DOMAIN r.mRetentionBuffer
                      THEN EntrySize(r, key) ELSE 0
    IN  IF size > existing THEN size - existing ELSE 0

retainFragment(r, p) ==
    LET key == makeRetentionKey(p.mSuperFrameNo, FragmentNo(p))
    IN  IF RetentionMs = 0 \/ PacketSize(p) > RetentionMaxBytes THEN r
        ELSE Insert(evictOldRetention(r, RequiredBytes(r, key, PacketSize(p))),
                    key, p)

\* receiveNack for one fragment: queue the entry once.
QueueRetransmit(r, ask) ==
    LET key == makeRetentionKey(ask.mSuperFrameNo, ask.mFragmentNo)
        e   == r.mRetentionBuffer[key]
    IN  IF /\ key \in DOMAIN r.mRetentionBuffer
           /\ e.mStreamId = ask.mStreamId
           /\ e.mGeneration \notin r.mQueuedRetransmits
          THEN [r EXCEPT
                  !.mQueuedRetransmits = @ \cup {e.mGeneration},
                  !.mRetransmitQueue =
                     Append(@, [mKey |-> key, mGeneration |-> e.mGeneration,
                                frame |-> e.mData.frame])]
          ELSE r

\* Slip: the mark that suppresses repeated requests stays.
PopKeepsMark(r) == [r EXCEPT !.mRetransmitQueue = Tail(@)]

\* The front of the retransmit queue leaves ...
PopRetransmit(r) ==
    [r EXCEPT !.mRetransmitQueue = Tail(@),
              !.mQueuedRetransmits = @ \ {Head(r.mRetransmitQueue).mGeneration}]

\* ... and is sent again unless its entry is gone or replaced.
RetransmitLives(r) == Live(r, Head(r.mRetransmitQueue))
Retransmit(r) == r.mRetentionBuffer[Head(r.mRetransmitQueue).mKey].mData

------------------------------------------------------------------------------
(***************************************************************************)
(* send.                                                                   *)
(***************************************************************************)

\* Slip: a counter wider than the 16 bits of the header.
WideNext(no) == no + 1

\* mSuperFrameNo++ on a uint16_t.
NextSuperFrameNo(no) == (no + 1) % SeqSpace

\* Up to the first fragment.  Old retention is evicted even when the frame is
\* then refused; a refused frame takes no superframe number.
Send(m) ==
    LET f == Len(sent) + 1
    IN  /\ task = Idle
        /\ Len(sent) < MaxSends
        /\ m.size > 0 /\ m.size <= MAX_SUPERFRAME_SIZE
        /\ ret' = IF RetentionMs > 0 THEN evictOldRetention(ret, 0) ELSE ret
        /\ IF SendVerdict(m.size, Mtu, Mode) = "OK"
             THEN /\ mSuperFrameNo' = NextSuperFrameNo(mSuperFrameNo)
                  /\ task' = [op |-> "send", frame |-> m,
                              todo |-> Fragments(f, m, mSuperFrameNo,
                                                 SendPlan(m.size, Mtu, Mode)),
                              bundle |-> <<>>, room |-> 0]
                  /\ sent' = Append(sent, m)
             ELSE UNCHANGED <<mSuperFrameNo, task, sent>>
        /\ out' = <<>>
        /\ UNCHANGED now

\* The sending operation after its next fragment.
Advanced(todo, frames, room) ==
    IF todo = <<>> THEN Idle
    ELSE [task EXCEPT !.todo = todo, !.bundle = frames, !.room = room]

Sending == task.op = "send"
Bundled == Sending /\ Mode # SINGLE /\ Head(task.todo).mFrameType = 1

\* A fragment that travels alone: every one in SINGLE mode, Type3 and Type2.
SendFragment ==
    LET p == Head(task.todo)
    IN  /\ Sending /\ ~Bundled
        /\ ret' = retainFragment(ret, p)
        /\ out' = <<p>>
        /\ task' = Advanced(Tail(task.todo), <<>>, 0)
        /\ UNCHANGED <<now, mSuperFrameNo, sent>>

\* Type1 fragments the next bundle can take.
FragsInBundle ==
    LET type1s == Cardinality({i \in 1..Len(task.todo) :
                                 task.todo[i].mFrameType = 1})
    IN  IF Mode < type1s THEN Mode ELSE type1s

\* Slip: any retransmit joins the bundle.
AnyFitsBundle(p) == TRUE

\* The size is all the code compares.
FitsBundle(p) == PacketSize(p) = Type1FrameSize(Mtu, Mode)

\* A new bundle.  When it has two fragments or more, one retransmit takes the
\* first place if it has the size of a Type1 frame, or leaves alone.
StartBundle ==
    LET n      == FragsInBundle
        asked  == ret.mRetransmitQueue # <<>> /\ n > 1
        again  == asked /\ RetransmitLives(ret)
        inside == again /\ FitsBundle(Retransmit(ret))
    IN  /\ Bundled /\ task.room = 0
        /\ ret' = IF asked THEN PopRetransmit(ret) ELSE ret
        /\ out' = IF again /\ ~inside THEN <<Retransmit(ret)>> ELSE <<>>
        /\ task' = IF inside
                     THEN Advanced(task.todo, <<Retransmit(ret)>>, n - 1)
                     ELSE Advanced(task.todo, <<>>, n)
        /\ UNCHANGED <<now, mSuperFrameNo, sent>>

\* One fragment of the bundle; the last one sends it.
BundleFragment ==
    LET p      == Head(task.todo)
        frames == Append(task.bundle, p)
    IN  /\ Bundled /\ task.room > 0
        /\ ret' = retainFragment(ret, p)
        /\ IF task.room = 1
             THEN /\ out' = <<BundlePacket(task.frame, frames)>>
                  /\ task' = Advanced(Tail(task.todo), <<>>, 0)
             ELSE /\ out' = <<>>
                  /\ task' = Advanced(Tail(task.todo), frames, task.room - 1)
        /\ UNCHANGED <<now, mSuperFrameNo, sent>>

------------------------------------------------------------------------------
(***************************************************************************)
(* receiveNack and processRetransmits.                                     *)
(***************************************************************************)

\* The fragments a NACK asks for, up to the first entry that is refused.
AskedFragments(n) ==
    LET upTo == CHOOSE k \in 0..Len(n.entries) :
                  /\ \A i \in 1..k : ~EntryRefused(n.entries[i])
                  /\ k < Len(n.entries) => EntryRefused(n.entries[k + 1])
        walk[i \in 0..upTo] ==
          IF i = 0 THEN <<>>
          ELSE walk[i - 1] \o
                 [j \in 1..(n.entries[i].mFragmentCount + 1) |->
                    [mStreamId |-> n.mStreamId,
                     mSuperFrameNo |-> n.mSuperFrameNo,
                     mFragmentNo |-> n.entries[i].mFragmentNo + j - 1]]
    IN  walk[upTo]

ReceiveNack(n) ==
    /\ task = Idle
    /\ Len(ret.mRetransmitQueue) < MaxQueue
    /\ AskedFragments(n) # <<>>
    /\ task' = [op |-> "nack", todo |-> AskedFragments(n)]
    /\ out' = <<>>
    /\ UNCHANGED <<now, mSuperFrameNo, ret, sent>>

NackFragment ==
    /\ task.op = "nack"
    /\ ret' = QueueRetransmit(ret, Head(task.todo))
    /\ task' = IF Len(task.todo) = 1 THEN Idle
               ELSE [task EXCEPT !.todo = Tail(@)]
    /\ out' = <<>>
    /\ UNCHANGED <<now, mSuperFrameNo, sent>>

ProcessRetransmits(aMaxCount) ==
    /\ task = Idle
    /\ ret.mRetransmitQueue # <<>> /\ aMaxCount > 0
    /\ task' = [op |-> "retransmit", left |-> aMaxCount]
    /\ out' = <<>>
    /\ UNCHANGED <<now, mSuperFrameNo, ret, sent>>

\* Stale requests are dropped without being counted.
RetransmitStep ==
    LET again == RetransmitLives(ret)
        left  == IF again THEN task.left - 1 ELSE task.left
    IN  /\ task.op = "retransmit"
        /\ ret' = PopRetransmit(ret)
        /\ out' = IF again THEN <<Retransmit(ret)>> ELSE <<>>
        /\ task' = IF left = 0 \/ Len(ret.mRetransmitQueue) = 1 THEN Idle
                   ELSE [task EXCEPT !.left = left]
        /\ UNCHANGED <<now, mSuperFrameNo, sent>>

\* The clock.
Tick ==
    /\ now < MaxTime
    /\ now' = now + 1
    /\ out' = <<>>
    /\ UNCHANGED <<mSuperFrameNo, ret, task, sent>>

\* A round of the operation that holds mMutex.
Internal ==
    \/ SendFragment \/ StartBundle \/ BundleFragment
    \/ NackFragment \/ RetransmitStep

Next ==
    \/ \E m \in Frames : Send(m)
    \/ \E n \in Nacks : ReceiveNack(n)
    \/ \E c \in MaxCounts : ProcessRetransmits(c)
    \/ Internal
    \/ Tick

Spec == Init /\ [][Next]_vars

------------------------------------------------------------------------------
(***************************************************************************)
(* Properties.                                                             *)
(***************************************************************************)
Keys == DOMAIN ret.mRetentionBuffer
Order == ret.mRetentionOrder
Queue == ret.mRetransmitQueue

\* Ranges of the sender's state.
TypeOK ==
    /\ now \in Nat
    /\ mSuperFrameNo \in 0..(SeqSpace - 1)
    /\ ret.mRetentionGeneration \in Nat
    /\ ret.mQueuedRetransmits \subseteq 1..ret.mRetentionGeneration
    /\ task.op \in {"idle", "send", "nack", "retransmit"}

\* mRetentionBufferBytes is the number of bytes retained: the counter never
\* drifts, through eviction, replacement after a sequence wrap, and refusal.
BytesAccounted ==
    ret.mRetentionBufferBytes = SumFunction([k \in Keys |-> EntrySize(ret, k)])

\* Nothing leaks: every retained fragment has a record in mRetentionOrder, so
\* eviction will find it; records are in the order of their generations, so
\* eviction finds the oldest first and each entry once.
OrderCoversBuffer ==
    /\ \A k \in Keys : \E i \in 1..Len(Order) :
         /\ Order[i].mKey = k
         /\ Order[i].mGeneration = ret.mRetentionBuffer[k].mGeneration
    /\ \A i, j \in 1..Len(Order) :
         i < j => Order[i].mGeneration < Order[j].mGeneration
    /\ \A i \in 1..Len(Order) :
         Order[i].mGeneration \in 1..ret.mRetentionGeneration

\* mQueuedRetransmits, which suppresses repeated requests, holds the requests
\* that can still be served, each queued once: a fragment is neither queued
\* twice nor locked out of the queue by a request that was dropped.
QueueCoherent ==
    /\ ret.mQueuedRetransmits =
         {Queue[i].mGeneration : i \in {j \in 1..Len(Queue) : Live(ret, Queue[j])}}
    /\ \A i, j \in 1..Len(Queue) :
         Queue[i].mGeneration = Queue[j].mGeneration => i = j

\* The packet p is the fragment that was asked for: of the SuperFrame it was of
\* when the NACK came, and of the number the NACK gave.
Answers(p, request) ==
    /\ p.frame = request.frame
    /\ makeRetentionKey(p.mSuperFrameNo, FragmentNo(p)) = request.mKey

\* A retransmission repeats the fragment of the SuperFrame the NACK was about,
\* also when its key was taken over by a later SuperFrame in the meantime
\* (getRetransmitFragment).
AnswersHead ==
    Len(ret'.mRetransmitQueue) < Len(Queue) =>
      /\ \A i \in 1..Len(out') : Answers(out'[i], Head(Queue))
      /\ task'.op = "send" =>
           \A i \in 1..Len(task'.bundle) :
             Answers(task'.bundle[i], Head(Queue))

RetransmitsWhatWasAsked == [][AnswersHead]_vars

\* A bundle is what handleType4 can parse by equal division and the network
\* can carry: Type1 frames of one size, no more of them than the mode allows,
\* within the MTU, with or without a retransmit in the first place.
BundlesParse ==
    \A i \in 1..Len(out) :
      out[i].mFrameType = 4 =>
        LET frames == out[i].frames
        IN  /\ Len(frames) \in 1..Mode
            /\ \A j \in 1..Len(frames) :
                 /\ frames[j].mFrameType = 1
                 /\ PacketSize(frames[j]) = PacketSize(frames[1])
            /\ FrameType4Size + (Len(frames) * PacketSize(frames[1])) <= Mtu

\* tests/test_bundle.cpp, "Retention byte limit is enforced during a send":
\* the retention buffer stays within mRetentionMaxBytes.  Once the sequence has
\* wrapped, retainFragment discounts the size of an entry of the same key that
\* its own eviction may remove, and one packet more can be held.
RetentionWithinLimit ==
    ret.mRetentionBufferBytes
      <= RetentionMaxBytes + (IF Len(sent) > SeqSpace THEN Mtu ELSE 0)
==============================================================================
