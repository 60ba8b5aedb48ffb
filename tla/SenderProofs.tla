----------------------------- MODULE SenderProofs -----------------------------
(***************************************************************************)
(* Proofs about what the sender retains, sends and sends again, for every  *)
(* MTU, mode, limit, sequence space and set of SuperFrames and NACKs.      *)
(*                                                                         *)
(* The first half rests on the generation numbers: a retained fragment     *)
(* gets a new one, so a record of the retention order or of the retransmit *)
(* queue can only ever match the entry it was made for.  The second half   *)
(* is about bytes: those counted, those allowed, and those in a bundle.    *)
(***************************************************************************)
EXTENDS Sender, DataLemmas

------------------------------------------------------------------------------
\* The eviction loop ends, at the latest when nothing is left.
LEMMA EvictCountFacts ==
    ASSUME NEW r, NEW aRequiredBytes, IsSeq(r.mRetentionOrder)
    PROVE  /\ EvictCount(r, aRequiredBytes) \in 0..Len(r.mRetentionOrder)
           /\ StopsAfter(r, EvictCount(r, aRequiredBytes), aRequiredBytes)
<1> DEFINE last == Len(r.mRetentionOrder)
           T == {n \in 0..last : StopsAfter(r, n, aRequiredBytes)}
<1>1. last \in Nat
  BY LenIsNat
<1>2. last \in T
  BY <1>1 DEF StopsAfter
<1>3. T \in SUBSET Nat /\ T # {}
  BY <1>1, <1>2
<1>4. PICK n \in T : \A k \in 0..(n - 1) : k \notin T
  BY <1>3, SmallestOfSet
<1>5. n \in 0..last /\ StopsAfter(r, n, aRequiredBytes)
  BY <1>4
<1>6. ASSUME NEW k \in 0..(n - 1)
      PROVE  ~StopsAfter(r, k, aRequiredBytes)
  <2>1. k \in 0..last
    BY <1>1, <1>5
  <2> QED BY <1>4, <2>1
<1> QED BY <1>5, <1>6 DEF EvictCount

------------------------------------------------------------------------------
(***************************************************************************)
(* The inductive invariant.                                                *)
(***************************************************************************)
RetFields == {"mRetentionBuffer", "mRetentionOrder", "mRetransmitQueue",
              "mQueuedRetransmits", "mRetentionBufferBytes",
              "mRetentionGeneration"}

RetTyped(r) ==
    /\ r = [f \in RetFields |-> r[f]]
    /\ IsSeq(r.mRetentionOrder) /\ IsSeq(r.mRetransmitQueue)
    /\ r.mRetentionGeneration \in Nat

\* The records of mRetentionOrder, oldest first, and the entries they find.
Ordered(r) ==
    LET order == r.mRetentionOrder
    IN  /\ \A k \in DOMAIN r.mRetentionBuffer : \E i \in 1..Len(order) :
             /\ order[i].mKey = k
             /\ order[i].mGeneration = r.mRetentionBuffer[k].mGeneration
        /\ \A i, j \in 1..Len(order) :
             i < j => order[i].mGeneration < order[j].mGeneration
        /\ \A i \in 1..Len(order) :
             order[i].mGeneration \in 1..r.mRetentionGeneration

\* Generations of the requests that can still be served.
Waiting(r) ==
    LET queue == r.mRetransmitQueue
    IN  {queue[i].mGeneration : i \in {j \in 1..Len(queue) : Live(r, queue[j])}}

\* mQueuedRetransmits marks the requests that can be served, each once.
Marked(r) ==
    LET queue == r.mRetransmitQueue
    IN  /\ r.mQueuedRetransmits = Waiting(r)
        /\ \A i, j \in 1..Len(queue) :
             queue[i].mGeneration = queue[j].mGeneration => i = j

\* A request names the entry of its generation and no other, and remembers the
\* SuperFrame of that entry.
Faithful(r) ==
    \A i \in 1..Len(r.mRetransmitQueue) :
      LET q == r.mRetransmitQueue[i]
      IN  /\ q.mGeneration \in 1..r.mRetentionGeneration
          /\ \A k \in DOMAIN r.mRetentionBuffer :
               r.mRetentionBuffer[k].mGeneration = q.mGeneration =>
                 /\ k = q.mKey
                 /\ q.frame = r.mRetentionBuffer[k].mData.frame

RetInv(r) == RetTyped(r) /\ Ordered(r) /\ Marked(r) /\ Faithful(r)

\* Every entry is filed under its own key.
Filed(r) ==
    \A k \in DOMAIN r.mRetentionBuffer :
      LET p == r.mRetentionBuffer[k].mData
      IN  k = makeRetentionKey(p.mSuperFrameNo, FragmentNo(p))

SendFields == {"op", "frame", "todo", "bundle", "room"}

\* The operation holding mMutex; processRetransmits runs while requests wait.
TaskTyped ==
    \/ task = Idle
    \/ /\ task.op = "send"
       /\ task = [f \in SendFields |-> task[f]]
    \/ /\ task.op = "nack"
       /\ task = [op |-> "nack", todo |-> task.todo]
    \/ /\ task.op = "retransmit"
       /\ task = [op |-> "retransmit", left |-> task.left]
       /\ ret.mRetransmitQueue # <<>>

IInv ==
    /\ now \in Nat
    /\ mSuperFrameNo \in 0..(SeqSpace - 1)
    /\ RetInv(ret)
    /\ TaskTyped

\* Two entries never have the same generation.
LEMMA OneEntryPerGeneration ==
    ASSUME NEW r, Ordered(r), IsSeq(r.mRetentionOrder),
           NEW k \in DOMAIN r.mRetentionBuffer,
           NEW l \in DOMAIN r.mRetentionBuffer,
           r.mRetentionBuffer[k].mGeneration = r.mRetentionBuffer[l].mGeneration
    PROVE  k = l
<1> DEFINE order == r.mRetentionOrder
<1>1. Len(order) \in Nat
  BY LenIsNat
<1>2. PICK i \in 1..Len(order) :
        /\ order[i].mKey = k
        /\ order[i].mGeneration = r.mRetentionBuffer[k].mGeneration
  BY DEF Ordered
<1>3. PICK j \in 1..Len(order) :
        /\ order[j].mKey = l
        /\ order[j].mGeneration = r.mRetentionBuffer[l].mGeneration
  BY DEF Ordered
<1>4. /\ order[i].mGeneration \in Int /\ order[j].mGeneration \in Int
      /\ i < j => order[i].mGeneration < order[j].mGeneration
      /\ j < i => order[j].mGeneration < order[i].mGeneration
  BY DEF Ordered
<1>5. i = j
  BY <1>1, <1>2, <1>3, <1>4
<1> QED BY <1>2, <1>3, <1>5

\* Generations of the entries are among those given out.
LEMMA EntryGeneration ==
    ASSUME NEW r, Ordered(r), NEW k \in DOMAIN r.mRetentionBuffer
    PROVE  r.mRetentionBuffer[k].mGeneration \in 1..r.mRetentionGeneration
  BY DEF Ordered

LEMMA WaitingMember ==
    ASSUME NEW r, NEW g
    PROVE  g \in Waiting(r)
             <=> \E i \in 1..Len(r.mRetransmitQueue) :
                   /\ Live(r, r.mRetransmitQueue[i])
                   /\ r.mRetransmitQueue[i].mGeneration = g
  BY DEF Waiting

------------------------------------------------------------------------------
(***************************************************************************)
(* Eviction.                                                               *)
(***************************************************************************)

\* The keys of the entries that leave with the first n records.
GoneKeys(r, n) == {r.mRetentionOrder[i].mKey : i \in LiveAmong(r, n)}

LEMMA EvictFields ==
    ASSUME NEW r, NEW n, RetTyped(r)
    PROVE  LET e == EvictFirst(r, n)
           IN  /\ e = [f \in RetFields |-> e[f]]
               /\ e.mRetentionBuffer =
                    [k \in (DOMAIN r.mRetentionBuffer) \ GoneKeys(r, n) |->
                       r.mRetentionBuffer[k]]
               /\ e.mRetentionOrder =
                    SubSeq(r.mRetentionOrder, n + 1, Len(r.mRetentionOrder))
               /\ e.mRetransmitQueue = r.mRetransmitQueue
               /\ e.mQueuedRetransmits =
                    r.mQueuedRetransmits
                      \ {r.mRetentionOrder[i].mGeneration : i \in LiveAmong(r, n)}
               /\ e.mRetentionGeneration = r.mRetentionGeneration
<1> DEFINE gone == {r.mRetentionOrder[i] : i \in LiveAmong(r, n)}
<1>1. {rec.mKey : rec \in gone} = GoneKeys(r, n)
  BY DEF GoneKeys
<1>2. {rec.mGeneration : rec \in gone}
        = {r.mRetentionOrder[i].mGeneration : i \in LiveAmong(r, n)}
  OBVIOUS
<1> QED BY <1>1, <1>2 DEF EvictFirst, RetTyped, RetFields

\* The oldest n records leave: what stays is in order, and the marks of the
\* requests that lost their entry are gone, those and no others.
LEMMA EvictInv ==
    ASSUME NEW r, RetInv(r), NEW n \in 0..Len(r.mRetentionOrder)
    PROVE  RetInv(EvictFirst(r, n))
<1> DEFINE e == EvictFirst(r, n)
           buf == r.mRetentionBuffer
           order == r.mRetentionOrder
           queue == r.mRetransmitQueue
           G == GoneKeys(r, n)
           gens == {order[i].mGeneration : i \in LiveAmong(r, n)}
           left == SubSeq(order, n + 1, Len(order))
<1>1. RetTyped(r) /\ Ordered(r) /\ Marked(r) /\ Faithful(r)
  BY DEF RetInv
<1>2. /\ e = [f \in RetFields |-> e[f]]
      /\ e.mRetentionBuffer = [k \in (DOMAIN buf) \ G |-> buf[k]]
      /\ e.mRetentionOrder = left
      /\ e.mRetransmitQueue = queue
      /\ e.mQueuedRetransmits = r.mQueuedRetransmits \ gens
      /\ e.mRetentionGeneration = r.mRetentionGeneration
  BY <1>1, EvictFields
<1>3. /\ IsSeq(order) /\ IsSeq(queue)
      /\ Len(order) \in Nat /\ Len(queue) \in Nat
      /\ r.mRetentionGeneration \in Nat
  BY <1>1, LenIsNat DEF RetTyped
<1>4. /\ IsSeq(left)
      /\ Len(left) = Len(order) - n
      /\ \A i \in 1..(Len(order) - n) : left[i] = order[n + i]
  BY <1>3, DropFacts
<1>5. \A k \in DOMAIN e.mRetentionBuffer :
        k \in DOMAIN buf /\ k \notin G /\ e.mRetentionBuffer[k] = buf[k]
  BY <1>2
<1> HIDE DEF e, left
<1>6. RetTyped(e)
  BY <1>2, <1>3, <1>4 DEF RetTyped
<1>7. Ordered(e)
  <2>1. ASSUME NEW k \in DOMAIN e.mRetentionBuffer
        PROVE  \E i \in 1..Len(left) :
                 /\ left[i].mKey = k
                 /\ left[i].mGeneration = e.mRetentionBuffer[k].mGeneration
    <3>1. PICK i \in 1..Len(order) :
            order[i].mKey = k /\ order[i].mGeneration = buf[k].mGeneration
      BY <1>1, <1>5 DEF Ordered
    <3>2. CASE i \in 1..n
      <4>1. i \in LiveAmong(r, n)
        BY <1>5, <3>1, <3>2 DEF LiveAmong, Live
      <4>2. k \in G
        BY <3>1, <4>1 DEF GoneKeys
      <4> QED BY <1>5, <4>2
    <3>3. CASE i \notin 1..n
      <4>1. i - n \in 1..Len(left) /\ left[i - n] = order[n + (i - n)]
        BY <1>3, <1>4, <3>3
      <4>2. n + (i - n) = i
        BY <1>3
      <4> QED BY <1>5, <3>1, <4>1, <4>2
    <3> QED BY <3>2, <3>3
  <2>2. ASSUME NEW i \in 1..Len(left), NEW j \in 1..Len(left), i < j
        PROVE  left[i].mGeneration < left[j].mGeneration
    <3>1. n + i \in 1..Len(order) /\ n + j \in 1..Len(order) /\ n + i < n + j
      BY <1>3, <1>4, <2>2
    <3>2. order[n + i].mGeneration < order[n + j].mGeneration
      BY <1>1, <3>1 DEF Ordered
    <3>3. left[i] = order[n + i] /\ left[j] = order[n + j]
      BY ONLY <1>4, <2>2
    <3> QED BY ONLY <3>2, <3>3
  <2>3. ASSUME NEW i \in 1..Len(left)
        PROVE  left[i].mGeneration \in 1..r.mRetentionGeneration
    <3>1. n + i \in 1..Len(order)
      BY <1>3, <1>4
    <3>2. order[n + i].mGeneration \in 1..r.mRetentionGeneration
      BY <1>1, <3>1 DEF Ordered
    <3> QED BY <1>3, <1>4, <3>2
  <2> QED BY <1>2, <2>1, <2>2, <2>3 DEF Ordered
<1>8. \A q : Live(e, q) <=> Live(r, q) /\ q.mKey \notin G
  BY <1>2, <1>5 DEF Live
<1>9. ASSUME NEW q, Live(r, q)
      PROVE  q.mKey \in G <=> q.mGeneration \in gens
  <2>1. ASSUME q.mKey \in G
        PROVE  q.mGeneration \in gens
    <3>1. PICK i \in LiveAmong(r, n) : order[i].mKey = q.mKey
      BY <2>1 DEF GoneKeys
    <3>2. order[i].mGeneration = q.mGeneration
      BY <1>9, <3>1 DEF LiveAmong, Live
    <3> QED BY <3>1, <3>2
  <2>2. ASSUME q.mGeneration \in gens
        PROVE  q.mKey \in G
    <3>1. PICK i \in LiveAmong(r, n) : order[i].mGeneration = q.mGeneration
      BY <2>2
    <3>2. /\ order[i].mKey \in DOMAIN buf /\ q.mKey \in DOMAIN buf
          /\ buf[order[i].mKey].mGeneration = buf[q.mKey].mGeneration
      BY <1>9, <3>1 DEF LiveAmong, Live
    <3>3. order[i].mKey = q.mKey
      BY <1>1, <1>3, <3>2, OneEntryPerGeneration
    <3> QED BY <3>1, <3>3 DEF GoneKeys
  <2> QED BY <2>1, <2>2
<1>10. Marked(e)
  <2>1. r.mQueuedRetransmits = Waiting(r)
    BY <1>1 DEF Marked
  <2>2. \A j \in 1..Len(queue) :
          Live(e, queue[j])
            <=> Live(r, queue[j]) /\ queue[j].mGeneration \notin gens
    BY <1>8, <1>9
  <2>3. ASSUME NEW g
        PROVE  g \in e.mQueuedRetransmits <=> g \in Waiting(e)
    <3>1. g \in Waiting(r)
            <=> \E i \in 1..Len(queue) :
                  Live(r, queue[i]) /\ queue[i].mGeneration = g
      BY WaitingMember
    <3>2. g \in Waiting(e)
            <=> \E i \in 1..Len(queue) :
                  Live(e, queue[i]) /\ queue[i].mGeneration = g
      BY <1>2, WaitingMember
    <3>3. g \in e.mQueuedRetransmits <=> g \in Waiting(r) /\ g \notin gens
      BY <1>2, <2>1
    <3> HIDE DEF gens
    <3> QED BY <2>2, <3>1, <3>2, <3>3
  <2>4. e.mQueuedRetransmits = Waiting(e)
    BY <2>3
  <2>5. \A i, j \in 1..Len(queue) :
          queue[i].mGeneration = queue[j].mGeneration => i = j
    BY <1>1 DEF Marked
  <2> QED BY <1>2, <2>4, <2>5 DEF Marked
<1>11. Faithful(e)
  BY <1>1, <1>2, <1>5 DEF Faithful
<1> QED BY <1>6, <1>7, <1>10, <1>11 DEF RetInv, e

LEMMA evictOldRetentionInv ==
    ASSUME NEW r, RetInv(r), NEW aRequiredBytes
    PROVE  /\ RetInv(evictOldRetention(r, aRequiredBytes))
           /\ evictOldRetention(r, aRequiredBytes).mRetransmitQueue
                = r.mRetransmitQueue
<1> DEFINE n == EvictCount(r, aRequiredBytes)
<1>1. RetTyped(r)
  BY DEF RetInv
<1>2. n \in 0..Len(r.mRetentionOrder)
  BY <1>1, EvictCountFacts DEF RetTyped
<1> HIDE DEF n
<1>3. RetInv(EvictFirst(r, n))
  BY <1>2, EvictInv
<1>4. EvictFirst(r, n).mRetransmitQueue = r.mRetransmitQueue
  BY <1>1, EvictFields
<1> QED BY <1>3, <1>4 DEF evictOldRetention, n

------------------------------------------------------------------------------
(***************************************************************************)
(* Retention.                                                              *)
(***************************************************************************)
\* What Insert leaves: e is r with a new entry under key.
Inserted(r, key, e) ==
    LET buf == r.mRetentionBuffer
        g   == r.mRetentionGeneration + 1
    IN  /\ e = [f \in RetFields |-> e[f]]
        /\ DOMAIN e.mRetentionBuffer = (DOMAIN buf) \cup {key}
        /\ e.mRetentionBuffer[key].mGeneration = g
        /\ \A k \in (DOMAIN buf) \ {key} : e.mRetentionBuffer[k] = buf[k]
        /\ e.mRetentionOrder =
             Append(r.mRetentionOrder, [mKey |-> key, mGeneration |-> g])
        /\ e.mRetransmitQueue = r.mRetransmitQueue
        /\ e.mQueuedRetransmits =
             IF key \in DOMAIN buf
               THEN r.mQueuedRetransmits \ {buf[key].mGeneration}
               ELSE r.mQueuedRetransmits
        /\ e.mRetentionGeneration = g

LEMMA InsertFields ==
    ASSUME NEW r, NEW key, NEW p, RetTyped(r)
    PROVE  Inserted(r, key, Insert(r, key, p))
<1> DEFINE e == Insert(r, key, p)
           buf == r.mRetentionBuffer
           g == r.mRetentionGeneration + 1
           entry == [mGeneration |-> g, mTimestampUs |-> now,
                     mStreamId |-> p.mStreamId, mData |-> p]
<1>1. /\ e = [f \in RetFields |-> e[f]]
      /\ e.mRetentionBuffer = [k \in (DOMAIN buf) \cup {key} |->
                                 IF k = key THEN entry ELSE buf[k]]
      /\ e.mRetentionOrder =
           Append(r.mRetentionOrder, [mKey |-> key, mGeneration |-> g])
      /\ e.mRetransmitQueue = r.mRetransmitQueue
      /\ e.mQueuedRetransmits =
           IF key \in DOMAIN buf
             THEN r.mQueuedRetransmits \ {buf[key].mGeneration}
             ELSE r.mQueuedRetransmits
      /\ e.mRetentionGeneration = g
  BY DEF Insert, RetTyped, RetFields
<1>2. entry.mGeneration = g
  OBVIOUS
<1> HIDE DEF e, entry
<1>3. /\ DOMAIN e.mRetentionBuffer = (DOMAIN buf) \cup {key}
      /\ e.mRetentionBuffer[key] = entry
      /\ \A k \in (DOMAIN buf) \ {key} : e.mRetentionBuffer[k] = buf[k]
  BY <1>1
<1>4. Inserted(r, key, e)
  BY <1>1, <1>2, <1>3 DEF Inserted
<1> QED BY <1>4 DEF e

\* A retained fragment takes a generation no record has: the records of an
\* entry it replaces match nothing any more, and their request is unmarked.
LEMMA InsertInv ==
    ASSUME NEW r, RetInv(r), NEW key, NEW p
    PROVE  RetInv(Insert(r, key, p))
<1> DEFINE e == Insert(r, key, p)
           buf == r.mRetentionBuffer
           order == r.mRetentionOrder
           queue == r.mRetransmitQueue
           g == r.mRetentionGeneration + 1
           rec == [mKey |-> key, mGeneration |-> g]
           longer == Append(order, rec)
<1>1. RetTyped(r) /\ Ordered(r) /\ Marked(r) /\ Faithful(r)
  BY DEF RetInv
<1>2. /\ e = [f \in RetFields |-> e[f]]
      /\ DOMAIN e.mRetentionBuffer = (DOMAIN buf) \cup {key}
      /\ e.mRetentionBuffer[key].mGeneration = g
      /\ \A k \in (DOMAIN buf) \ {key} : e.mRetentionBuffer[k] = buf[k]
      /\ e.mRetentionOrder = longer
      /\ e.mRetransmitQueue = queue
      /\ e.mQueuedRetransmits =
           IF key \in DOMAIN buf
             THEN r.mQueuedRetransmits \ {buf[key].mGeneration}
             ELSE r.mQueuedRetransmits
      /\ e.mRetentionGeneration = g
  <2>1. Inserted(r, key, e)
    BY <1>1, InsertFields
  <2> QED BY <2>1 DEF Inserted
<1>3. /\ IsSeq(order) /\ IsSeq(queue)
      /\ Len(order) \in Nat /\ Len(queue) \in Nat
      /\ r.mRetentionGeneration \in Nat /\ g \in Nat
  BY <1>1, LenIsNat DEF RetTyped
<1>4. /\ IsSeq(longer)
      /\ Len(longer) = Len(order) + 1
      /\ \A i \in 1..Len(order) : longer[i] = order[i]
      /\ longer[Len(order) + 1] = rec
  BY <1>3, AppendFacts
<1>5. rec.mKey = key /\ rec.mGeneration = g
  OBVIOUS
<1> HIDE DEF e, longer, rec
<1>6. RetTyped(e)
  BY <1>2, <1>3, <1>4 DEF RetTyped
<1>7. Ordered(e)
  <2>1. ASSUME NEW k \in DOMAIN e.mRetentionBuffer
        PROVE  \E i \in 1..Len(longer) :
                 /\ longer[i].mKey = k
                 /\ longer[i].mGeneration = e.mRetentionBuffer[k].mGeneration
    <3>1. CASE k = key
      <4>1. Len(order) + 1 \in 1..Len(longer)
        BY <1>3, <1>4
      <4> QED BY <1>2, <1>4, <1>5, <3>1, <4>1
    <3>2. CASE k # key
      <4>1. k \in DOMAIN buf /\ e.mRetentionBuffer[k] = buf[k]
        BY <1>2, <3>2
      <4>2. PICK i \in 1..Len(order) :
              order[i].mKey = k /\ order[i].mGeneration = buf[k].mGeneration
        BY <1>1, <4>1 DEF Ordered
      <4>3. i \in 1..Len(longer) /\ longer[i] = order[i]
        BY <1>3, <1>4
      <4> QED BY <4>1, <4>2, <4>3
    <3> QED BY <3>1, <3>2
  <2>2. \A i \in 1..Len(order) : order[i].mGeneration \in 1..(g - 1)
    BY <1>1, <1>3 DEF Ordered
  <2>3. ASSUME NEW i \in 1..Len(longer)
        PROVE  longer[i].mGeneration \in 1..g
    <3>1. i \in 1..Len(order) \/ i = Len(order) + 1
      BY <1>3, <1>4
    <3> QED BY <1>3, <1>4, <1>5, <2>2, <3>1
  <2>4. ASSUME NEW i \in 1..Len(longer), NEW j \in 1..Len(longer), i < j
        PROVE  longer[i].mGeneration < longer[j].mGeneration
    <3>1. i \in 1..Len(order)
      BY <1>3, <1>4, <2>4
    <3>2. CASE j \in 1..Len(order)
      <4>1. order[i].mGeneration < order[j].mGeneration
        BY <1>1, <2>4, <3>1, <3>2 DEF Ordered
      <4> QED BY <1>4, <3>1, <3>2, <4>1
    <3>3. CASE j = Len(order) + 1
      <4>1. order[i].mGeneration \in 1..(g - 1)
        BY <2>2, <3>1
      <4>2. longer[i] = order[i] /\ longer[j] = rec
        BY <1>4, <3>1, <3>3
      <4> QED BY <1>3, <1>5, <4>1, <4>2
    <3> QED BY <1>3, <1>4, <3>2, <3>3
  <2> QED BY <1>2, <2>1, <2>3, <2>4 DEF Ordered
<1>8. \A i \in 1..Len(queue) :
        Live(e, queue[i]) <=> Live(r, queue[i]) /\ queue[i].mKey # key
  <2>1. \A i \in 1..Len(queue) : queue[i].mGeneration \in 1..(g - 1)
    BY <1>1, <1>3 DEF Faithful
  <2>2. \A i \in 1..Len(queue) : queue[i].mGeneration # g
    BY <1>3, <2>1
  <2> QED BY <1>2, <2>2 DEF Live
<1>9. \A i \in 1..Len(queue) :
        Live(r, queue[i]) =>
          (queue[i].mKey = key
             <=> /\ key \in DOMAIN buf
                 /\ queue[i].mGeneration = buf[key].mGeneration)
  BY <1>1 DEF Live, Faithful
<1>10. Marked(e)
  <2>1. ASSUME NEW x
        PROVE  x \in e.mQueuedRetransmits <=> x \in Waiting(e)
    <3>1. x \in Waiting(r)
            <=> \E i \in 1..Len(queue) :
                  Live(r, queue[i]) /\ queue[i].mGeneration = x
      BY WaitingMember
    <3>2. x \in Waiting(e)
            <=> \E i \in 1..Len(queue) :
                  Live(e, queue[i]) /\ queue[i].mGeneration = x
      BY <1>2, WaitingMember
    <3>3. x \in e.mQueuedRetransmits
            <=> /\ x \in Waiting(r)
                /\ ~(key \in DOMAIN buf /\ x = buf[key].mGeneration)
      BY <1>1, <1>2 DEF Marked
    <3> QED BY <1>8, <1>9, <3>1, <3>2, <3>3
  <2>2. e.mQueuedRetransmits = Waiting(e)
    BY <2>1
  <2>3. \A i, j \in 1..Len(queue) :
          queue[i].mGeneration = queue[j].mGeneration => i = j
    BY <1>1 DEF Marked
  <2> QED BY <1>2, <2>2, <2>3 DEF Marked
<1>11. Faithful(e)
  <2>1. ASSUME NEW i \in 1..Len(queue)
        PROVE  /\ queue[i].mGeneration \in 1..g
               /\ queue[i].mGeneration # g
    <3>1. queue[i].mGeneration \in 1..r.mRetentionGeneration
      BY <1>1 DEF Faithful
    <3> QED BY <1>3, <3>1
  <2>2. ASSUME NEW i \in 1..Len(queue), NEW k \in DOMAIN e.mRetentionBuffer,
               e.mRetentionBuffer[k].mGeneration = queue[i].mGeneration
        PROVE  /\ k = queue[i].mKey
               /\ queue[i].frame = e.mRetentionBuffer[k].mData.frame
    <3>1. k # key
      BY <1>2, <2>1, <2>2
    <3>2. k \in DOMAIN buf /\ e.mRetentionBuffer[k] = buf[k]
      BY <1>2, <3>1
    <3> QED BY <1>1, <2>2, <3>2 DEF Faithful
  <2> QED BY <1>2, <2>1, <2>2 DEF Faithful
<1> QED BY <1>6, <1>7, <1>10, <1>11 DEF RetInv, e

LEMMA retainFragmentInv ==
    ASSUME NEW r, RetInv(r), NEW p
    PROVE  /\ RetInv(retainFragment(r, p))
           /\ retainFragment(r, p).mRetransmitQueue = r.mRetransmitQueue
<1> DEFINE key == makeRetentionKey(p.mSuperFrameNo, FragmentNo(p))
           room == evictOldRetention(r, RequiredBytes(r, key, PacketSize(p)))
<1>1. RetInv(room) /\ room.mRetransmitQueue = r.mRetransmitQueue
  BY evictOldRetentionInv
<1>2. retainFragment(r, p) = r \/ retainFragment(r, p) = Insert(room, key, p)
  BY DEF retainFragment
<1> HIDE DEF key, room
<1>3. RetInv(Insert(room, key, p))
  BY <1>1, InsertInv
<1>4. Insert(room, key, p).mRetransmitQueue = room.mRetransmitQueue
  <2>1. RetTyped(room)
    BY <1>1 DEF RetInv
  <2>2. Inserted(room, key, Insert(room, key, p))
    BY <2>1, InsertFields
  <2> QED BY <2>2 DEF Inserted
<1> QED BY <1>1, <1>2, <1>3, <1>4

------------------------------------------------------------------------------
(***************************************************************************)
(* The retransmit queue.                                                   *)
(***************************************************************************)

\* A request is taken only when its entry has none waiting, and no record of
\* an earlier entry has its generation.
LEMMA QueueRetransmitInv ==
    ASSUME NEW r, RetInv(r), NEW ask
    PROVE  /\ RetInv(QueueRetransmit(r, ask))
           /\ Len(QueueRetransmit(r, ask).mRetransmitQueue)
                >= Len(r.mRetransmitQueue)
<1> DEFINE key == makeRetentionKey(ask.mSuperFrameNo, ask.mFragmentNo)
           buf == r.mRetentionBuffer
           entry == buf[key]
           queue == r.mRetransmitQueue
           rec == [mKey |-> key, mGeneration |-> entry.mGeneration,
                   frame |-> entry.mData.frame]
           longer == Append(queue, rec)
           e == [r EXCEPT !.mQueuedRetransmits = @ \cup {entry.mGeneration},
                          !.mRetransmitQueue = longer]
<1>1. RetTyped(r) /\ Ordered(r) /\ Marked(r) /\ Faithful(r)
  BY DEF RetInv
<1>2. /\ IsSeq(queue) /\ Len(queue) \in Nat
      /\ r.mRetentionGeneration \in Nat /\ IsSeq(r.mRetentionOrder)
  BY <1>1, LenIsNat DEF RetTyped
<1>3. CASE QueueRetransmit(r, ask) = r
  BY <1>2, <1>3
<1>4. CASE /\ QueueRetransmit(r, ask) = e
           /\ key \in DOMAIN buf
           /\ entry.mGeneration \notin r.mQueuedRetransmits
  <2>1. /\ e = [f \in RetFields |-> e[f]]
        /\ e.mRetentionBuffer = buf
        /\ e.mRetentionOrder = r.mRetentionOrder
        /\ e.mRetransmitQueue = longer
        /\ e.mQueuedRetransmits = r.mQueuedRetransmits \cup {entry.mGeneration}
        /\ e.mRetentionGeneration = r.mRetentionGeneration
    BY <1>1 DEF RetTyped, RetFields
  <2>2. /\ IsSeq(longer)
        /\ Len(longer) = Len(queue) + 1
        /\ \A i \in 1..Len(queue) : longer[i] = queue[i]
        /\ longer[Len(queue) + 1] = rec
    BY <1>2, AppendFacts
  <2>3. /\ rec.mKey = key /\ rec.mGeneration = entry.mGeneration
        /\ rec.frame = entry.mData.frame
    OBVIOUS
  <2> HIDE DEF e, longer, rec, key
  <2>4. RetTyped(e)
    BY <1>1, <2>1, <2>2 DEF RetTyped
  <2>5. Ordered(e)
    BY <1>1, <2>1 DEF Ordered
  <2>6. \A q : Live(e, q) <=> Live(r, q)
    BY <2>1 DEF Live
  <2>7. Live(r, rec)
    BY <1>4, <2>3 DEF Live
  <2>8. ASSUME NEW i \in 1..Len(longer)
        PROVE  \/ i \in 1..Len(queue) /\ longer[i] = queue[i]
               \/ i = Len(queue) + 1 /\ longer[i] = rec
    BY <1>2, <2>2
  <2>9. \A i \in 1..Len(queue) :
          i \in 1..Len(longer) /\ longer[i] = queue[i]
    BY <1>2, <2>2
  <2>10. Len(queue) + 1 \in 1..Len(longer)
    BY <1>2, <2>2
  <2>11. ASSUME NEW i \in 1..Len(queue)
         PROVE  queue[i].mGeneration # entry.mGeneration
    <3>1. SUFFICES ASSUME queue[i].mGeneration = entry.mGeneration
                   PROVE  FALSE
      OBVIOUS
    <3>2. queue[i].mKey = key
      BY <1>1, <1>4, <3>1 DEF Faithful
    <3>3. Live(r, queue[i])
      BY <1>4, <3>1, <3>2 DEF Live
    <3>4. entry.mGeneration \in Waiting(r)
      BY <3>1, <3>3, WaitingMember
    <3> QED BY <1>1, <1>4, <3>4 DEF Marked
  <2>12. Marked(e)
    <3>1. ASSUME NEW x
          PROVE  x \in e.mQueuedRetransmits <=> x \in Waiting(e)
      <4>1. x \in Waiting(r)
              <=> \E i \in 1..Len(queue) :
                    Live(r, queue[i]) /\ queue[i].mGeneration = x
        BY WaitingMember
      <4>2. x \in Waiting(e)
              <=> \E i \in 1..Len(longer) :
                    Live(e, longer[i]) /\ longer[i].mGeneration = x
        BY <2>1, WaitingMember
      <4>3. x \in e.mQueuedRetransmits
              <=> x \in Waiting(r) \/ x = entry.mGeneration
        BY <1>1, <2>1 DEF Marked
      <4>4. ASSUME x \in e.mQueuedRetransmits
            PROVE  x \in Waiting(e)
        <5>1. CASE x \in Waiting(r)
          BY <2>6, <2>9, <4>1, <4>2, <5>1
        <5>2. CASE x = entry.mGeneration
          BY <2>2, <2>3, <2>6, <2>7, <2>10, <4>2, <5>2
        <5> QED BY <4>3, <4>4, <5>1, <5>2
      <4>5. ASSUME x \in Waiting(e)
            PROVE  x \in e.mQueuedRetransmits
        <5>1. PICK i \in 1..Len(longer) :
                Live(e, longer[i]) /\ longer[i].mGeneration = x
          BY <4>2, <4>5
        <5>2. CASE i \in 1..Len(queue) /\ longer[i] = queue[i]
          BY <2>6, <4>1, <4>3, <5>1, <5>2
        <5>3. CASE longer[i] = rec
          BY <2>3, <4>3, <5>1, <5>3
        <5> QED BY <2>8, <5>2, <5>3
      <4> QED BY <4>4, <4>5
    <3>2. e.mQueuedRetransmits = Waiting(e)
      BY <3>1
    <3>3. ASSUME NEW i \in 1..Len(longer), NEW j \in 1..Len(longer),
                 longer[i].mGeneration = longer[j].mGeneration
          PROVE  i = j
      <4>1. \A m, n \in 1..Len(queue) :
              queue[m].mGeneration = queue[n].mGeneration => m = n
        BY <1>1 DEF Marked
      <4> QED BY <2>3, <2>8, <2>11, <3>3, <4>1
    <3> QED BY <2>1, <3>2, <3>3 DEF Marked
  <2>13. Faithful(e)
    <3>1. rec.mGeneration \in 1..r.mRetentionGeneration
      BY <1>1, <1>4, <2>3, EntryGeneration
    <3>2. ASSUME NEW k \in DOMAIN buf, buf[k].mGeneration = rec.mGeneration
          PROVE  k = rec.mKey /\ rec.frame = buf[k].mData.frame
      <4>1. k = key
        BY <1>1, <1>2, <1>4, <2>3, <3>2, OneEntryPerGeneration
      <4> QED BY <2>3, <4>1
    <3>3. ASSUME NEW i \in 1..Len(longer)
          PROVE  /\ longer[i].mGeneration \in 1..r.mRetentionGeneration
                 /\ \A k \in DOMAIN buf :
                      buf[k].mGeneration = longer[i].mGeneration =>
                        /\ k = longer[i].mKey
                        /\ longer[i].frame = buf[k].mData.frame
      <4>1. CASE i \in 1..Len(queue) /\ longer[i] = queue[i]
        BY <1>1, <4>1 DEF Faithful
      <4>2. CASE longer[i] = rec
        BY <3>1, <3>2, <4>2
      <4> QED BY <2>8, <4>1, <4>2
    <3> QED BY <2>1, <3>3 DEF Faithful
  <2>14. Len(longer) >= Len(queue)
    BY <1>2, <2>2
  <2> QED BY <1>4, <2>1, <2>4, <2>5, <2>12, <2>13, <2>14 DEF RetInv
<1> QED BY <1>3, <1>4 DEF QueueRetransmit

\* The request at the front leaves with its mark, and only its own mark.
LEMMA PopRetransmitInv ==
    ASSUME NEW r, RetInv(r), r.mRetransmitQueue # <<>>
    PROVE  /\ RetInv(PopRetransmit(r))
           /\ PopRetransmit(r).mRetransmitQueue = Tail(r.mRetransmitQueue)
<1> DEFINE e == PopRetransmit(r)
           queue == r.mRetransmitQueue
           rest == Tail(queue)
           first == queue[1]
<1>1. RetTyped(r) /\ Ordered(r) /\ Marked(r) /\ Faithful(r)
  BY DEF RetInv
<1>2. IsSeq(queue) /\ Len(queue) \in Nat
  BY <1>1, LenIsNat DEF RetTyped
<1>3. /\ IsSeq(rest)
      /\ Len(queue) >= 1 /\ Head(queue) = first
      /\ Len(rest) = Len(queue) - 1
      /\ \A i \in 1..(Len(queue) - 1) : rest[i] = queue[i + 1]
  BY <1>2, TailFacts
<1>4. /\ e = [f \in RetFields |-> e[f]]
      /\ e.mRetentionBuffer = r.mRetentionBuffer
      /\ e.mRetentionOrder = r.mRetentionOrder
      /\ e.mRetransmitQueue = rest
      /\ e.mQueuedRetransmits = r.mQueuedRetransmits \ {first.mGeneration}
      /\ e.mRetentionGeneration = r.mRetentionGeneration
  BY <1>1, <1>3 DEF PopRetransmit, RetTyped, RetFields
<1> HIDE DEF e, rest
<1>5. ASSUME NEW i \in 1..Len(rest)
      PROVE  i + 1 \in 1..Len(queue) /\ rest[i] = queue[i + 1] /\ i + 1 # 1
  BY <1>2, <1>3
<1>6. ASSUME NEW i \in 1..Len(queue), i # 1
      PROVE  i - 1 \in 1..Len(rest) /\ rest[i - 1] = queue[i]
  <2>1. i - 1 \in 1..(Len(queue) - 1) /\ (i - 1) + 1 = i
    BY <1>2, <1>6
  <2> QED BY <1>3, <2>1
<1>7. 1 \in 1..Len(queue)
  BY <1>2, <1>3
<1>8. \A i, j \in 1..Len(queue) :
        queue[i].mGeneration = queue[j].mGeneration => i = j
  BY <1>1 DEF Marked
<1>9. RetTyped(e)
  BY <1>1, <1>3, <1>4 DEF RetTyped
<1>10. Ordered(e)
  BY <1>1, <1>4 DEF Ordered
<1>11. \A q : Live(e, q) <=> Live(r, q)
  BY <1>4 DEF Live
<1>12. Marked(e)
  <2>1. ASSUME NEW x
        PROVE  x \in e.mQueuedRetransmits <=> x \in Waiting(e)
    <3>1. x \in Waiting(r)
            <=> \E i \in 1..Len(queue) :
                  Live(r, queue[i]) /\ queue[i].mGeneration = x
      BY WaitingMember
    <3>2. x \in Waiting(e)
            <=> \E i \in 1..Len(rest) :
                  Live(e, rest[i]) /\ rest[i].mGeneration = x
      BY <1>4, WaitingMember
    <3>3. x \in e.mQueuedRetransmits
            <=> x \in Waiting(r) /\ x # first.mGeneration
      BY <1>1, <1>4 DEF Marked
    <3>4. ASSUME x \in e.mQueuedRetransmits
          PROVE  x \in Waiting(e)
      <4>1. PICK i \in 1..Len(queue) :
              Live(r, queue[i]) /\ queue[i].mGeneration = x
        BY <3>1, <3>3, <3>4
      <4>2. i # 1
        BY <3>3, <3>4, <4>1
      <4>3. i - 1 \in 1..Len(rest) /\ rest[i - 1] = queue[i]
        BY <1>6, <4>2
      <4> QED BY <1>11, <3>2, <4>1, <4>3
    <3>5. ASSUME x \in Waiting(e)
          PROVE  x \in e.mQueuedRetransmits
      <4>1. PICK i \in 1..Len(rest) :
              Live(e, rest[i]) /\ rest[i].mGeneration = x
        BY <3>2, <3>5
      <4>2. i + 1 \in 1..Len(queue) /\ rest[i] = queue[i + 1] /\ i + 1 # 1
        BY <1>5
      <4>3. x # first.mGeneration
        BY <1>7, <1>8, <4>1, <4>2
      <4> QED BY <1>11, <3>1, <3>3, <4>1, <4>2, <4>3
    <3> QED BY <3>4, <3>5
  <2>2. e.mQueuedRetransmits = Waiting(e)
    BY <2>1
  <2>3. ASSUME NEW i \in 1..Len(rest), NEW j \in 1..Len(rest),
               rest[i].mGeneration = rest[j].mGeneration
        PROVE  i = j
    <3>1. /\ i + 1 \in 1..Len(queue) /\ j + 1 \in 1..Len(queue)
          /\ queue[i + 1].mGeneration = queue[j + 1].mGeneration
      BY ONLY <1>5, <2>3
    <3>2. i + 1 = j + 1
      BY ONLY <1>8, <3>1
    <3>3. i \in Int /\ j \in Int
      OBVIOUS
    <3> QED BY ONLY <3>2, <3>3
  <2>4. e.mRetransmitQueue = rest
    BY <1>4
  <2> QED BY ONLY <2>2, <2>3, <2>4 DEF Marked
<1>13. Faithful(e)
  <2>0. /\ e.mRetentionBuffer = r.mRetentionBuffer
        /\ e.mRetransmitQueue = rest
        /\ e.mRetentionGeneration = r.mRetentionGeneration
    BY <1>4
  <2> DEFINE Named(q) ==
               /\ q.mGeneration \in 1..r.mRetentionGeneration
               /\ \A k \in DOMAIN r.mRetentionBuffer :
                    r.mRetentionBuffer[k].mGeneration = q.mGeneration =>
                      k = q.mKey /\ q.frame = r.mRetentionBuffer[k].mData.frame
  <2>1. \A j \in 1..Len(queue) : Named(queue[j])
    BY ONLY <1>1 DEF Faithful
  <2> HIDE DEF Named
  <2>2. \A i \in 1..Len(rest) : Named(rest[i])
    BY ONLY <1>5, <2>1
  <2> QED BY ONLY <2>0, <2>2 DEF Faithful, Named
<1>14. RetInv(e) /\ e.mRetransmitQueue = rest
  BY <1>4, <1>9, <1>10, <1>12, <1>13 DEF RetInv
<1> QED BY <1>14 DEF e, rest

------------------------------------------------------------------------------
(***************************************************************************)
(* The operations.                                                         *)
(***************************************************************************)
LEMMA InitIInv == Init => IInv
<1> SUFFICES ASSUME Init
             PROVE  IInv
  OBVIOUS
<1>1. ret = [mRetentionBuffer |-> [k \in {} |-> 0], mRetentionOrder |-> <<>>,
             mRetransmitQueue |-> <<>>, mQueuedRetransmits |-> {},
             mRetentionBufferBytes |-> 0, mRetentionGeneration |-> 0]
  BY DEF Init, InitAt
<1>2. /\ ret = [f \in RetFields |-> ret[f]]
      /\ DOMAIN ret.mRetentionBuffer = {}
      /\ ret.mRetentionOrder = <<>> /\ ret.mRetransmitQueue = <<>>
      /\ ret.mQueuedRetransmits = {}
      /\ ret.mRetentionGeneration \in Nat
  BY <1>1 DEF RetFields
<1>3. 1..Len(<<>>) = {}
  BY EmptyIsSeq
<1>4. RetTyped(ret)
  BY <1>2, EmptyIsSeq DEF RetTyped
<1>5. Ordered(ret)
  BY <1>2, <1>3 DEF Ordered
<1>6. Marked(ret)
  <2>1. \A x : x \notin Waiting(ret)
    BY <1>2, <1>3, WaitingMember
  <2>2. ret.mQueuedRetransmits = Waiting(ret)
    BY <1>2, <2>1
  <2> QED BY <1>2, <1>3, <2>2 DEF Marked
<1>7. Faithful(ret)
  BY <1>2, <1>3 DEF Faithful
<1>8. now \in Nat /\ mSuperFrameNo \in 0..(SeqSpace - 1) /\ TaskTyped
  BY SenderAssumption DEF Init, InitAt, TaskTyped
<1> QED BY <1>4, <1>5, <1>6, <1>7, <1>8 DEF IInv, RetInv

\* What the sending operation becomes after a round.
LEMMA AdvancedTyped ==
    ASSUME TaskTyped, Sending, NEW todo, NEW frames, NEW room
    PROVE  LET t == Advanced(todo, frames, room)
           IN  \/ t = Idle
               \/ /\ t.op = "send" /\ t.bundle = frames
                  /\ t = [f \in SendFields |-> t[f]]
<1>1. task = [f \in SendFields |-> task[f]] /\ task.op = "send"
  BY DEF TaskTyped, Sending, Idle
<1> QED BY <1>1 DEF Advanced, SendFields

LEMMA ModInRange ==
    ASSUME NEW n \in Nat
    PROVE  (n + 1) % SeqSpace \in 0..(SeqSpace - 1)
<1>1. SeqSpace \in Nat \ {0}
  BY SenderAssumption
<1> QED BY <1>1, Z3

\* A call of send that returns, or leaves the lock to its own loop.
LEMMA SendInv ==
    ASSUME IInv, NEW m, Send(m)
    PROVE  IInv' /\ ret'.mRetransmitQueue = ret.mRetransmitQueue
<1>1. /\ now' = now
      /\ ret' = ret \/ ret' = evictOldRetention(ret, 0)
      /\ mSuperFrameNo' = mSuperFrameNo
           \/ mSuperFrameNo' = (mSuperFrameNo + 1) % SeqSpace
  BY DEF Send, NextSuperFrameNo
<1>2. mSuperFrameNo' \in 0..(SeqSpace - 1)
  BY <1>1, ModInRange, SenderAssumption DEF IInv
<1>3. RetInv(ret') /\ ret'.mRetransmitQueue = ret.mRetransmitQueue
  BY <1>1, evictOldRetentionInv DEF IInv
<1>4. \/ task' = task /\ task = Idle
      \/ \E frame, todo : task' = [op |-> "send", frame |-> frame,
                                   todo |-> todo, bundle |-> <<>>, room |-> 0]
  BY DEF Send
<1>5. TaskTyped'
  BY <1>4 DEF TaskTyped, Idle, SendFields
<1>6. RetInv(ret)'
  BY <1>3
<1> QED BY <1>1, <1>2, <1>3, <1>5, <1>6 DEF IInv

\* A round of send that retains a fragment.
LEMMA FragmentInv ==
    ASSUME IInv, SendFragment \/ BundleFragment
    PROVE  IInv' /\ ret'.mRetransmitQueue = ret.mRetransmitQueue
<1>1. /\ now' = now /\ mSuperFrameNo' = mSuperFrameNo
      /\ Sending
      /\ ret' = retainFragment(ret, Head(task.todo))
  BY DEF SendFragment, BundleFragment, Bundled
<1>2. RetInv(ret') /\ ret'.mRetransmitQueue = ret.mRetransmitQueue
  BY <1>1, retainFragmentInv DEF IInv
<1>3. \E todo, frames, room : task' = Advanced(todo, frames, room)
  BY DEF SendFragment, BundleFragment
<1>4. \/ task' = Idle
      \/ task'.op = "send" /\ task' = [f \in SendFields |-> task'[f]]
  BY <1>1, <1>3, AdvancedTyped DEF IInv
<1>5. TaskTyped'
  BY <1>4 DEF TaskTyped
<1>6. RetInv(ret)'
  BY <1>2
<1> QED BY <1>1, <1>2, <1>5, <1>6 DEF IInv

\* The request at the front finds its entry or none, never another's.
LEMMA AnswerIsFaithful ==
    ASSUME RetInv(ret), Filed(ret), Queue # <<>>, RetransmitLives(ret)
    PROVE  Answers(Retransmit(ret), Head(Queue))
<1>1. IsSeq(Queue)
  BY DEF RetInv, RetTyped, Queue
<1>2. 1 \in 1..Len(Queue) /\ Head(Queue) = Queue[1]
  <2>1. Len(Queue) \in Nat
    BY <1>1, LenIsNat
  <2> QED BY <1>1, <2>1, TailFacts
<1>3. Retransmit(ret).frame = Head(Queue).frame
  BY <1>2 DEF RetInv, Faithful, RetransmitLives, Live, Retransmit, Queue
<1>4. makeRetentionKey(Retransmit(ret).mSuperFrameNo, FragmentNo(Retransmit(ret)))
        = Head(Queue).mKey
  BY DEF Filed, RetransmitLives, Live, Retransmit, Queue
<1> QED BY <1>3, <1>4 DEF Answers

LEMMA OneElement ==
    ASSUME NEW x
    PROVE  \A i \in 1..Len(<<x>>) : <<x>>[i] = x
  OBVIOUS

\* A new bundle, with or without the request at the front.
LEMMA StartBundleInv ==
    ASSUME IInv, StartBundle
    PROVE  IInv' /\ (Filed(ret) => AnswersHead)
<1> DEFINE asked == ret.mRetransmitQueue # <<>> /\ FragsInBundle > 1
           again == asked /\ RetransmitLives(ret)
<1>1. /\ now' = now /\ mSuperFrameNo' = mSuperFrameNo
      /\ Sending
      /\ ret' = IF asked THEN PopRetransmit(ret) ELSE ret
      /\ out' = <<>> \/ (again /\ out' = <<Retransmit(ret)>>)
      /\ \E frames, room :
           /\ task' = Advanced(task.todo, frames, room)
           /\ frames = <<>> \/ (again /\ frames = <<Retransmit(ret)>>)
  BY DEF StartBundle, Bundled
<1> HIDE DEF again
<1>2. RetInv(ret')
  BY <1>1, PopRetransmitInv DEF IInv
<1>3. PICK frames, room :
        /\ task' = Advanced(task.todo, frames, room)
        /\ frames = <<>> \/ (again /\ frames = <<Retransmit(ret)>>)
  BY <1>1
<1>4. \/ task' = Idle
      \/ /\ task'.op = "send" /\ task'.bundle = frames
         /\ task' = [f \in SendFields |-> task'[f]]
  BY <1>1, <1>3, AdvancedTyped DEF IInv
<1>5. IInv'
  <2>1. TaskTyped'
    BY <1>4 DEF TaskTyped
  <2>2. RetInv(ret)'
    BY <1>2
  <2> QED BY <1>1, <2>1, <2>2 DEF IInv
<1>6. ASSUME Filed(ret)
      PROVE  AnswersHead
  <2>1. again => Answers(Retransmit(ret), Head(Queue))
    BY <1>6, AnswerIsFaithful DEF again, IInv, Queue
  <2>2. \A i \in 1..Len(<<>>) : FALSE
    BY EmptyIsSeq
  <2>3. \A i \in 1..Len(out') : Answers(out'[i], Head(Queue))
    BY <1>1, <2>1, <2>2, OneElement
  <2>4. \A i \in 1..Len(frames) : Answers(frames[i], Head(Queue))
    BY <1>3, <2>1, <2>2, OneElement
  <2>5. task'.op = "send" => task'.bundle = frames
    BY <1>4 DEF Idle
  <2> QED BY <2>3, <2>4, <2>5 DEF AnswersHead
<1> QED BY <1>5, <1>6

\* receiveNack and its rounds.
LEMMA NackInv ==
    ASSUME IInv, (\E n \in Nacks : ReceiveNack(n)) \/ NackFragment
    PROVE  IInv' /\ Len(ret'.mRetransmitQueue) >= Len(Queue)
<1>1. Len(Queue) \in Nat
  BY LenIsNat DEF IInv, RetInv, RetTyped, Queue
<1>2. /\ now' = now /\ mSuperFrameNo' = mSuperFrameNo
      /\ ret' = ret \/ ret' = QueueRetransmit(ret, Head(task.todo))
  BY DEF ReceiveNack, NackFragment
<1>3. RetInv(ret')
  BY <1>2, QueueRetransmitInv DEF IInv
<1>4. Len(ret'.mRetransmitQueue) >= Len(Queue)
  BY <1>1, <1>2, QueueRetransmitInv DEF IInv, Queue
<1>5. TaskTyped'
  <2>1. CASE \E n \in Nacks : ReceiveNack(n)
    BY <2>1 DEF ReceiveNack, TaskTyped
  <2>2. CASE NackFragment
    <3>1. task = [op |-> "nack", todo |-> task.todo]
      BY <2>2 DEF NackFragment, IInv, TaskTyped, Idle
    <3>2. \/ task' = Idle
          \/ task' = [op |-> "nack", todo |-> Tail(task.todo)]
      BY <2>2, <3>1 DEF NackFragment
    <3> QED BY <3>2 DEF TaskTyped
  <2> QED BY <2>1, <2>2
<1>6. RetInv(ret)'
  BY <1>3
<1> QED BY <1>2, <1>4, <1>5, <1>6 DEF IInv

\* processRetransmits and its rounds.
LEMMA ProcessInv ==
    ASSUME IInv, NEW c, ProcessRetransmits(c)
    PROVE  IInv' /\ ret' = ret
<1>1. /\ now' = now /\ mSuperFrameNo' = mSuperFrameNo /\ ret' = ret
      /\ ret.mRetransmitQueue # <<>>
      /\ task' = [op |-> "retransmit", left |-> c]
  BY DEF ProcessRetransmits
<1>2. TaskTyped'
  BY <1>1 DEF TaskTyped
<1> QED BY <1>1, <1>2 DEF IInv

LEMMA RetransmitStepInv ==
    ASSUME IInv, RetransmitStep
    PROVE  IInv' /\ (Filed(ret) => AnswersHead)
<1>1. /\ task = [op |-> "retransmit", left |-> task.left]
      /\ Queue # <<>>
  BY DEF RetransmitStep, IInv, TaskTyped, Idle, Queue
<1>2. /\ now' = now /\ mSuperFrameNo' = mSuperFrameNo
      /\ ret' = PopRetransmit(ret)
      /\ out' = <<>> \/ (RetransmitLives(ret) /\ out' = <<Retransmit(ret)>>)
      /\ \/ task' = Idle
         \/ /\ Len(Queue) # 1
            /\ \E left : task' = [task EXCEPT !.left = left]
  BY DEF RetransmitStep, Queue
<1>3. RetInv(ret') /\ ret'.mRetransmitQueue = Tail(Queue)
  BY <1>1, <1>2, PopRetransmitInv DEF IInv, Queue
<1>4. \/ task' = Idle
      \/ /\ Len(Queue) # 1
         /\ \E left : task' = [op |-> "retransmit", left |-> left]
  <2>1. PICK l : task = [op |-> "retransmit", left |-> l]
    BY <1>1
  <2>2. \A left : [task EXCEPT !.left = left]
                    = [op |-> "retransmit", left |-> left]
    BY <2>1
  <2> QED BY <1>2, <2>2
<1>5. Len(Queue) # 1 => Tail(Queue) # <<>>
  <2>1. IsSeq(Queue)
    BY DEF IInv, RetInv, RetTyped, Queue
  <2>2. Len(Queue) \in Nat /\ Len(Queue) >= 1 /\ Len(Tail(Queue)) = Len(Queue) - 1
    BY <1>1, <2>1, LenIsNat, TailFacts
  <2>3. Len(Queue) # 1 => Len(Tail(Queue)) # 0
    BY <2>2
  <2> QED BY <2>3, EmptyIsSeq
<1>6. TaskTyped'
  BY <1>3, <1>4, <1>5 DEF TaskTyped
<1>7. IInv'
  <2>1. RetInv(ret)'
    BY <1>3
  <2> QED BY <1>2, <1>6, <2>1 DEF IInv
<1>8. ASSUME Filed(ret)
      PROVE  AnswersHead
  <2>1. RetransmitLives(ret) => Answers(Retransmit(ret), Head(Queue))
    BY <1>1, <1>8, AnswerIsFaithful DEF IInv
  <2>2. \A i \in 1..Len(<<>>) : FALSE
    BY EmptyIsSeq
  <2>3. \A i \in 1..Len(out') : Answers(out'[i], Head(Queue))
    BY <1>2, <2>1, <2>2, OneElement
  <2>4. task'.op # "send"
    BY <1>4 DEF Idle
  <2> QED BY <2>3, <2>4 DEF AnswersHead
<1> QED BY <1>7, <1>8

LEMMA TickInv ==
    ASSUME IInv, Tick
    PROVE  IInv' /\ ret' = ret
<1>1. /\ now' = now + 1 /\ mSuperFrameNo' = mSuperFrameNo
      /\ ret' = ret /\ task' = task
  BY DEF Tick
<1>2. now' \in Nat
  BY <1>1 DEF IInv
<1> QED BY <1>1, <1>2 DEF IInv, TaskTyped

\* Only the two steps that take the front request shorten the queue.
LEMMA NotShorter ==
    ASSUME IInv, Len(ret'.mRetransmitQueue) >= Len(Queue),
           Len(ret'.mRetransmitQueue) \in Nat
    PROVE  AnswersHead
<1>1. Len(Queue) \in Nat
  BY LenIsNat DEF IInv, RetInv, RetTyped, Queue
<1> QED BY <1>1 DEF AnswersHead

LEMMA NextIInv ==
    ASSUME IInv, [Next]_vars
    PROVE  IInv' /\ (Next /\ Filed(ret) => AnswersHead)
<1>1. Len(Queue) \in Nat
  BY LenIsNat DEF IInv, RetInv, RetTyped, Queue
<1>2. ASSUME IInv', Len(ret'.mRetransmitQueue) >= Len(Queue)
      PROVE  AnswersHead
  <2>1. Len(ret'.mRetransmitQueue) \in Nat
    BY <1>2, LenIsNat DEF IInv, RetInv, RetTyped
  <2> QED BY <1>2, <2>1, NotShorter
<1>3. ASSUME IInv', ret'.mRetransmitQueue = Queue
      PROVE  AnswersHead
  BY <1>1, <1>2, <1>3
<1>4. CASE \E m \in Frames : Send(m)
  BY <1>3, <1>4, SendInv DEF Queue
<1>5. CASE SendFragment \/ BundleFragment
  BY <1>3, <1>5, FragmentInv DEF Queue
<1>6. CASE StartBundle
  BY <1>6, StartBundleInv
<1>7. CASE (\E n \in Nacks : ReceiveNack(n)) \/ NackFragment
  BY <1>2, <1>7, NackInv
<1>8. CASE \E c \in MaxCounts : ProcessRetransmits(c)
  BY <1>3, <1>8, ProcessInv DEF Queue
<1>9. CASE RetransmitStep
  BY <1>9, RetransmitStepInv
<1>10. CASE Tick
  BY <1>3, <1>10, TickInv DEF Queue
<1>11. CASE UNCHANGED vars
  <2>1. IInv'
    BY <1>11 DEF IInv, TaskTyped, vars
  <2>2. ret'.mRetransmitQueue = Queue
    BY <1>11 DEF vars, Queue
  <2> QED BY <1>3, <2>1, <2>2
<1> QED
  BY <1>4, <1>5, <1>6, <1>7, <1>8, <1>9, <1>10, <1>11 DEF Next, Internal

------------------------------------------------------------------------------
(***************************************************************************)
(* Theorems.                                                               *)
(***************************************************************************)

\* The sender's state is always as the inductive invariant says: retained
\* fragments, their order and the requests for them agree about generations
\* (retainFragment, evictOldRetention, receiveNack, popRetransmit).
THEOREM Invariance == Spec => []IInv
<1>1. Init => IInv
  BY InitIInv
<1>2. IInv /\ [Next]_vars => IInv'
  BY NextIInv
<1> QED BY <1>1, <1>2, PTL DEF Spec

\* Superframe numbers stay in the sequence space, every mark is a generation
\* that was given out, and one operation holds mMutex.
THEOREM TypeCorrect == Spec => []TypeOK
<1>1. IInv => TypeOK
  <2> SUFFICES ASSUME IInv
               PROVE  TypeOK
    OBVIOUS
  <2>1. now \in Nat /\ mSuperFrameNo \in 0..(SeqSpace - 1)
    BY DEF IInv
  <2>2. ret.mRetentionGeneration \in Nat
    BY DEF IInv, RetInv, RetTyped
  <2>3. ASSUME NEW g \in ret.mQueuedRetransmits
        PROVE  g \in 1..ret.mRetentionGeneration
    <3>1. g \in Waiting(ret)
      BY <2>3 DEF IInv, RetInv, Marked
    <3>2. PICK i \in 1..Len(ret.mRetransmitQueue) :
            ret.mRetransmitQueue[i].mGeneration = g
      BY <3>1, WaitingMember
    <3> QED BY <3>2 DEF IInv, RetInv, Faithful
  <2>4. task.op \in {"idle", "send", "nack", "retransmit"}
    BY DEF IInv, TaskTyped, Idle
  <2> QED BY <2>1, <2>2, <2>3, <2>4 DEF TypeOK
<1> QED BY <1>1, Invariance, PTL

\* Eviction can find every retained fragment, the oldest first, whatever mix
\* of replacement, expiry and byte limit the calls produce (evictOldRetention).
THEOREM NothingLeaks == Spec => []OrderCoversBuffer
<1>1. IInv => OrderCoversBuffer
  BY DEF IInv, RetInv, Ordered, OrderCoversBuffer, Keys, Order
<1> QED BY <1>1, Invariance, PTL

\* A request is marked exactly as long as it can be served, and is queued once
\* (receiveNack, popRetransmit, and the unmarking in eviction and replacement).
THEOREM MarksAreExact == Spec => []QueueCoherent
<1>1. IInv => QueueCoherent
  BY DEF IInv, RetInv, Marked, Waiting, QueueCoherent, Queue
<1> QED BY <1>1, Invariance, PTL

------------------------------------------------------------------------------
(***************************************************************************)
(* What is retained and sent: the bytes that are counted, the limit that   *)
(* is kept, and the bundles that are built.                                *)
(***************************************************************************)

\* A packet that send makes of an accepted SuperFrame.
FragmentOK(p) ==
    /\ p.mFrameType \in {1, 2, 3}
    /\ PacketSize(p) \in 1..Mtu
    /\ p.mFrameType = 1 => PacketSize(p) = Type1FrameSize(Mtu, Mode)
    /\ p.mFrameType = 3 => PacketSize(p) < Type1FrameSize(Mtu, Mode)
    /\ p.mFrameType = 2 => \E m \in Frames :
         /\ SendVerdict(m.size, Mtu, Mode) = "OK"
         /\ PacketSize(p) = FrameType2Size + SendPlan(m.size, Mtu, Mode).type2
    /\ FragmentNo(p) \in Nat
    /\ p.frame \in Nat \ {0}
    /\ p.mSuperFrameNo = (p.frame - 1) % SeqSpace

\* Every entry is such a packet of one of the first f frames, under its key.
EntriesOK(r, f) ==
    \A k \in DOMAIN r.mRetentionBuffer :
      LET p == r.mRetentionBuffer[k].mData
      IN  /\ FragmentOK(p) /\ p.frame <= f
          /\ k = makeRetentionKey(p.mSuperFrameNo, FragmentNo(p))

RetainedBytes(r) ==
    SumFunction([k \in DOMAIN r.mRetentionBuffer |-> EntrySize(r, k)])

Accounted(r) ==
    /\ IsFiniteSet(DOMAIN r.mRetentionBuffer)
    /\ r.mRetentionBufferBytes = RetainedBytes(r)

\* What a sending operation still has to send: consecutive fragments of the
\* last frame, of which only earlier ones are retained.
TodoOK ==
    task.op = "send" =>
      /\ IsSeq(task.todo) /\ task.todo # <<>>
      /\ \A i \in 1..Len(task.todo) :
           /\ FragmentOK(task.todo[i])
           /\ task.todo[i].frame = Len(sent)
           /\ FragmentNo(task.todo[i]) = FragmentNo(task.todo[1]) + i - 1
      /\ \A k \in Keys :
           ret.mRetentionBuffer[k].mData.frame = Len(sent) =>
             FragmentNo(ret.mRetentionBuffer[k].mData)
               < FragmentNo(task.todo[1])

PInv ==
    /\ IsSeq(sent)
    /\ mSuperFrameNo = Len(sent) % SeqSpace
    /\ EntriesOK(ret, Len(sent))
    /\ Accounted(ret)
    /\ TodoOK
    /\ RetentionWithinLimit

------------------------------------------------------------------------------
(***************************************************************************)
(* Fragments.                                                              *)
(***************************************************************************)
\* The cut of an accepted SuperFrame.
PlanFits(plan) ==
    /\ plan.type1 \in Nat
    /\ plan.type3 \in 0..(Payload - 1)
    /\ plan.type2 \in 1..Type2PayloadSize(Mtu)
    /\ plan.total = plan.type1 + (IF plan.type3 > 0 THEN 2 ELSE 1)

LEMMA SizeFacts ==
    /\ Mtu \in Nat /\ Mtu >= MinMtu /\ Mode \in Nat \ {0}
    /\ Type1FrameSize(Mtu, Mode) \in Int /\ Payload \in Int
    /\ Type1FrameSize(Mtu, Mode) = Payload + FrameType1Size
    /\ Type1FrameSize(Mtu, Mode) <= Mtu
    /\ Type2PayloadSize(Mtu) \in Nat \ {0}
    /\ FrameType1Size \in Nat \ {0} /\ FrameType2Size \in Nat
    /\ Type2PayloadSize(Mtu) + FrameType2Size = Mtu
    /\ FrameType1Size < FrameType2Size
<1>1. /\ Mtu \in Nat /\ Mtu >= MinMtu /\ Mode \in {1, 2, 4, 8}
      /\ FrameType1Size \in Nat \ {0} /\ FrameType2Size \in Nat
      /\ FrameType4Size \in Nat \ {0}
      /\ MinMtu \in Nat /\ FrameType2Size < MinMtu
      /\ FrameType1Size < FrameType2Size
  BY SenderAssumption, WireAssumption DEF SubFragmentMode
<1> DEFINE T == Type1FrameSize(Mtu, Mode)
<1>2. T \in Int /\ T <= Mtu
  <2>1. CASE Mode = 1
    BY <1>1, <2>1 DEF Type1FrameSize, SINGLE
  <2>2. CASE Mode # 1
    <3>1. T = (Mtu - FrameType4Size) \div Mode
      BY <2>2 DEF Type1FrameSize, SINGLE
    <3>2. Mtu - FrameType4Size \in Int /\ Mtu - FrameType4Size <= Mtu
      BY <1>1
    <3>3. ASSUME NEW n \in Int, n <= Mtu
          PROVE  n \div Mode \in Int /\ n \div Mode <= Mtu
      <4>1. Mode = 2 \/ Mode = 4 \/ Mode = 8
        BY <1>1, <2>2
      <4>2. \A k \in {2, 4, 8} : n \div k \in Int /\ n \div k <= Mtu
        BY <1>1, <3>3, Z3
      <4> QED BY <4>1, <4>2
    <3> QED BY <3>1, <3>2, <3>3
  <2> QED BY <2>1, <2>2
<1>3. Payload = T - FrameType1Size
  BY DEF Payload, Type1PayloadSize
<1>4. Type2PayloadSize(Mtu) = Mtu - FrameType2Size
  BY DEF Type2PayloadSize
<1> HIDE DEF T
<1>5. /\ Payload \in Int /\ T = Payload + FrameType1Size
      /\ Type2PayloadSize(Mtu) \in Nat \ {0}
      /\ Type2PayloadSize(Mtu) + FrameType2Size = Mtu
  BY <1>1, <1>2, <1>3, <1>4
<1> QED BY <1>1, <1>2, <1>5 DEF T

LEMMA PlanFacts ==
    ASSUME NEW n \in Nat \ {0}, SendVerdict(n, Mtu, Mode) = "OK"
    PROVE  PlanFits(SendPlan(n, Mtu, Mode)) /\ Payload > 0
<1> DEFINE cap == Type2PayloadSize(Mtu)
           p == Payload
           rem == n % p
           num == n \div p
<1>1. p \in Int /\ cap \in Nat \ {0}
  BY SizeFacts
<1>2. p > 0
  BY <1>1 DEF SendVerdict, Payload
<1>3. CASE n <= cap
  <2>1. SendPlan(n, Mtu, Mode)
          = [type1 |-> 0, type3 |-> 0, type2 |-> n, total |-> 1]
    BY <1>3 DEF SendPlan
  <2> QED BY <1>1, <1>2, <1>3, <2>1 DEF PlanFits
<1>4. CASE n > cap
  <2>1. SendPlan(n, Mtu, Mode) = SplitPlan(n, p, cap)
    BY <1>1, <1>4 DEF SendPlan, Payload
  <2>2. num \in Nat /\ rem \in 0..(p - 1) /\ n = (p * num) + rem
    <3>1. p \in Nat \ {0} /\ n \in Nat
      BY <1>1, <1>2
    <3> HIDE DEF p
    <3> QED BY <3>1, DivMod
  <2>3. num = 0 => n = rem
    BY <1>1, <2>2
  <2> HIDE DEF cap, p, rem, num
  <2>4. rem = 0 => num >= 1
    BY <2>2, <2>3
  <2>5. PlanFits(SplitPlan(n, p, cap))
    BY <1>1, <1>2, <2>2, <2>4
       DEF PlanFits, SplitPlan, rem, num, cap, p
  <2> QED BY <1>2, <2>1, <2>5 DEF p
<1> QED BY <1>1, <1>3, <1>4, <1>2

LEMMA BytesLen ==
    ASSUME NEW f, NEW from, NEW n \in Nat
    PROVE  Len(Bytes(f, from, n)) = n
<1> DEFINE b == Bytes(f, from, n)
<1>1. b = [i \in 1..n |-> <<f, from + i - 1>>]
  BY DEF Bytes
<1>2. b = [i \in 1..n |-> b[i]]
  BY <1>1
<1> HIDE DEF b
<1>3. Len(b) = n
  BY <1>2, FunctionIsSeq
<1> QED BY <1>3 DEF b

\* The i-th fragment of the f-th SuperFrame.
FragmentIs(p, i, f, sfn) ==
    FragmentOK(p) /\ FragmentNo(p) = i - 1 /\ p.frame = f

LEMMA Type1PacketOK ==
    ASSUME NEW f \in Nat \ {0}, NEW m, NEW sfn, NEW plan, NEW i \in Nat,
           Payload > 0, sfn = (f - 1) % SeqSpace
    PROVE  /\ FragmentOK(Type1Packet(f, m, sfn, plan, i))
           /\ FragmentNo(Type1Packet(f, m, sfn, plan, i)) = i
           /\ Type1Packet(f, m, sfn, plan, i).frame = f
<1> DEFINE p == Type1Packet(f, m, sfn, plan, i)
<1>1. /\ p.mFrameType = 1 /\ p.frame = f /\ p.mSuperFrameNo = sfn
      /\ p.mFragmentNo = i
      /\ p.data = Bytes(f, i * Payload, Payload)
  BY DEF Type1Packet
<1>2. Payload \in Nat
  BY SizeFacts
<1>3. Len(p.data) = Payload
  BY <1>1, <1>2, BytesLen
<1> HIDE DEF p
<1>4. PacketSize(p) = Payload + FrameType1Size
  BY <1>1, <1>3 DEF PacketSize
<1>5. PacketSize(p) = Type1FrameSize(Mtu, Mode) /\ PacketSize(p) \in 1..Mtu
  BY <1>2, <1>4, SizeFacts
<1>6. FragmentNo(p) = i
  BY <1>1 DEF FragmentNo
<1>7. FragmentOK(p)
  BY <1>1, <1>5, <1>6 DEF FragmentOK
<1> QED BY <1>1, <1>6, <1>7 DEF p

LEMMA Type3PacketOK ==
    ASSUME NEW f \in Nat \ {0}, NEW m, NEW sfn, NEW plan, PlanFits(plan),
           Payload > 0, sfn = (f - 1) % SeqSpace, plan.type3 > 0
    PROVE  /\ FragmentOK(Type3Packet(f, m, sfn, plan))
           /\ FragmentNo(Type3Packet(f, m, sfn, plan)) = plan.type1
           /\ Type3Packet(f, m, sfn, plan).frame = f
<1> DEFINE p == Type3Packet(f, m, sfn, plan)
<1>1. /\ p.mFrameType = 3 /\ p.frame = f /\ p.mSuperFrameNo = sfn
      /\ p.mOfFragmentNo = plan.total - 1
      /\ p.data = Bytes(f, plan.type1 * Payload, plan.type3)
  BY DEF Type3Packet
<1>2. /\ plan.type3 \in Nat /\ plan.type3 < Payload /\ Payload \in Nat
      /\ plan.type1 \in Nat /\ plan.total = plan.type1 + 2
  BY SizeFacts DEF PlanFits
<1>3. Len(p.data) = plan.type3
  BY <1>1, <1>2, BytesLen
<1> HIDE DEF p
<1>4. PacketSize(p) = plan.type3 + FrameType1Size
  BY <1>1, <1>3 DEF PacketSize
<1>5. PacketSize(p) < Type1FrameSize(Mtu, Mode) /\ PacketSize(p) \in 1..Mtu
  BY <1>2, <1>4, SizeFacts
<1>6. FragmentNo(p) = plan.type1
  BY <1>1, <1>2 DEF FragmentNo
<1>7. FragmentOK(p)
  BY <1>1, <1>2, <1>5, <1>6 DEF FragmentOK
<1> QED BY <1>1, <1>6, <1>7 DEF p

LEMMA Type2PacketOK ==
    ASSUME NEW f \in Nat \ {0}, NEW m \in Frames, NEW sfn,
           SendVerdict(m.size, Mtu, Mode) = "OK",
           PlanFits(SendPlan(m.size, Mtu, Mode)), sfn = (f - 1) % SeqSpace
    PROVE  LET plan == SendPlan(m.size, Mtu, Mode)
           IN  /\ FragmentOK(Type2Packet(f, m, sfn, plan))
               /\ FragmentNo(Type2Packet(f, m, sfn, plan)) = plan.total - 1
               /\ Type2Packet(f, m, sfn, plan).frame = f
<1> DEFINE plan == SendPlan(m.size, Mtu, Mode)
           p == Type2Packet(f, m, sfn, plan)
<1> HIDE DEF plan
<1>1. /\ p.mFrameType = 2 /\ p.frame = f /\ p.mSuperFrameNo = sfn
      /\ p.mOfFragmentNo = plan.total - 1
      /\ p.data = Bytes(f, m.size - plan.type2, plan.type2)
  BY DEF Type2Packet
<1>2. /\ plan.type2 \in Nat \ {0} /\ plan.type2 <= Type2PayloadSize(Mtu)
      /\ plan.total - 1 \in Nat
  BY SizeFacts DEF PlanFits, plan
<1>3. Len(p.data) = plan.type2
  BY <1>1, <1>2, BytesLen
<1> HIDE DEF p
<1>4. PacketSize(p) = FrameType2Size + plan.type2
  <2>1. FrameType2Size \in Nat
    BY ONLY SizeFacts
  <2> QED BY ONLY <1>1, <1>2, <1>3, <2>1 DEF PacketSize
<1>5. PacketSize(p) \in 1..Mtu
  <2>1. /\ FrameType2Size \in Nat /\ Mtu \in Nat
        /\ Type2PayloadSize(Mtu) \in Nat
        /\ Type2PayloadSize(Mtu) + FrameType2Size = Mtu
    BY ONLY SizeFacts
  <2> QED BY ONLY <1>2, <1>4, <2>1
<1>6. FragmentNo(p) = plan.total - 1
  BY <1>1 DEF FragmentNo
<1>7. FragmentOK(p)
  BY <1>1, <1>2, <1>4, <1>5, <1>6 DEF FragmentOK, plan
<1> QED BY <1>1, <1>6, <1>7 DEF p, plan

\* send makes fragments numbered from 0, of the sizes planned.
LEMMA FragmentsFacts ==
    ASSUME NEW f \in Nat \ {0}, NEW m \in Frames, m.size > 0, NEW sfn,
           SendVerdict(m.size, Mtu, Mode) = "OK", sfn = (f - 1) % SeqSpace
    PROVE  LET s == Fragments(f, m, sfn, SendPlan(m.size, Mtu, Mode))
           IN  /\ IsSeq(s) /\ Len(s) \in Nat \ {0}
               /\ \A i \in 1..Len(s) : FragmentIs(s[i], i, f, sfn)
<1> DEFINE plan == SendPlan(m.size, Mtu, Mode)
           a == [i \in 1..plan.type1 |-> Type1Packet(f, m, sfn, plan, i - 1)]
           three == Type3Packet(f, m, sfn, plan)
           b == IF plan.type3 > 0 THEN <<three>> ELSE <<>>
           two == Type2Packet(f, m, sfn, plan)
           c == <<two>>
           s == (a \o b) \o c
<1>1. m.size \in Nat \ {0}
  BY SenderAssumption
<1>2. PlanFits(plan) /\ Payload > 0
  BY <1>1, PlanFacts
<1>3. plan.type1 \in Nat /\ plan.type3 \in Nat
      /\ plan.total = plan.type1 + (IF plan.type3 > 0 THEN 2 ELSE 1)
  BY <1>2, SizeFacts DEF PlanFits
<1>4. FragmentIs(two, plan.total, f, sfn)
  BY <1>2, Type2PacketOK DEF FragmentIs
<1>5. plan.type3 > 0 => FragmentIs(three, plan.type1 + 1, f, sfn)
  BY <1>2, <1>3, Type3PacketOK DEF FragmentIs
<1>6. \A i \in 1..plan.type1 :
        FragmentIs(Type1Packet(f, m, sfn, plan, i - 1), i, f, sfn)
  <2>1. \A i \in 1..plan.type1 : i - 1 \in Nat
    BY <1>3
  <2> QED BY <1>2, <2>1, Type1PacketOK DEF FragmentIs
<1> HIDE DEF plan, three, two
<1> DEFINE S == {a[i] : i \in 1..plan.type1} \cup {three, two}
<1>7. a \in Seq(S) /\ Len(a) = plan.type1
  <2>1. a \in [1..plan.type1 -> S]
    OBVIOUS
  <2>2. a = [i \in 1..plan.type1 |-> a[i]]
    OBVIOUS
  <2> HIDE DEF a, S
  <2>3. a \in Seq(S)
    BY <1>3, <2>1, IsASeq
  <2>4. Len(a) = plan.type1
    BY <1>3, <2>2, FunctionIsSeq
  <2> QED BY <2>3, <2>4
<1>8. /\ b \in Seq(S) /\ Len(b) = IF plan.type3 > 0 THEN 1 ELSE 0
      /\ plan.type3 > 0 => b[1] = three
  <2>1. three \in S
    OBVIOUS
  <2> HIDE DEF S
  <2> QED BY <2>1
<1>9. c \in Seq(S) /\ Len(c) = 1 /\ c[1] = two
  <2>1. two \in S
    OBVIOUS
  <2> HIDE DEF S
  <2> QED BY <2>1
<1>10. \A i \in 1..Len(a) : FragmentIs(a[i], i, f, sfn)
  BY <1>6, <1>7
<1>11. /\ a \o b \in Seq(S) /\ Len(a \o b) = Len(a) + Len(b)
       /\ \A i \in 1..(Len(a) + Len(b)) :
            (a \o b)[i] = IF i <= Len(a) THEN a[i] ELSE b[i - Len(a)]
  <2> HIDE DEF a, b, S
  <2>1. a \in Seq(S) /\ b \in Seq(S)
    BY <1>7, <1>8
  <2> QED BY ONLY <2>1, ConcatProperties
<1> HIDE DEF a, b, S
<1> DEFINE d == a \o b
<1> HIDE DEF d
<1>12. /\ s \in Seq(S) /\ Len(s) = Len(d) + 1
       /\ \A i \in 1..(Len(d) + 1) :
            s[i] = IF i <= Len(d) THEN d[i] ELSE c[i - Len(d)]
  <2>1. d \in Seq(S)
    BY <1>11 DEF d
  <2> HIDE DEF c
  <2>0. c \in Seq(S) /\ Len(c) = 1
    BY <1>9
  <2>2. (d \o c) \in Seq(S) /\ Len(d \o c) = Len(d) + Len(c)
       /\ \A i \in 1..(Len(d) + Len(c)) :
            (d \o c)[i] = IF i <= Len(d) THEN d[i] ELSE c[i - Len(d)]
    BY ONLY <2>0, <2>1, ConcatProperties
  <2>3. s = d \o c
    BY DEF d
  <2> QED BY ONLY <2>0, <2>2, <2>3
<1> HIDE DEF c, s
<1>13. ASSUME NEW i \in 1..Len(s)
       PROVE  FragmentIs(s[i], i, f, sfn)
  <2>1. CASE i <= Len(a)
    <3>1. i \in 1..Len(a) /\ i <= Len(d) /\ d[i] = a[i]
      BY <1>3, <1>7, <1>8, <1>11, <2>1 DEF d
    <3>2. i \in 1..(Len(d) + 1)
      BY ONLY <1>12, <1>13
    <3>3. s[i] = a[i]
      BY ONLY <1>12, <3>1, <3>2
    <3> QED BY ONLY <1>10, <3>1, <3>3
  <2>2. CASE i > Len(a) /\ i <= Len(d)
    <3>1. plan.type3 > 0 /\ i = plan.type1 + 1
      BY <1>3, <1>7, <1>8, <1>11, <2>2 DEF d
    <3>2. s[i] = d[i] /\ d[i] = b[1]
      <4>1. /\ i \in 1..Len(d) /\ i \in 1..(Len(d) + 1)
            /\ i \in 1..(Len(a) + Len(b)) /\ i - Len(a) = 1
        BY <1>3, <1>7, <1>8, <1>11, <1>12, <2>2, <3>1 DEF d
      <4>2. s[i] = d[i]
        BY ONLY <1>12, <4>1
      <4>3. d[i] = b[i - Len(a)]
        BY ONLY <1>11, <2>2, <4>1 DEF d
      <4> QED BY ONLY <4>1, <4>2, <4>3
    <3>3. s[i] = three
      BY ONLY <1>8, <3>1, <3>2
    <3>4. FragmentIs(three, i, f, sfn)
      BY ONLY <1>5, <3>1
    <3> QED BY ONLY <3>3, <3>4
  <2>3. CASE i > Len(d)
    <3>1. i = plan.total
      BY <1>3, <1>7, <1>8, <1>11, <1>12, <2>3 DEF d
    <3>2. s[i] = two
      BY <1>3, <1>7, <1>8, <1>9, <1>11, <1>12, <2>3 DEF d
    <3> QED BY <1>4, <3>1, <3>2
  <2>4. Len(a) \in Nat /\ Len(d) \in Nat
    BY <1>3, <1>7, <1>8, <1>11 DEF d
  <2> QED BY <2>1, <2>2, <2>3, <2>4
<1>14. IsSeq(s) /\ Len(s) \in Nat \ {0}
  <2>1. IsSeq(s)
    BY <1>12, SeqIsSeq
  <2>2. Len(s) \in Nat \ {0}
    BY <1>3, <1>7, <1>8, <1>11, <1>12 DEF d
  <2> QED BY <2>1, <2>2
<1>15. Fragments(f, m, sfn, plan) = s
  <2>1. Fragments(f, m, sfn, plan) = a \o b \o c
    BY DEF Fragments, a, b, c, three, two
  <2> QED BY <2>1 DEF s
<1> QED BY <1>13, <1>14, <1>15 DEF plan

------------------------------------------------------------------------------
(***************************************************************************)
(* Bytes.                                                                  *)
(***************************************************************************)
LEMMA EntrySizes ==
    ASSUME NEW r, NEW f, EntriesOK(r, f)
    PROVE  \A k \in DOMAIN r.mRetentionBuffer : EntrySize(r, k) \in 1..Mtu
  BY DEF EntriesOK, FragmentOK, EntrySize

\* The records of the entries that leave name each of their keys once, so what
\* the loop subtracts is what the entries held.
LEMMA BytesAfterIsRest ==
    ASSUME NEW r, NEW f, RetInv(r), EntriesOK(r, f), Accounted(r),
           NEW n \in 0..Len(r.mRetentionOrder)
    PROVE  BytesAfter(r, n) = RetainedBytes(EvictFirst(r, n))
<1> DEFINE buf == r.mRetentionBuffer
           order == r.mRetentionOrder
           e == EvictFirst(r, n)
           K == DOMAIN buf
           G == GoneKeys(r, n)
           L == LiveAmong(r, n)
           held == [k \in K |-> EntrySize(r, k)]
           left == [k \in K \ G |-> EntrySize(e, k)]
           freed == [i \in L |-> EntrySize(r, order[i].mKey)]
           key == [i \in L |-> order[i].mKey]
<1>1. RetTyped(r) /\ Ordered(r) /\ IsSeq(order) /\ Len(order) \in Nat
  BY LenIsNat DEF RetInv, RetTyped
<1>2. /\ IsFiniteSet(K)
      /\ r.mRetentionBufferBytes = SumFunctionOnSet(held, K)
  BY DEF Accounted, RetainedBytes, SumFunction
<1>3. \A k \in K : held[k] \in Int
  BY EntrySizes, SizeFacts
<1>4. \A i \in L : i \in 1..n /\ Live(r, order[i]) /\ order[i].mKey \in K
  BY DEF LiveAmong, Live
<1>5. IsFiniteSet(L)
  <2>1. L \in SUBSET (1..n) /\ IsFiniteSet(1..n)
    BY <1>1, <1>4, FS_Interval
  <2> HIDE DEF L
  <2> QED BY <2>1, FS_Subset
<1>6. ASSUME NEW i \in L, NEW j \in L, key[i] = key[j]
      PROVE  i = j
  <2>1. order[i].mGeneration = order[j].mGeneration
    BY <1>4, <1>6 DEF Live
  <2>2. i \in 1..Len(order) /\ j \in 1..Len(order)
    BY <1>1, <1>4
  <2>3. /\ order[i].mGeneration \in Int
        /\ i < j => order[i].mGeneration < order[j].mGeneration
        /\ j < i => order[j].mGeneration < order[i].mGeneration
    BY <1>1, <2>2 DEF Ordered
  <2> QED BY <1>1, <2>1, <2>2, <2>3
<1>7. {key[i] : i \in L} = G /\ G \in SUBSET K
  BY <1>4 DEF GoneKeys
<1>8. \A i \in L : held[key[i]] = freed[i] /\ freed[i] \in Int
  BY <1>3, <1>4
<1>9. SumFunctionOnSet(held, G) = SumFunctionOnSet(freed, L)
  <2> HIDE DEF held, freed, key, L, G
  <2>1. \A i, j \in L : key[i] = key[j] => i = j
    BY <1>6
  <2>2. \A i \in L : held[key[i]] = freed[i]
    BY <1>8
  <2>3. \A i \in L : freed[i] \in Int
    BY <1>8
  <2>4. G = {key[i] : i \in L}
    BY <1>7
  <2> QED BY <1>5, <2>1, <2>2, <2>3, <2>4, SumReindexed
<1>10. BytesAfter(r, n)
         = SumFunctionOnSet(held, K) - SumFunctionOnSet(freed, L)
  BY <1>2 DEF BytesAfter, SumFunction
<1>11. SumFunctionOnSet(held, K)
         = SumFunctionOnSet(held, G) + SumFunctionOnSet(held, K \ G)
  <2> HIDE DEF held, K, G
  <2> QED BY <1>2, <1>3, <1>7, SumSplit
<1>12. IsFiniteSet(K \ G) /\ IsFiniteSet(G)
  <2> HIDE DEF K, G
  <2> QED BY <1>2, <1>7, FS_Subset
<1>13. e.mRetentionBuffer = [k \in K \ G |-> buf[k]]
  BY <1>1, EvictFields
<1>14. \A k \in K \ G : left[k] = held[k] /\ held[k] \in Int
  <2> HIDE DEF e
  <2> QED BY <1>3, <1>13 DEF EntrySize
<1>15. SumFunctionOnSet(left, K \ G) = SumFunctionOnSet(held, K \ G)
  <2> HIDE DEF held, left, K, G
  <2> QED BY <1>12, <1>14, SumAgrees
<1>16. RetainedBytes(e) = SumFunctionOnSet(left, K \ G)
  <2>1. DOMAIN e.mRetentionBuffer = K \ G
    BY <1>13
  <2> HIDE DEF e, K, G
  <2> QED BY <2>1 DEF RetainedBytes, SumFunction
<1>17. /\ SumFunctionOnSet(held, G) \in Int
       /\ SumFunctionOnSet(held, K \ G) \in Int
  <2> HIDE DEF held, K, G
  <2>1. \A k \in G : held[k] \in Int
    BY <1>3, <1>7
  <2>2. \A k \in K \ G : held[k] \in Int
    BY <1>3
  <2> QED BY <1>12, <2>1, <2>2, SumInt
<1> HIDE DEF held, left, freed, key, K, G, L, e
<1>18. BytesAfter(r, n) = RetainedBytes(e)
  BY <1>9, <1>10, <1>11, <1>15, <1>16, <1>17
<1> QED BY <1>18 DEF e

\* What evictOldRetention leaves is accounted for, and is less or the same.
LEMMA EvictAccounted ==
    ASSUME NEW r, NEW f, RetInv(r), EntriesOK(r, f), Accounted(r),
           NEW n \in 0..Len(r.mRetentionOrder)
    PROVE  LET e == EvictFirst(r, n)
           IN  /\ EntriesOK(e, f) /\ Accounted(e)
               /\ e.mRetentionBufferBytes = BytesAfter(r, n)
               /\ e.mRetentionBufferBytes \in Nat
               /\ DOMAIN e.mRetentionBuffer \subseteq DOMAIN r.mRetentionBuffer
               /\ \A k \in DOMAIN e.mRetentionBuffer :
                    e.mRetentionBuffer[k] = r.mRetentionBuffer[k]
<1> DEFINE e == EvictFirst(r, n)
<1>1. RetTyped(r)
  BY DEF RetInv
<1>2. e.mRetentionBuffer =
        [k \in (DOMAIN r.mRetentionBuffer) \ GoneKeys(r, n) |->
           r.mRetentionBuffer[k]]
  BY <1>1, EvictFields
<1>3. e.mRetentionBufferBytes = BytesAfter(r, n)
  BY <1>1 DEF EvictFirst, RetTyped, RetFields
<1>4. BytesAfter(r, n) = RetainedBytes(e)
  BY BytesAfterIsRest
<1> HIDE DEF e
<1>5. /\ DOMAIN e.mRetentionBuffer \subseteq DOMAIN r.mRetentionBuffer
      /\ \A k \in DOMAIN e.mRetentionBuffer :
           e.mRetentionBuffer[k] = r.mRetentionBuffer[k]
  BY <1>2
<1>6. EntriesOK(e, f)
  BY <1>5 DEF EntriesOK
<1>7. IsFiniteSet(DOMAIN e.mRetentionBuffer)
  BY <1>5, FS_Subset DEF Accounted
<1>8. RetainedBytes(e) \in Nat
  <2> DEFINE held == [k \in DOMAIN e.mRetentionBuffer |-> EntrySize(e, k)]
             K == DOMAIN e.mRetentionBuffer
  <2>1. \A k \in K : held[k] \in Nat
    BY <1>6, EntrySizes, SizeFacts
  <2>2. RetainedBytes(e) = SumFunctionOnSet(held, K)
    BY DEF RetainedBytes, SumFunction
  <2> HIDE DEF held
  <2> QED BY <1>7, <2>1, <2>2, SumNat
<1>9. Accounted(e)
  BY <1>3, <1>4, <1>7 DEF Accounted
<1> QED BY <1>3, <1>4, <1>5, <1>6, <1>8, <1>9 DEF e

\* evictOldRetention makes the room it was asked for, or empties the buffer.
LEMMA EvictMakesRoom ==
    ASSUME NEW r, NEW f, RetInv(r), EntriesOK(r, f), Accounted(r),
           NEW aRequiredBytes \in Nat
    PROVE  LET e == evictOldRetention(r, aRequiredBytes)
           IN  /\ RetInv(e) /\ EntriesOK(e, f) /\ Accounted(e)
               /\ e.mRetentionBufferBytes \in Nat
               /\ DOMAIN e.mRetentionBuffer \subseteq DOMAIN r.mRetentionBuffer
               /\ \A k \in DOMAIN e.mRetentionBuffer :
                    e.mRetentionBuffer[k] = r.mRetentionBuffer[k]
               /\ \/ e.mRetentionBufferBytes + aRequiredBytes <= RetentionMaxBytes
                  \/ /\ e.mRetentionBufferBytes = 0
                     /\ DOMAIN e.mRetentionBuffer = {}
<1> DEFINE n == EvictCount(r, aRequiredBytes)
           e == EvictFirst(r, n)
           order == r.mRetentionOrder
<1>1. RetTyped(r) /\ Ordered(r) /\ IsSeq(order) /\ Len(order) \in Nat
  BY LenIsNat DEF RetInv, RetTyped
<1>2. n \in 0..Len(order) /\ StopsAfter(r, n, aRequiredBytes)
  BY <1>1, EvictCountFacts
<1> HIDE DEF n
<1>3. e = evictOldRetention(r, aRequiredBytes)
  BY DEF evictOldRetention, n
<1>4. /\ EntriesOK(e, f) /\ Accounted(e)
      /\ e.mRetentionBufferBytes = BytesAfter(r, n)
      /\ e.mRetentionBufferBytes \in Nat
      /\ DOMAIN e.mRetentionBuffer \subseteq DOMAIN r.mRetentionBuffer
      /\ \A k \in DOMAIN e.mRetentionBuffer :
           e.mRetentionBuffer[k] = r.mRetentionBuffer[k]
  BY <1>2, EvictAccounted
<1>5. RetInv(e)
  BY <1>2, EvictInv
<1>6. e.mRetentionBuffer =
        [k \in (DOMAIN r.mRetentionBuffer) \ GoneKeys(r, n) |->
           r.mRetentionBuffer[k]]
  BY <1>1, EvictFields
<1> HIDE DEF e
<1>7. CASE n = Len(order)
  <2>1. ASSUME NEW k \in DOMAIN r.mRetentionBuffer
        PROVE  k \in GoneKeys(r, n)
    <3>1. PICK i \in 1..Len(order) :
            /\ order[i].mKey = k
            /\ order[i].mGeneration = r.mRetentionBuffer[k].mGeneration
      BY <1>1 DEF Ordered
    <3>2. i \in LiveAmong(r, n)
      BY <1>7, <3>1 DEF LiveAmong, Live
    <3> QED BY <3>1, <3>2 DEF GoneKeys
  <2>2. DOMAIN e.mRetentionBuffer = {}
    BY <1>6, <2>1
  <2>3. RetainedBytes(e) = 0
    <3>1. RetainedBytes(e)
            = SumFunctionOnSet([k \in DOMAIN e.mRetentionBuffer |->
                                  EntrySize(e, k)], {})
      BY <2>2 DEF RetainedBytes, SumFunction
    <3> QED BY <3>1, SumEmpty
  <2>4. e.mRetentionBufferBytes = 0
    BY <1>4, <2>3 DEF Accounted
  <2> QED BY <1>3, <1>4, <1>5, <2>2, <2>4
<1>8. CASE n # Len(order)
  <2>1. BytesAfter(r, n) <= RetentionMaxBytes - aRequiredBytes
    BY <1>2, <1>8 DEF StopsAfter
  <2>2. e.mRetentionBufferBytes + aRequiredBytes <= RetentionMaxBytes
    BY <1>4, <2>1, SenderAssumption
  <2> QED BY <1>3, <1>4, <1>5, <2>2
<1> QED BY <1>7, <1>8

LEMMA InsertAccounted ==
    ASSUME NEW r, NEW f, RetTyped(r), EntriesOK(r, f), Accounted(r),
           NEW p, FragmentOK(p), p.frame <= f,
           NEW key, key = makeRetentionKey(p.mSuperFrameNo, FragmentNo(p))
    PROVE  LET e == Insert(r, key, p)
           IN  /\ EntriesOK(e, f) /\ Accounted(e)
               /\ e.mRetentionBufferBytes =
                    r.mRetentionBufferBytes + PacketSize(p)
                      - (IF key \in DOMAIN r.mRetentionBuffer
                           THEN EntrySize(r, key) ELSE 0)
               /\ DOMAIN e.mRetentionBuffer
                    = (DOMAIN r.mRetentionBuffer) \cup {key}
               /\ e.mRetentionBuffer[key].mData = p
               /\ \A k \in (DOMAIN r.mRetentionBuffer) \ {key} :
                    e.mRetentionBuffer[k] = r.mRetentionBuffer[k]
<1> DEFINE e == Insert(r, key, p)
           buf == r.mRetentionBuffer
           g == r.mRetentionGeneration + 1
           entry == [mGeneration |-> g, mTimestampUs |-> now,
                     mStreamId |-> p.mStreamId, mData |-> p]
           K == DOMAIN buf
           old == IF key \in K THEN EntrySize(r, key) ELSE 0
<1>1. /\ e.mRetentionBuffer = [k \in K \cup {key} |->
                                 IF k = key THEN entry ELSE buf[k]]
      /\ e.mRetentionBufferBytes
           = r.mRetentionBufferBytes - old + PacketSize(p)
  BY DEF Insert, RetTyped, RetFields
<1>2. entry.mData = p
  OBVIOUS
<1> HIDE DEF e, entry, old
<1>3. /\ DOMAIN e.mRetentionBuffer = K \cup {key}
      /\ e.mRetentionBuffer[key].mData = p
      /\ \A k \in K \ {key} : e.mRetentionBuffer[k] = buf[k]
  BY <1>1, <1>2
<1>4. EntriesOK(e, f)
  <2>1. ASSUME NEW k \in DOMAIN e.mRetentionBuffer
        PROVE  LET q == e.mRetentionBuffer[k].mData
               IN  /\ FragmentOK(q) /\ q.frame <= f
                   /\ k = makeRetentionKey(q.mSuperFrameNo, FragmentNo(q))
    <3>1. CASE k = key
      BY <1>3, <3>1
    <3>2. CASE k # key
      <4>1. k \in K /\ e.mRetentionBuffer[k] = buf[k]
        BY <1>3, <3>2
      <4> QED BY <4>1 DEF EntriesOK
    <3> QED BY <3>1, <3>2
  <2> QED BY <2>1 DEF EntriesOK
<1> DEFINE held == [k \in K |-> EntrySize(r, k)]
           holds == [k \in K \cup {key} |-> EntrySize(e, k)]
           R == K \ {key}
<1>5. IsFiniteSet(K) /\ IsFiniteSet(R) /\ IsFiniteSet(K \cup {key})
  <2>1. IsFiniteSet(K)
    BY DEF Accounted
  <2> HIDE DEF K
  <2> QED BY <2>1, FS_AddElement, FS_RemoveElement
<1>6. \A k \in K : held[k] \in Int
  BY EntrySizes, SizeFacts
<1>7. \A k \in K \cup {key} : holds[k] \in Int
  <2>1. \A k \in DOMAIN e.mRetentionBuffer : EntrySize(e, k) \in 1..Mtu
    BY <1>4, EntrySizes
  <2> QED BY <1>3, <2>1, SizeFacts
<1>8. holds[key] = PacketSize(p)
  BY <1>3 DEF EntrySize
<1>9. \A k \in R : holds[k] = held[k] /\ held[k] \in Int
  BY <1>3, <1>6 DEF EntrySize
<1>10. key \in K => held[key] = EntrySize(r, key)
  OBVIOUS
<1>11. /\ r.mRetentionBufferBytes = SumFunctionOnSet(held, K)
       /\ RetainedBytes(e) = SumFunctionOnSet(holds, K \cup {key})
  BY <1>3 DEF Accounted, RetainedBytes, SumFunction
<1> HIDE DEF K, held, holds
<1>12. SumFunctionOnSet(holds, K \cup {key})
         = PacketSize(p) + SumFunctionOnSet(holds, R)
  <2>1. (K \cup {key}) \ {key} = R /\ key \in K \cup {key}
    OBVIOUS
  <2> HIDE DEF R
  <2> QED BY <1>5, <1>7, <1>8, <2>1, SumWithout
<1>13. SumFunctionOnSet(holds, R) = SumFunctionOnSet(held, R)
  <2> HIDE DEF R
  <2> QED BY <1>5, <1>9, SumAgrees
<1>14. SumFunctionOnSet(held, K) = old + SumFunctionOnSet(held, R)
  <2>1. CASE key \in K
    <3>1. SumFunctionOnSet(held, K) = held[key] + SumFunctionOnSet(held, R)
      BY <1>5, <1>6, <2>1, SumWithout
    <3> QED BY <1>10, <2>1, <3>1 DEF old, K
  <2>2. CASE key \notin K
    <3>1. R = K /\ old = 0
      BY <2>2 DEF old, K
    <3>2. SumFunctionOnSet(held, K) \in Int
      BY <1>5, <1>6, SumInt
    <3> HIDE DEF R
    <3> QED BY <3>1, <3>2
  <2> QED BY <2>1, <2>2
<1>15. /\ PacketSize(p) \in Int
       /\ SumFunctionOnSet(held, R) \in Int
       /\ old \in Int
  <2>1. \A k \in R : held[k] \in Int
    BY <1>6
  <2>2. SumFunctionOnSet(held, R) \in Int
    <3> HIDE DEF R
    <3> QED BY <1>5, <2>1, SumInt
  <2>3. PacketSize(p) \in Int
    BY SizeFacts DEF FragmentOK
  <2>4. old \in Int
    BY <1>6, <1>10 DEF old, K
  <2> QED BY <2>2, <2>3, <2>4
<1> HIDE DEF R
<1>16. e.mRetentionBufferBytes = RetainedBytes(e)
  BY <1>1, <1>11, <1>12, <1>13, <1>14, <1>15
<1>17. Accounted(e)
  BY <1>3, <1>5, <1>16 DEF Accounted, K
<1>18. e.mRetentionBufferBytes = r.mRetentionBufferBytes + PacketSize(p) - old
  BY <1>1, <1>11, <1>14, <1>15
<1> QED BY <1>3, <1>4, <1>17, <1>18 DEF e, old, K

\* A fragment is retained within the limit, or it replaces one that its own
\* eviction had already removed, whose size was counted as free.
LEMMA RetainAccounted ==
    ASSUME NEW r, NEW f, RetInv(r), EntriesOK(r, f), Accounted(r),
           NEW p, FragmentOK(p), p.frame <= f
    PROVE  LET e   == retainFragment(r, p)
               key == makeRetentionKey(p.mSuperFrameNo, FragmentNo(p))
           IN  /\ EntriesOK(e, f) /\ Accounted(e)
               /\ \A k \in DOMAIN e.mRetentionBuffer :
                    \/ /\ k \in DOMAIN r.mRetentionBuffer
                       /\ e.mRetentionBuffer[k] = r.mRetentionBuffer[k]
                    \/ e.mRetentionBuffer[k].mData = p
               /\ \/ e = r
                  \/ e.mRetentionBufferBytes <= RetentionMaxBytes
                  \/ /\ key \in DOMAIN r.mRetentionBuffer
                     /\ e.mRetentionBufferBytes <= RetentionMaxBytes + Mtu
<1> DEFINE key == makeRetentionKey(p.mSuperFrameNo, FragmentNo(p))
           size == PacketSize(p)
           req == RequiredBytes(r, key, size)
           room == evictOldRetention(r, req)
           e == Insert(room, key, p)
           existing == IF key \in DOMAIN r.mRetentionBuffer
                         THEN EntrySize(r, key) ELSE 0
           replaced == IF key \in DOMAIN room.mRetentionBuffer
                         THEN EntrySize(room, key) ELSE 0
<1>1. CASE retainFragment(r, p) = r
  BY <1>1
<1>2. CASE retainFragment(r, p) # r
  <2>1. retainFragment(r, p) = e /\ size <= RetentionMaxBytes
    <3>1. ~(RetentionMs = 0 \/ size > RetentionMaxBytes)
      BY <1>2 DEF retainFragment
    <3>2. size \in Nat /\ RetentionMaxBytes \in Nat
      BY SenderAssumption, SizeFacts DEF FragmentOK
    <3> QED BY <3>1, <3>2 DEF retainFragment
  <2>2. size \in 1..Mtu /\ existing \in 0..Mtu /\ Mtu \in Nat
        /\ RetentionMaxBytes \in Nat
    BY EntrySizes, SizeFacts, SenderAssumption DEF FragmentOK
  <2>3. req = IF size > existing THEN size - existing ELSE 0
    BY DEF RequiredBytes
  <2> HIDE DEF req, existing, size
  <2>4. req \in Nat /\ size - existing <= req
    BY <2>2, <2>3
  <2> HIDE DEF room
  <2>5. /\ RetInv(room) /\ EntriesOK(room, f) /\ Accounted(room)
        /\ room.mRetentionBufferBytes \in Nat
        /\ DOMAIN room.mRetentionBuffer \subseteq DOMAIN r.mRetentionBuffer
        /\ \A k \in DOMAIN room.mRetentionBuffer :
             room.mRetentionBuffer[k] = r.mRetentionBuffer[k]
        /\ \/ room.mRetentionBufferBytes + req <= RetentionMaxBytes
           \/ /\ room.mRetentionBufferBytes = 0
              /\ DOMAIN room.mRetentionBuffer = {}
    BY <2>4, EvictMakesRoom DEF room
  <2>6. RetTyped(room)
    BY <2>5 DEF RetInv
  <2>7. /\ EntriesOK(e, f) /\ Accounted(e)
        /\ e.mRetentionBufferBytes
             = room.mRetentionBufferBytes + size - replaced
        /\ DOMAIN e.mRetentionBuffer
             = (DOMAIN room.mRetentionBuffer) \cup {key}
        /\ e.mRetentionBuffer[key].mData = p
        /\ \A k \in (DOMAIN room.mRetentionBuffer) \ {key} :
             e.mRetentionBuffer[k] = room.mRetentionBuffer[k]
    BY <2>5, <2>6, InsertAccounted DEF size
  <2>8. replaced \in {0, existing}
    BY <2>5 DEF existing, EntrySize
  <2>9. key \in DOMAIN room.mRetentionBuffer => replaced = existing
    BY <2>5 DEF existing, EntrySize
  <2>10. key \notin DOMAIN r.mRetentionBuffer => existing = 0
    BY DEF existing
  <2>11. key \notin DOMAIN room.mRetentionBuffer => replaced = 0
    OBVIOUS
  <2> HIDE DEF e, replaced, key
  <2>12. \A k \in DOMAIN e.mRetentionBuffer :
           \/ /\ k \in DOMAIN r.mRetentionBuffer
              /\ e.mRetentionBuffer[k] = r.mRetentionBuffer[k]
           \/ e.mRetentionBuffer[k].mData = p
    BY <2>5, <2>7
  <2>13. \/ e.mRetentionBufferBytes <= RetentionMaxBytes
         \/ /\ key \in DOMAIN r.mRetentionBuffer
            /\ e.mRetentionBufferBytes <= RetentionMaxBytes + Mtu
    <3>1. CASE room.mRetentionBufferBytes = 0
               /\ DOMAIN room.mRetentionBuffer = {}
      BY <2>1, <2>2, <2>7, <2>11, <3>1 DEF size
    <3>2. CASE room.mRetentionBufferBytes + req <= RetentionMaxBytes
      <4>1. CASE key \in DOMAIN room.mRetentionBuffer
        BY <2>2, <2>4, <2>5, <2>7, <2>9, <3>2, <4>1
      <4>2. CASE key \notin DOMAIN r.mRetentionBuffer
        <5>1. replaced = 0 /\ existing = 0
          BY <2>5, <2>10, <2>11, <4>2
        <5> QED BY <2>2, <2>4, <2>5, <2>7, <3>2, <5>1
      <4>3. CASE /\ key \in DOMAIN r.mRetentionBuffer
                 /\ key \notin DOMAIN room.mRetentionBuffer
        BY <2>2, <2>4, <2>5, <2>7, <2>11, <3>2, <4>3
      <4> QED BY <4>1, <4>2, <4>3
    <3> QED BY <2>5, <3>1, <3>2
  <2> QED BY <2>1, <2>7, <2>12, <2>13 DEF e, key
<1> QED BY <1>1, <1>2

\* The queue of requests takes no part in this.
LEMMA SameBytes ==
    ASSUME NEW r, NEW f, EntriesOK(r, f), Accounted(r), NEW e,
           e.mRetentionBuffer = r.mRetentionBuffer,
           e.mRetentionBufferBytes = r.mRetentionBufferBytes
    PROVE  EntriesOK(e, f) /\ Accounted(e)
<1>1. EntriesOK(e, f)
  BY DEF EntriesOK
<1>2. \A k : EntrySize(e, k) = EntrySize(r, k)
  BY DEF EntrySize
<1>3. RetainedBytes(e) = RetainedBytes(r)
  BY <1>2 DEF RetainedBytes
<1> QED BY <1>1, <1>3 DEF Accounted

LEMMA QueueKeepsBytes ==
    ASSUME NEW r, RetTyped(r), NEW ask
    PROVE  /\ PopRetransmit(r).mRetentionBuffer = r.mRetentionBuffer
           /\ PopRetransmit(r).mRetentionBufferBytes = r.mRetentionBufferBytes
           /\ QueueRetransmit(r, ask).mRetentionBuffer = r.mRetentionBuffer
           /\ QueueRetransmit(r, ask).mRetentionBufferBytes
                = r.mRetentionBufferBytes
<1>1. /\ PopRetransmit(r).mRetentionBuffer = r.mRetentionBuffer
      /\ PopRetransmit(r).mRetentionBufferBytes = r.mRetentionBufferBytes
  BY DEF PopRetransmit, RetTyped, RetFields
<1>2. CASE QueueRetransmit(r, ask) = r
  BY <1>1, <1>2
<1>3. CASE QueueRetransmit(r, ask) # r
  <2> DEFINE key == makeRetentionKey(ask.mSuperFrameNo, ask.mFragmentNo)
             marks == r.mQueuedRetransmits
                        \cup {r.mRetentionBuffer[key].mGeneration}
  <2>1. PICK queue :
          QueueRetransmit(r, ask) = [r EXCEPT !.mQueuedRetransmits = marks,
                                              !.mRetransmitQueue = queue]
    BY <1>3 DEF QueueRetransmit
  <2> HIDE DEF marks
  <2> QED BY <1>1, <2>1 DEF RetTyped, RetFields
<1> QED BY <1>2, <1>3

------------------------------------------------------------------------------
(***************************************************************************)
(* The operations.                                                         *)
(***************************************************************************)
LEMMA AdvancedFields ==
    ASSUME TaskTyped, Sending, NEW todo, NEW frames, NEW room
    PROVE  LET t == Advanced(todo, frames, room)
           IN  \/ t = Idle
               \/ /\ todo # <<>> /\ t.op = "send"
                  /\ t.todo = todo /\ t.bundle = frames /\ t.room = room
<1>1. task = [f \in SendFields |-> task[f]] /\ task.op = "send"
  BY DEF TaskTyped, Sending, Idle
<1> QED BY <1>1 DEF Advanced, SendFields

LEMMA InitPInv == Init => PInv
<1> SUFFICES ASSUME Init
             PROVE  PInv
  OBVIOUS
<1>1. ret = [mRetentionBuffer |-> [k \in {} |-> 0], mRetentionOrder |-> <<>>,
             mRetransmitQueue |-> <<>>, mQueuedRetransmits |-> {},
             mRetentionBufferBytes |-> 0, mRetentionGeneration |-> 0]
  BY DEF Init, InitAt
<1>2. DOMAIN ret.mRetentionBuffer = {} /\ ret.mRetentionBufferBytes = 0
  BY <1>1
<1>3. sent = <<>> /\ Len(sent) = 0 /\ IsSeq(sent)
  BY EmptyIsSeq DEF Init, InitAt
<1>4. mSuperFrameNo = Len(sent) % SeqSpace
  <2>1. SeqSpace \in Nat \ {0} /\ 0 = (SeqSpace * 0) + 0
    BY SenderAssumption
  <2>2. 0 % SeqSpace = 0
    BY <2>1, ModUnique
  <2> QED BY <1>3, <2>2 DEF Init, InitAt
<1>5. EntriesOK(ret, Len(sent))
  BY <1>2 DEF EntriesOK
<1>6. RetainedBytes(ret) = 0
  <2>1. RetainedBytes(ret)
          = SumFunctionOnSet([k \in DOMAIN ret.mRetentionBuffer |->
                                EntrySize(ret, k)], {})
    BY <1>2 DEF RetainedBytes, SumFunction
  <2> QED BY <2>1, SumEmpty
<1>7. Accounted(ret)
  BY <1>2, <1>6, FS_EmptySet DEF Accounted
<1>8. TodoOK
  BY DEF TodoOK, Init, InitAt, Idle
<1>9. RetentionWithinLimit
  BY <1>2, SenderAssumption, SizeFacts DEF RetentionWithinLimit
<1> QED BY <1>3, <1>4, <1>5, <1>7, <1>8, <1>9 DEF PInv

\* Steps that neither retain nor evict.
LEMMA KeepPInv ==
    ASSUME PInv, sent' = sent, mSuperFrameNo' = mSuperFrameNo,
           ret'.mRetentionBuffer = ret.mRetentionBuffer,
           ret'.mRetentionBufferBytes = ret.mRetentionBufferBytes,
           task'.op = "send" => task.op = "send" /\ task'.todo = task.todo
    PROVE  PInv'
<1>1. EntriesOK(ret', Len(sent)) /\ Accounted(ret')
  BY SameBytes DEF PInv
<1>2. TodoOK'
  BY DEF PInv, TodoOK, Keys
<1>3. RetentionWithinLimit'
  BY DEF PInv, RetentionWithinLimit
<1>4. EntriesOK(ret, Len(sent))' /\ Accounted(ret)'
  BY <1>1
<1> QED BY <1>2, <1>3, <1>4 DEF PInv

LEMMA BytesAreNat ==
    ASSUME PInv
    PROVE  ret.mRetentionBufferBytes \in Nat
<1> DEFINE held == [k \in Keys |-> EntrySize(ret, k)]
<1>1. \A k \in Keys : EntrySize(ret, k) \in 1..Mtu
  BY EntrySizes DEF PInv, Keys
<1>2. \A k \in Keys : held[k] \in Nat
  BY <1>1, SizeFacts
<1>3. IsFiniteSet(Keys)
  BY DEF PInv, Accounted, Keys
<1>4. ret.mRetentionBufferBytes = SumFunctionOnSet(held, Keys)
  BY DEF PInv, Accounted, RetainedBytes, SumFunction, Keys
<1> HIDE DEF held
<1> QED BY <1>2, <1>3, <1>4, SumNat

LEMMA SendPInv ==
    ASSUME IInv, PInv, NEW m \in Frames, Send(m)
    PROVE  PInv'
<1> DEFINE f == Len(sent) + 1
           plan == SendPlan(m.size, Mtu, Mode)
           todo == Fragments(f, m, mSuperFrameNo, plan)
<1>1. IsSeq(sent) /\ Len(sent) \in Nat /\ f \in Nat \ {0} /\ f - 1 = Len(sent)
  BY LenIsNat DEF PInv
<1>2. /\ EntriesOK(ret', Len(sent)) /\ Accounted(ret')
      /\ ret'.mRetentionBufferBytes \in Nat
      /\ \/ ret' = ret
         \/ ret'.mRetentionBufferBytes <= RetentionMaxBytes
  <2>1. CASE ret' = ret
    BY <2>1, BytesAreNat DEF PInv
  <2>2. CASE ret' = evictOldRetention(ret, 0)
    <3>1. /\ EntriesOK(ret', Len(sent)) /\ Accounted(ret')
          /\ ret'.mRetentionBufferBytes \in Nat
          /\ \/ ret'.mRetentionBufferBytes + 0 <= RetentionMaxBytes
             \/ ret'.mRetentionBufferBytes = 0
      BY <2>2, EvictMakesRoom DEF IInv, PInv
    <3>2. RetentionMaxBytes \in Nat
      BY SenderAssumption
    <3>3. \A n \in Nat : (n + 0 <= RetentionMaxBytes \/ n = 0)
                          => n <= RetentionMaxBytes
      BY ONLY <3>2
    <3> QED BY ONLY <3>1, <3>3
  <2> QED BY <2>1, <2>2 DEF Send
<1>3. CASE SendVerdict(m.size, Mtu, Mode) # "OK"
  <2>1. sent' = sent /\ mSuperFrameNo' = mSuperFrameNo /\ task' = Idle
    BY <1>3 DEF Send
  <2>2. TodoOK'
    BY <2>1 DEF TodoOK, Idle
  <2>3. RetentionWithinLimit'
    <3>1. CASE ret' = ret
      BY <2>1, <3>1 DEF PInv, RetentionWithinLimit
    <3>2. CASE ret'.mRetentionBufferBytes <= RetentionMaxBytes
      BY <1>2, <3>2, SenderAssumption, SizeFacts DEF RetentionWithinLimit
    <3> QED BY <1>2, <3>1, <3>2
  <2>4. EntriesOK(ret, Len(sent))' /\ Accounted(ret)'
    BY <1>2, <2>1
  <2> QED BY <2>1, <2>2, <2>3, <2>4 DEF PInv
<1>4. CASE SendVerdict(m.size, Mtu, Mode) = "OK"
  <2>1. /\ sent' = Append(sent, m)
        /\ mSuperFrameNo' = NextSuperFrameNo(mSuperFrameNo)
        /\ task' = [op |-> "send", frame |-> m, todo |-> todo,
                    bundle |-> <<>>, room |-> 0]
        /\ m.size > 0
    BY <1>4 DEF Send
  <2>2. IsSeq(sent') /\ Len(sent') = f
    BY <1>1, <2>1, AppendFacts
  <2>3. mSuperFrameNo = (f - 1) % SeqSpace
    BY <1>1 DEF PInv
  <2>4. mSuperFrameNo' = Len(sent') % SeqSpace
    <3>1. SeqSpace \in Nat \ {0}
      BY SenderAssumption
    <3>2. ((Len(sent) % SeqSpace) + 1) % SeqSpace = f % SeqSpace
      BY <1>1, <3>1, ModSucc
    <3> QED BY <2>1, <2>2, <3>2 DEF NextSuperFrameNo, PInv
  <2>5. /\ IsSeq(todo) /\ Len(todo) \in Nat \ {0}
        /\ \A i \in 1..Len(todo) : FragmentIs(todo[i], i, f, mSuperFrameNo)
    BY <1>1, <1>4, <2>1, <2>3, FragmentsFacts
  <2>6. task'.todo = todo
    BY <2>1
  <2>7. \A k \in DOMAIN ret'.mRetentionBuffer :
          ret'.mRetentionBuffer[k].mData.frame \in Nat
            /\ ret'.mRetentionBuffer[k].mData.frame <= Len(sent)
    BY <1>2 DEF EntriesOK, FragmentOK
  <2> HIDE DEF todo, f
  <2>8. TodoOK'
    <3>1. todo # <<>>
      BY <2>5, EmptyIsSeq
    <3>2. \A i \in 1..Len(todo) :
            /\ FragmentOK(todo[i]) /\ todo[i].frame = f
            /\ FragmentNo(todo[i]) = FragmentNo(todo[1]) + i - 1
      BY <2>5 DEF FragmentIs
    <3>3. \A k \in DOMAIN ret'.mRetentionBuffer :
            ret'.mRetentionBuffer[k].mData.frame # f
      BY <1>1, <2>7 DEF f
    <3> QED BY <2>2, <2>5, <2>6, <3>1, <3>2, <3>3 DEF TodoOK, Keys
  <2>9. EntriesOK(ret', Len(sent'))
    BY <1>1, <1>2, <2>2, <2>7 DEF EntriesOK, f
  <2>10. RetentionWithinLimit'
    <3>2. /\ SeqSpace \in Nat /\ RetentionMaxBytes \in Nat /\ Mtu \in Nat
          /\ Len(sent') = Len(sent) + 1
      BY <2>2, SenderAssumption DEF f
    <3>3. CASE ret' = ret
      BY <1>1, <1>2, <3>2, <3>3 DEF PInv, RetentionWithinLimit
    <3>4. CASE ret'.mRetentionBufferBytes <= RetentionMaxBytes
      BY <1>1, <1>2, <3>2, <3>4 DEF RetentionWithinLimit
    <3> QED BY <1>2, <3>3, <3>4
  <2>11. EntriesOK(ret, Len(sent))' /\ Accounted(ret)'
    BY <1>2, <2>9
  <2> QED BY <2>2, <2>4, <2>8, <2>10, <2>11 DEF PInv
<1> QED BY <1>3, <1>4

\* The packets of an operation that has sent its first one.
LEMMA RestOfTodo ==
    ASSUME NEW todo, IsSeq(todo), todo # <<>>
    PROVE  /\ IsSeq(Tail(todo)) /\ Head(todo) = todo[1]
           /\ 1 \in 1..Len(todo) /\ Len(todo) \in Nat
           /\ \A i \in 1..Len(Tail(todo)) :
                i \in Nat /\ i + 1 \in 1..Len(todo) /\ Tail(todo)[i] = todo[i + 1]
           /\ Tail(todo) # <<>> => 1 \in 1..Len(Tail(todo))
<1>1. Len(todo) \in Nat
  BY LenIsNat
<1>2. /\ IsSeq(Tail(todo)) /\ Head(todo) = todo[1] /\ Len(todo) >= 1
      /\ Len(Tail(todo)) = Len(todo) - 1
      /\ \A i \in 1..(Len(todo) - 1) : Tail(todo)[i] = todo[i + 1]
  BY TailFacts
<1>3. \A i \in 1..Len(Tail(todo)) :
        i \in Nat /\ i + 1 \in 1..Len(todo) /\ Tail(todo)[i] = todo[i + 1]
  BY <1>1, <1>2
<1>4. Tail(todo) # <<>> => 1 \in 1..Len(Tail(todo))
  <2>1. Tail(todo) = <<>> \/ Len(Tail(todo)) # 0
    <3>1. Tail(todo) \in Seq({Tail(todo)[i] : i \in 1..Len(Tail(todo))})
      BY <1>2 DEF IsSeq
    <3> QED BY <3>1, EmptySeq
  <2> QED BY <1>1, <1>2, <2>1
<1> QED BY <1>1, <1>2, <1>3, <1>4

\* A key already in the buffer is that of a frame the sequence has wrapped
\* around since.
LEMMA ReplacedOnlyAfterWrap ==
    ASSUME PInv, task.op = "send",
           NEW p, p = Head(task.todo),
           makeRetentionKey(p.mSuperFrameNo, FragmentNo(p)) \in Keys
    PROVE  Len(sent) > SeqSpace
<1> DEFINE key == makeRetentionKey(p.mSuperFrameNo, FragmentNo(p))
           q == ret.mRetentionBuffer[key].mData
<1>1. /\ IsSeq(task.todo) /\ task.todo # <<>>
      /\ Len(sent) \in Nat /\ SeqSpace \in Nat \ {0}
  BY LenIsNat, SenderAssumption DEF PInv, TodoOK
<1>2. p = task.todo[1] /\ 1 \in 1..Len(task.todo)
  BY <1>1, RestOfTodo
<1>3. /\ FragmentOK(p) /\ p.frame = Len(sent)
      /\ q.frame = Len(sent) => FragmentNo(q) < FragmentNo(p)
  BY <1>2 DEF PInv, TodoOK, Keys
<1>4. /\ FragmentOK(q) /\ q.frame <= Len(sent)
      /\ key = makeRetentionKey(q.mSuperFrameNo, FragmentNo(q))
  BY DEF PInv, EntriesOK, Keys
<1> HIDE DEF q
<1>5. q.mSuperFrameNo = p.mSuperFrameNo /\ FragmentNo(q) = FragmentNo(p)
  BY <1>4 DEF makeRetentionKey
<1>6. q.frame # Len(sent)
  <2>1. FragmentNo(p) \in Nat
    BY <1>3 DEF FragmentOK
  <2> QED BY <1>3, <1>5, <2>1
<1>7. /\ q.frame - 1 \in Nat /\ Len(sent) - 1 \in Nat
      /\ q.frame - 1 < Len(sent) - 1 /\ q.frame \in Nat
      /\ (q.frame - 1) % SeqSpace = (Len(sent) - 1) % SeqSpace
  <2>1. q.frame \in Nat \ {0} /\ q.mSuperFrameNo = (q.frame - 1) % SeqSpace
    BY <1>4 DEF FragmentOK
  <2>2. Len(sent) # 0 /\ p.mSuperFrameNo = (Len(sent) - 1) % SeqSpace
    BY <1>3 DEF FragmentOK
  <2>3. (q.frame - 1) % SeqSpace = (Len(sent) - 1) % SeqSpace
    BY <1>5, <2>1, <2>2
  <2>4. /\ q.frame - 1 \in Nat /\ Len(sent) - 1 \in Nat
        /\ q.frame - 1 < Len(sent) - 1 /\ q.frame \in Nat
    <3>1. q.frame \in Nat \ {0} /\ Len(sent) \in Nat
      BY <1>1, <2>1
    <3>2. q.frame <= Len(sent) /\ q.frame # Len(sent)
      BY <1>4, <1>6
    <3> QED BY ONLY <3>1, <3>2
  <2> QED BY <2>3, <2>4
<1>8. (q.frame - 1) + SeqSpace <= Len(sent) - 1
  BY <1>1, <1>7, ModApart
<1> QED BY <1>1, <1>7, <1>8

LEMMA FragmentPInv ==
    ASSUME IInv, PInv, SendFragment \/ BundleFragment
    PROVE  PInv'
<1> DEFINE todo == task.todo
           p == Head(todo)
           key == makeRetentionKey(p.mSuperFrameNo, FragmentNo(p))
<1>1. /\ sent' = sent /\ mSuperFrameNo' = mSuperFrameNo
      /\ Sending /\ task.op = "send"
      /\ ret' = retainFragment(ret, p)
      /\ \E frames, room : task' = Advanced(Tail(todo), frames, room)
  BY DEF SendFragment, BundleFragment, Bundled, Sending
<1>2. /\ IsSeq(todo) /\ todo # <<>> /\ Len(sent) \in Nat
      /\ \A i \in 1..Len(todo) :
           /\ FragmentOK(todo[i]) /\ todo[i].frame = Len(sent)
           /\ FragmentNo(todo[i]) = FragmentNo(todo[1]) + i - 1
      /\ \A k \in Keys :
           ret.mRetentionBuffer[k].mData.frame = Len(sent) =>
             FragmentNo(ret.mRetentionBuffer[k].mData) < FragmentNo(todo[1])
  BY <1>1, LenIsNat DEF PInv, TodoOK
<1>3. /\ IsSeq(Tail(todo)) /\ p = todo[1] /\ 1 \in 1..Len(todo)
      /\ \A i \in 1..Len(Tail(todo)) :
           i \in Nat /\ i + 1 \in 1..Len(todo) /\ Tail(todo)[i] = todo[i + 1]
      /\ Tail(todo) # <<>> => 1 \in 1..Len(Tail(todo))
  BY <1>2, RestOfTodo
<1>4. FragmentOK(p) /\ p.frame = Len(sent) /\ FragmentNo(p) \in Nat
  BY <1>2, <1>3 DEF FragmentOK
<1>5. /\ EntriesOK(ret', Len(sent)) /\ Accounted(ret')
      /\ \A k \in DOMAIN ret'.mRetentionBuffer :
           \/ /\ k \in DOMAIN ret.mRetentionBuffer
              /\ ret'.mRetentionBuffer[k] = ret.mRetentionBuffer[k]
           \/ ret'.mRetentionBuffer[k].mData = p
      /\ \/ ret' = ret
         \/ ret'.mRetentionBufferBytes <= RetentionMaxBytes
         \/ /\ key \in DOMAIN ret.mRetentionBuffer
            /\ ret'.mRetentionBufferBytes <= RetentionMaxBytes + Mtu
  <2> HIDE DEF p
  <2>1. p.frame <= Len(sent)
    BY <1>2, <1>4
  <2> QED BY <1>1, <1>4, <2>1, RetainAccounted DEF IInv, PInv
<1>6. \/ task' = Idle
      \/ /\ Tail(todo) # <<>>
         /\ task'.op = "send" /\ task'.todo = Tail(todo)
  <2>1. TaskTyped
    BY DEF IInv
  <2>2. PICK frames, room : task' = Advanced(Tail(todo), frames, room)
    BY <1>1
  <2> DEFINE rest == Tail(todo)
  <2> HIDE DEF rest
  <2>3. LET t == Advanced(rest, frames, room)
        IN  \/ t = Idle
            \/ /\ rest # <<>> /\ t.op = "send"
               /\ t.todo = rest /\ t.bundle = frames /\ t.room = room
    BY <1>1, <2>1, AdvancedFields
  <2> QED BY <2>2, <2>3 DEF rest
<1>7. TodoOK'
  <2>1. CASE task' = Idle
    BY <2>1 DEF TodoOK, Idle
  <2>2. CASE /\ Tail(todo) # <<>>
             /\ task'.op = "send" /\ task'.todo = Tail(todo)
    <3> DEFINE rest == Tail(todo)
    <3>1. ASSUME NEW i \in 1..Len(rest)
          PROVE  /\ FragmentOK(rest[i]) /\ rest[i].frame = Len(sent)
                 /\ FragmentNo(rest[i]) = FragmentNo(p) + i
      <4>1. i \in Nat /\ i + 1 \in 1..Len(todo) /\ rest[i] = todo[i + 1]
        BY <1>3
      <4>2. /\ FragmentOK(todo[i + 1]) /\ todo[i + 1].frame = Len(sent)
            /\ FragmentNo(todo[i + 1]) = FragmentNo(todo[1]) + (i + 1) - 1
        BY <1>2, <4>1
      <4> QED BY <1>3, <1>4, <4>1, <4>2
    <3>2. FragmentNo(rest[1]) = FragmentNo(p) + 1
      BY <1>3, <2>2, <3>1
    <3>6. FragmentNo(p) \in Nat /\ FragmentNo(rest[1]) \in Nat
      <4> HIDE DEF rest, p
      <4> QED BY <1>4, <3>2
    <3>3. \A i \in 1..Len(rest) :
            FragmentNo(rest[i]) = FragmentNo(rest[1]) + i - 1
      <4> HIDE DEF rest, p
      <4> SUFFICES ASSUME NEW i \in 1..Len(rest)
                   PROVE  FragmentNo(rest[i]) = FragmentNo(rest[1]) + i - 1
        OBVIOUS
      <4>1. i \in Nat
        BY <1>3 DEF rest
      <4>2. FragmentNo(rest[i]) = FragmentNo(p) + i
        BY <3>1
      <4> QED BY <3>2, <3>6, <4>1, <4>2
    <3>4. ASSUME NEW k \in DOMAIN ret'.mRetentionBuffer,
                 ret'.mRetentionBuffer[k].mData.frame = Len(sent)
          PROVE  FragmentNo(ret'.mRetentionBuffer[k].mData)
                   < FragmentNo(rest[1])
      <4>1. CASE ret'.mRetentionBuffer[k].mData = p
        <5> HIDE DEF rest, p
        <5>1. FragmentNo(ret'.mRetentionBuffer[k].mData) = FragmentNo(p)
          BY <4>1
        <5> QED BY <3>2, <3>6, <5>1
      <4>2. CASE /\ k \in DOMAIN ret.mRetentionBuffer
                 /\ ret'.mRetentionBuffer[k] = ret.mRetentionBuffer[k]
        <5>1. FragmentNo(ret.mRetentionBuffer[k].mData) < FragmentNo(p)
          BY <1>2, <1>3, <3>4, <4>2 DEF Keys
        <5>2. FragmentNo(ret.mRetentionBuffer[k].mData) \in Nat
          BY <4>2 DEF PInv, EntriesOK, FragmentOK
        <5>3. FragmentNo(ret'.mRetentionBuffer[k].mData)
                = FragmentNo(ret.mRetentionBuffer[k].mData)
          BY <4>2
        <5> HIDE DEF rest, p
        <5> QED BY <3>2, <3>6, <5>1, <5>2, <5>3
      <4> QED BY <1>5, <4>1, <4>2
    <3> HIDE DEF rest
    <3>5. IsSeq(rest) /\ rest # <<>> /\ task'.todo = rest
      BY <1>3, <2>2 DEF rest
    <3> QED BY <1>1, <3>1, <3>3, <3>4, <3>5 DEF TodoOK, Keys
  <2> QED BY <1>6, <2>1, <2>2
<1>8. RetentionWithinLimit'
  <2>1. ret'.mRetentionBufferBytes \in Nat
    <3> DEFINE K == DOMAIN ret'.mRetentionBuffer
               held == [k \in K |-> EntrySize(ret', k)]
    <3>1. \A k \in K : EntrySize(ret', k) \in 1..Mtu
      BY <1>5, EntrySizes
    <3>2. \A k \in K : held[k] \in Nat
      BY <3>1, SizeFacts
    <3>3. IsFiniteSet(K)
      BY <1>5 DEF Accounted
    <3>4. ret'.mRetentionBufferBytes = SumFunctionOnSet(held, K)
      BY <1>5 DEF Accounted, RetainedBytes, SumFunction
    <3> HIDE DEF held, K
    <3> QED BY <3>2, <3>3, <3>4, SumNat
  <2>2. RetentionMaxBytes \in Nat /\ Mtu \in Nat
    BY SenderAssumption
  <2>3. CASE ret' = ret
    BY <1>1, <2>3 DEF PInv, RetentionWithinLimit
  <2>4. CASE ret'.mRetentionBufferBytes <= RetentionMaxBytes
    BY <2>1, <2>2, <2>4 DEF RetentionWithinLimit
  <2>5. CASE /\ key \in DOMAIN ret.mRetentionBuffer
             /\ ret'.mRetentionBufferBytes <= RetentionMaxBytes + Mtu
    <3>1. Len(sent) > SeqSpace
      BY <1>1, <2>5, ReplacedOnlyAfterWrap DEF Keys
    <3> QED BY <1>1, <2>5, <3>1 DEF RetentionWithinLimit
  <2> QED BY <1>5, <2>3, <2>4, <2>5
<1>9. EntriesOK(ret, Len(sent))' /\ Accounted(ret)'
  BY <1>1, <1>5
<1> QED BY <1>1, <1>7, <1>8, <1>9 DEF PInv

LEMMA OtherPInv ==
    ASSUME IInv, PInv,
           \/ StartBundle \/ NackFragment \/ RetransmitStep \/ Tick
           \/ \E n \in Nacks : ReceiveNack(n)
           \/ \E c \in MaxCounts : ProcessRetransmits(c)
    PROVE  PInv'
<1>1. RetTyped(ret)
  BY DEF IInv, RetInv
<1>2. sent' = sent /\ mSuperFrameNo' = mSuperFrameNo
  BY DEF StartBundle, NackFragment, RetransmitStep, Tick, ReceiveNack,
         ProcessRetransmits
<1>3. \/ ret' = ret \/ ret' = PopRetransmit(ret)
      \/ ret' = QueueRetransmit(ret, Head(task.todo))
  BY DEF StartBundle, NackFragment, RetransmitStep, Tick, ReceiveNack,
         ProcessRetransmits
<1>4. /\ ret'.mRetentionBuffer = ret.mRetentionBuffer
      /\ ret'.mRetentionBufferBytes = ret.mRetentionBufferBytes
  BY <1>1, <1>3, QueueKeepsBytes
<1>5. task'.op = "send" => task.op = "send" /\ task'.todo = task.todo
  <2>1. CASE StartBundle
    <3>1. Sending /\ \E frames, room :
                       task' = Advanced(task.todo, frames, room)
      BY <2>1 DEF StartBundle, Bundled
    <3> QED BY <3>1, AdvancedFields DEF IInv, Idle, Sending
  <2>2. CASE NackFragment
    <3>1. task = [op |-> "nack", todo |-> task.todo]
      BY <2>2 DEF NackFragment, IInv, TaskTyped, Idle
    <3>2. \/ task' = Idle
          \/ task' = [op |-> "nack", todo |-> Tail(task.todo)]
      BY <2>2, <3>1 DEF NackFragment
    <3> QED BY <3>2 DEF Idle
  <2>3. CASE RetransmitStep
    <3>1. PICK l : task = [op |-> "retransmit", left |-> l]
      BY <2>3 DEF RetransmitStep, IInv, TaskTyped, Idle
    <3>2. task' = Idle \/ \E left : task' = [task EXCEPT !.left = left]
      BY <2>3 DEF RetransmitStep
    <3> QED BY <3>1, <3>2 DEF Idle
  <2>4. CASE Tick
    BY <2>4 DEF Tick
  <2>5. CASE \E n \in Nacks : ReceiveNack(n)
    BY <2>5 DEF ReceiveNack
  <2>6. CASE \E c \in MaxCounts : ProcessRetransmits(c)
    BY <2>6 DEF ProcessRetransmits
  <2> QED BY <2>1, <2>2, <2>3, <2>4, <2>5, <2>6
<1> QED BY <1>2, <1>4, <1>5, KeepPInv

LEMMA NextPInv == IInv /\ PInv /\ [Next]_vars => PInv'
<1> SUFFICES ASSUME IInv, PInv, [Next]_vars
             PROVE  PInv'
  OBVIOUS
<1>1. CASE \E m \in Frames : Send(m)
  BY <1>1, SendPInv
<1>2. CASE SendFragment \/ BundleFragment
  BY <1>2, FragmentPInv
<1>3. CASE \/ StartBundle \/ NackFragment \/ RetransmitStep \/ Tick
           \/ \E n \in Nacks : ReceiveNack(n)
           \/ \E c \in MaxCounts : ProcessRetransmits(c)
  BY <1>3, OtherPInv
<1>4. CASE UNCHANGED vars
  BY <1>4, KeepPInv DEF vars
<1> QED BY <1>1, <1>2, <1>3, <1>4 DEF Next, Internal

------------------------------------------------------------------------------
(***************************************************************************)
(* Bundles.                                                                *)
(***************************************************************************)
\* Frames that a bundle can hold.
OfType1Size(frames) ==
    \A i \in 1..Len(frames) :
      /\ frames[i].mFrameType = 1
      /\ PacketSize(frames[i]) = Type1FrameSize(Mtu, Mode)

\* The bundle a sending operation has begun, with room for what it still takes.
BundleOK ==
    task.op = "send" =>
      /\ IsSeq(task.bundle) /\ task.room \in Nat
      /\ Len(task.bundle) + task.room <= Mode
      /\ OfType1Size(task.bundle)

\* A packet that leaves.
PacketOK(p) ==
    p.mFrameType = 4 =>
      /\ Mode # SINGLE /\ Type1FrameSize(Mtu, Mode) > 0
      /\ Len(p.frames) \in 1..Mode
      /\ OfType1Size(p.frames)

OutOK == \A i \in 1..Len(out) : PacketOK(out[i])

BInv == BundleOK /\ OutOK

\* No SuperFrame of the application ends in a Type2 packet of exactly the size
\* of a Type1 frame.
NoLikeSizes ==
    \A m \in Frames :
      SendVerdict(m.size, Mtu, Mode) = "OK" =>
        FrameType2Size + SendPlan(m.size, Mtu, Mode).type2
          # Type1FrameSize(Mtu, Mode)

LEMMA FragmentPacketOK ==
    ASSUME NEW p, FragmentOK(p)
    PROVE  PacketOK(p)
  BY DEF FragmentOK, PacketOK

LEMMA OneOut ==
    ASSUME NEW p, PacketOK(p), out' = <<p>>
    PROVE  OutOK'
<1>1. Len(<<p>>) = 1 /\ <<p>>[1] = p
  OBVIOUS
<1> QED BY <1>1 DEF OutOK

LEMMA NoOut ==
    ASSUME out' = <<>>
    PROVE  OutOK'
<1>1. Len(out') = 0
  BY EmptyIsSeq
<1> QED BY <1>1 DEF OutOK

\* The entry of a request that lives is a fragment.
LEMMA RetransmitOK ==
    ASSUME PInv, RetransmitLives(ret)
    PROVE  FragmentOK(Retransmit(ret))
  BY DEF PInv, EntriesOK, RetransmitLives, Retransmit, Live

LEMMA FragsInBundleFacts ==
    ASSUME PInv, Sending
    PROVE  FragsInBundle \in Nat /\ FragsInBundle <= Mode
<1> DEFINE T == {i \in 1..Len(task.todo) : task.todo[i].mFrameType = 1}
<1>1. Len(task.todo) \in Nat
  BY LenIsNat DEF PInv, TodoOK, Sending
<1>2. IsFiniteSet(1..Len(task.todo)) /\ T \in SUBSET (1..Len(task.todo))
  BY <1>1, FS_Interval
<1>3. Cardinality(T) \in Nat
  BY <1>2, FS_Subset, FS_CardinalityType
<1>4. FragsInBundle = IF Mode < Cardinality(T) THEN Mode ELSE Cardinality(T)
  BY DEF FragsInBundle
<1> HIDE DEF T
<1> QED BY <1>3, <1>4, SizeFacts

\* The only frames that pass for a Type1 in a bundle are Type1 frames.
LEMMA FitsIsType1 ==
    ASSUME NoLikeSizes, NEW p, FragmentOK(p), FitsBundle(p)
    PROVE  p.mFrameType = 1
<1>1. CASE p.mFrameType = 2
  BY <1>1 DEF FragmentOK, FitsBundle, NoLikeSizes
<1>2. CASE p.mFrameType = 3
  BY <1>2, SizeFacts DEF FragmentOK, FitsBundle
<1> QED BY <1>1, <1>2 DEF FragmentOK

\* What the sending operation has begun after a round.
LEMMA BundleStep ==
    ASSUME TaskTyped, Sending, NEW todo, NEW frames, NEW room,
           task' = Advanced(todo, frames, room),
           IsSeq(frames), room \in Nat, Len(frames) + room <= Mode,
           OfType1Size(frames)
    PROVE  BundleOK'
<1>1. LET t == Advanced(todo, frames, room)
      IN  \/ t = Idle
          \/ /\ todo # <<>> /\ t.op = "send"
             /\ t.todo = todo /\ t.bundle = frames /\ t.room = room
  BY AdvancedFields
<1>2. CASE task' = Idle
  BY <1>2 DEF BundleOK, Idle
<1>3. CASE task'.bundle = frames /\ task'.room = room
  BY <1>3 DEF BundleOK, OfType1Size
<1> QED BY <1>1, <1>2, <1>3

LEMMA NothingBundled ==
    IsSeq(<<>>) /\ Len(<<>>) = 0 /\ OfType1Size(<<>>)
<1>1. IsSeq(<<>>) /\ Len(<<>>) = 0
  BY EmptyIsSeq
<1> QED BY <1>1 DEF OfType1Size

LEMMA OneBundled ==
    ASSUME NEW p
    PROVE  IsSeq(<<p>>) /\ Len(<<p>>) = 1 /\ <<p>>[1] = p
<1>1. <<p>> \in Seq({p}) /\ Len(<<p>>) = 1 /\ <<p>>[1] = p
  OBVIOUS
<1> QED BY <1>1, SeqIsSeq

LEMMA SendFragmentBInv ==
    ASSUME IInv, PInv, BInv, SendFragment
    PROVE  BInv'
<1> DEFINE p == Head(task.todo)
<1>1. /\ Sending /\ out' = <<p>> /\ task' = Advanced(Tail(task.todo), <<>>, 0)
  BY DEF SendFragment
<1>2. FragmentOK(p)
  <2>1. IsSeq(task.todo) /\ task.todo # <<>>
    BY <1>1 DEF PInv, TodoOK, Sending
  <2>2. p = task.todo[1] /\ 1 \in 1..Len(task.todo)
    BY <2>1, RestOfTodo
  <2> QED BY <1>1, <2>2 DEF PInv, TodoOK, Sending
<1>3. OutOK'
  BY <1>1, <1>2, FragmentPacketOK, OneOut
<1>4. BundleOK'
  BY <1>1, NothingBundled, BundleStep, SizeFacts DEF IInv
<1> QED BY <1>3, <1>4 DEF BInv

LEMMA StartBundleBInv ==
    ASSUME NoLikeSizes, IInv, PInv, BInv, StartBundle
    PROVE  BInv'
<1> DEFINE n == FragsInBundle
           asked == ret.mRetransmitQueue # <<>> /\ n > 1
           again == asked /\ RetransmitLives(ret)
           inside == again /\ FitsBundle(Retransmit(ret))
           p == Retransmit(ret)
<1>1. /\ Sending /\ TaskTyped
      /\ out' = IF again /\ ~inside THEN <<p>> ELSE <<>>
      /\ task' = IF inside THEN Advanced(task.todo, <<p>>, n - 1)
                 ELSE Advanced(task.todo, <<>>, n)
  BY DEF StartBundle, Bundled, IInv
<1>2. n \in Nat /\ n <= Mode /\ Mode \in Nat
  BY <1>1, FragsInBundleFacts, SizeFacts
<1>3. again => FragmentOK(p) /\ n > 1
  BY RetransmitOK
<1> HIDE DEF n, p
<1>4. OutOK'
  <2>1. CASE again /\ ~inside
    BY <1>1, <1>3, <2>1, FragmentPacketOK, OneOut
  <2>2. CASE ~(again /\ ~inside)
    <3>1. out' = <<>>
      BY <1>1, <2>2
    <3> QED BY <3>1, NoOut
  <2> QED BY <2>1, <2>2
<1>5. BundleOK'
  <2>1. CASE inside
    <3>1. FragmentOK(p) /\ n > 1 /\ FitsBundle(p)
      BY <1>3, <2>1 DEF p
    <3>2. p.mFrameType = 1 /\ PacketSize(p) = Type1FrameSize(Mtu, Mode)
      BY <3>1, FitsIsType1 DEF FitsBundle
    <3>3. IsSeq(<<p>>) /\ Len(<<p>>) = 1 /\ <<p>>[1] = p
      BY OneBundled
    <3> DEFINE frames == <<p>>
    <3> HIDE DEF frames
    <3>4. OfType1Size(frames)
      BY <3>2, <3>3 DEF OfType1Size, frames
    <3>5. /\ n - 1 \in Nat /\ IsSeq(frames)
          /\ Len(frames) + (n - 1) <= Mode
      BY <1>2, <3>1, <3>3 DEF frames
    <3>6. task' = Advanced(task.todo, frames, n - 1)
      BY <1>1, <2>1 DEF frames
    <3> QED BY <1>1, <3>4, <3>5, <3>6, BundleStep
  <2>2. CASE ~inside
    <3>1. task' = Advanced(task.todo, <<>>, n)
      BY <1>1, <2>2
    <3> QED BY <1>1, <1>2, <3>1, NothingBundled, BundleStep
  <2> QED BY <2>1, <2>2
<1> QED BY <1>4, <1>5 DEF BInv

LEMMA BundleFragmentBInv ==
    ASSUME IInv, PInv, BInv, BundleFragment
    PROVE  BInv'
<1> DEFINE p == Head(task.todo)
           frames == Append(task.bundle, p)
           b == BundlePacket(task.frame, frames)
<1>1. /\ Sending /\ TaskTyped /\ Mode # SINGLE /\ task.room > 0
      /\ p.mFrameType = 1
      /\ \/ /\ out' = <<b>>
            /\ task' = Advanced(Tail(task.todo), <<>>, 0)
         \/ /\ out' = <<>>
            /\ task' = Advanced(Tail(task.todo), frames, task.room - 1)
  BY DEF BundleFragment, Bundled, IInv
<1>2. FragmentOK(p)
  <2>1. IsSeq(task.todo) /\ task.todo # <<>>
    BY <1>1 DEF PInv, TodoOK, Sending
  <2>2. p = task.todo[1] /\ 1 \in 1..Len(task.todo)
    BY <2>1, RestOfTodo
  <2> QED BY <1>1, <2>2 DEF PInv, TodoOK, Sending
<1>3. /\ IsSeq(task.bundle) /\ task.room \in Nat
      /\ Len(task.bundle) + task.room <= Mode
      /\ OfType1Size(task.bundle) /\ Len(task.bundle) \in Nat
  BY <1>1, LenIsNat DEF BInv, BundleOK, Sending
<1>4. PacketSize(p) = Type1FrameSize(Mtu, Mode)
  BY <1>1, <1>2 DEF FragmentOK
<1>5. /\ IsSeq(frames) /\ Len(frames) = Len(task.bundle) + 1
      /\ \A i \in 1..Len(task.bundle) : frames[i] = task.bundle[i]
      /\ frames[Len(task.bundle) + 1] = p
  <2> HIDE DEF p
  <2> QED BY <1>3, AppendFacts
<1> HIDE DEF p, frames
<1>6. OfType1Size(frames)
  <2> SUFFICES ASSUME NEW i \in 1..Len(frames)
               PROVE  /\ frames[i].mFrameType = 1
                      /\ PacketSize(frames[i]) = Type1FrameSize(Mtu, Mode)
    BY DEF OfType1Size
  <2>1. CASE i \in 1..Len(task.bundle)
    BY ONLY <1>3, <1>5, <2>1 DEF OfType1Size
  <2>2. CASE i = Len(task.bundle) + 1
    BY ONLY <1>1, <1>4, <1>5, <2>2
  <2> QED BY <1>3, <1>5, <2>1, <2>2
<1>7. Len(frames) \in 1..Mode /\ task.room - 1 \in Nat
      /\ Len(frames) + (task.room - 1) <= Mode
  <2>1. /\ task.room > 0 /\ task.room \in Nat /\ Len(task.bundle) \in Nat
        /\ Len(frames) = Len(task.bundle) + 1
        /\ Len(task.bundle) + task.room <= Mode
    BY ONLY <1>1, <1>3, <1>5
  <2>2. Mode \in Nat
    BY SizeFacts
  <2> QED BY ONLY <2>1, <2>2
<1>8. PacketOK(b)
  <2>1. Type1FrameSize(Mtu, Mode) > 0
    BY <1>2, <1>4, SizeFacts DEF FragmentOK
  <2> QED BY <1>1, <1>6, <1>7, <2>1 DEF PacketOK, BundlePacket
<1>9. CASE /\ out' = <<b>>
           /\ task' = Advanced(Tail(task.todo), <<>>, 0)
  <2>1. OutOK'
    BY <1>8, <1>9, OneOut
  <2>2. BundleOK'
    BY <1>1, <1>9, NothingBundled, BundleStep, SizeFacts
  <2> QED BY <2>1, <2>2 DEF BInv
<1>10. CASE /\ out' = <<>>
            /\ task' = Advanced(Tail(task.todo), frames, task.room - 1)
  <2>1. OutOK'
    BY <1>10, NoOut
  <2>2. BundleOK'
    <3> DEFINE room == task.room - 1
    <3> HIDE DEF room
    <3>1. room \in Nat /\ Len(frames) + room <= Mode
      BY <1>7 DEF room
    <3>2. task' = Advanced(Tail(task.todo), frames, room)
      BY <1>10 DEF room
    <3> QED BY <1>1, <1>5, <1>6, <3>1, <3>2, BundleStep
  <2> QED BY <2>1, <2>2 DEF BInv
<1> QED BY <1>1, <1>9, <1>10

LEMMA NextBInv ==
    ASSUME NoLikeSizes, IInv, PInv, BInv, [Next]_vars
    PROVE  BInv'
<1>1. CASE \E m \in Frames : Send(m)
  <2>1. /\ out' = <<>>
        /\ \/ task' = task
           \/ task'.bundle = <<>> /\ task'.room = 0
    BY <1>1 DEF Send
  <2>2. OutOK'
    BY <2>1, NoOut
  <2>3. BundleOK'
    <3>1. CASE task' = task
      BY <3>1 DEF BInv, BundleOK, OfType1Size
    <3>2. CASE task'.bundle = <<>> /\ task'.room = 0
      BY <3>2, NothingBundled, SizeFacts DEF BundleOK, OfType1Size
    <3> QED BY <2>1, <3>1, <3>2
  <2> QED BY <2>2, <2>3 DEF BInv
<1>2. CASE \/ \E n \in Nacks : ReceiveNack(n)
           \/ \E c \in MaxCounts : ProcessRetransmits(c)
  <2>1. out' = <<>> /\ task'.op # "send"
    BY <1>2 DEF ReceiveNack, ProcessRetransmits
  <2> QED BY <2>1, NoOut DEF BInv, BundleOK
<1>3. CASE NackFragment
  <2>1. task = [op |-> "nack", todo |-> task.todo] /\ out' = <<>>
    BY <1>3 DEF NackFragment, IInv, TaskTyped, Idle
  <2>2. task' = Idle \/ task' = [op |-> "nack", todo |-> Tail(task.todo)]
    BY <1>3, <2>1 DEF NackFragment
  <2> QED BY <2>1, <2>2, NoOut DEF BInv, BundleOK, Idle
<1>4. CASE RetransmitStep
  <2>1. PICK l : task = [op |-> "retransmit", left |-> l]
    BY <1>4 DEF RetransmitStep, IInv, TaskTyped, Idle
  <2>2. task' = Idle \/ \E left : task' = [task EXCEPT !.left = left]
    BY <1>4 DEF RetransmitStep
  <2>3. BundleOK'
    BY <2>1, <2>2 DEF BundleOK, Idle
  <2>4. CASE RetransmitLives(ret)
    <3>1. out' = <<Retransmit(ret)>>
      BY <1>4, <2>4 DEF RetransmitStep
    <3> QED BY <2>3, <2>4, <3>1, RetransmitOK, FragmentPacketOK, OneOut DEF BInv
  <2>5. CASE ~RetransmitLives(ret)
    <3>1. out' = <<>>
      BY <1>4, <2>5 DEF RetransmitStep
    <3> QED BY <2>3, <3>1, NoOut DEF BInv
  <2> QED BY <2>4, <2>5
<1>5. CASE Tick
  <2>1. task' = task /\ out' = <<>>
    BY <1>5 DEF Tick
  <2> QED BY <2>1, NoOut DEF BInv, BundleOK, OfType1Size
<1>6. CASE UNCHANGED vars
  BY <1>6 DEF vars, BInv, BundleOK, OutOK, PacketOK, OfType1Size
<1>7. CASE SendFragment
  BY <1>7, SendFragmentBInv
<1>8. CASE StartBundle
  BY <1>8, StartBundleBInv
<1>9. CASE BundleFragment
  BY <1>9, BundleFragmentBInv
<1> QED
  BY <1>1, <1>2, <1>3, <1>4, <1>5, <1>6, <1>7, <1>8, <1>9 DEF Next, Internal

LEMMA InitBInv == Init => BInv
<1> SUFFICES ASSUME Init
             PROVE  BInv
  OBVIOUS
<1>1. task = Idle /\ out = <<>>
  BY DEF Init, InitAt
<1>2. Len(out) = 0
  BY <1>1, EmptyIsSeq
<1> QED BY <1>1, <1>2 DEF BInv, BundleOK, OutOK, Idle

\* Frames of Type1 size, no more than the mode allows, fit the MTU.
LEMMA BundleFitsMtu ==
    ASSUME Mode # SINGLE, Type1FrameSize(Mtu, Mode) > 0, NEW n \in 1..Mode
    PROVE  FrameType4Size + (n * Type1FrameSize(Mtu, Mode)) <= Mtu
<1> DEFINE T == Type1FrameSize(Mtu, Mode)
<1>1. /\ Mode \in {2, 4, 8} /\ FrameType4Size \in Nat \ {0}
      /\ Mtu \in Nat /\ Mtu >= MinMtu /\ n \in Nat
  BY SizeFacts, SenderAssumption, WireAssumption DEF SubFragmentMode, SINGLE
<1>2. T = (Mtu - FrameType4Size) \div Mode
  BY DEF Type1FrameSize
<1>3. T \in Nat
  BY SizeFacts
<1> HIDE DEF T
<1>4. Mode * T <= Mtu - FrameType4Size
  <2>1. Mode = 2 \/ Mode = 4 \/ Mode = 8
    BY <1>1
  <2> QED BY <1>1, <1>2, <2>1, Z3
<1>5. n * T <= Mode * T
  <2>1. n = 1 \/ n = 2 \/ n = 3 \/ n = 4 \/ n = 5 \/ n = 6 \/ n = 7 \/ n = 8
    BY <1>1
  <2>2. Mode = 2 \/ Mode = 4 \/ Mode = 8
    BY <1>1
  <2>3. n <= Mode
    BY <1>1
  <2> QED BY <1>3, <2>1, <2>2, <2>3
<1>6. n * T \in Nat /\ Mode * T \in Nat
  BY <1>1, <1>3
<1> QED BY <1>1, <1>4, <1>5, <1>6 DEF T

------------------------------------------------------------------------------
(***************************************************************************)
(* Theorems.                                                               *)
(***************************************************************************)

\* Retained packets are fragments of accepted SuperFrames under their own keys,
\* what is left to send comes after what is retained of the same SuperFrame,
\* and the counter of bytes is exact and bounded (send, retainFragment,
\* evictOldRetention).
THEOREM RetentionInvariance == Spec => []PInv
<1>1. Init => PInv
  BY InitPInv
<1>2. IInv /\ PInv /\ [Next]_vars => PInv'
  BY NextPInv
<1> QED BY <1>1, <1>2, Invariance, PTL DEF Spec

\* What processRetransmits and sendFragmentedBundled send again is the fragment
\* that was asked for, also after its key was taken over by a later frame.
THEOREM AnswersAreFaithful == Spec => RetransmitsWhatWasAsked
<1>1. PInv => Filed(ret)
  BY DEF PInv, EntriesOK, Filed
<1>2. IInv /\ Filed(ret) /\ [Next]_vars => [AnswersHead]_vars
  BY NextIInv
<1> QED
  BY <1>1, <1>2, Invariance, RetentionInvariance, PTL
  DEF Spec, RetransmitsWhatWasAsked

\* mRetentionBufferBytes is the sum of the sizes of the retained packets,
\* through eviction by age and by limit, replacement after a wrap and refusal
\* (evictOldRetention, retainFragment).
THEOREM BytesAreExact == Spec => []BytesAccounted
<1>1. PInv => BytesAccounted
  BY DEF PInv, Accounted, RetainedBytes, BytesAccounted, Keys
<1> QED BY <1>1, RetentionInvariance, PTL

\* The retained bytes stay within mRetentionMaxBytes until the sequence wraps,
\* and exceed it by at most one packet afterwards (retainFragment).
THEOREM LimitIsKept == Spec => []RetentionWithinLimit
<1>1. PInv => RetentionWithinLimit
  BY DEF PInv
<1> QED BY <1>1, RetentionInvariance, PTL

\* Unless a SuperFrame ends in a Type2 packet of exactly the size of a Type1
\* frame, every bundle is made of Type1 frames of one size, no more than the
\* mode allows and within the MTU, retransmits included (sendFragmentedBundled).
THEOREM BundlesAreParsed ==
    ASSUME NoLikeSizes
    PROVE  Spec => []BundlesParse
<1>1. Init => BInv
  BY InitBInv
<1>2. IInv /\ PInv /\ BInv /\ [Next]_vars => BInv'
  BY NextBInv
<1>3. BInv => BundlesParse
  <2> SUFFICES ASSUME BInv, NEW i \in 1..Len(out), out[i].mFrameType = 4
               PROVE  LET frames == out[i].frames
                      IN  /\ Len(frames) \in 1..Mode
                          /\ \A j \in 1..Len(frames) :
                               /\ frames[j].mFrameType = 1
                               /\ PacketSize(frames[j]) = PacketSize(frames[1])
                          /\ FrameType4Size
                               + (Len(frames) * PacketSize(frames[1])) <= Mtu
    BY DEF BundlesParse
  <2> DEFINE frames == out[i].frames
  <2>1. /\ Mode # SINGLE /\ Type1FrameSize(Mtu, Mode) > 0
        /\ Len(frames) \in 1..Mode /\ OfType1Size(frames)
    BY DEF BInv, OutOK, PacketOK
  <2> HIDE DEF frames
  <2>2. 1 \in 1..Len(frames)
    BY <2>1, SizeFacts
  <2>3. \A j \in 1..Len(frames) :
          /\ frames[j].mFrameType = 1
          /\ PacketSize(frames[j]) = Type1FrameSize(Mtu, Mode)
    BY <2>1 DEF OfType1Size
  <2>4. FrameType4Size + (Len(frames) * Type1FrameSize(Mtu, Mode)) <= Mtu
    BY <2>1, BundleFitsMtu
  <2> QED BY <2>1, <2>2, <2>3, <2>4 DEF frames
<1> QED BY <1>1, <1>2, <1>3, Invariance, RetentionInvariance, PTL DEF Spec
==============================================================================
