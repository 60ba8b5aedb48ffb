------------------------------ MODULE LinkProofs ------------------------------
(***************************************************************************)
(* Proofs about the composed link, for every MTU and mode, every set of    *)
(* SuperFrames, every ring size, sequence space, packet life and timing.   *)
(*                                                                         *)
(* The argument: every fragment is a cut of a SuperFrame that was sent, at *)
(* a place that its number, with origin, leads back to.  The receiver      *)
(* unwraps the number to that place, so a bucket collects cuts of one      *)
(* SuperFrame only, each where it belongs, and is not used for it twice.   *)
(***************************************************************************)
EXTENDS EfpLink, ReceiverProofs

------------------------------------------------------------------------------
(***************************************************************************)
(* What send cuts.                                                         *)
(***************************************************************************)

\* How the sender cuts a SuperFrame, and whether send takes it.
Plan(m) == S!SendPlan(m.size, Mtu, Mode)
Accepted(m) == m.size > 0 /\ S!SendVerdict(m.size, Mtu, Mode) = "OK"

\* The packets of the f-th SuperFrame, m, under the number n.
Cuts(f, m, n) ==
    {S!Type1Packet(f, m, n, Plan(m), i) : i \in 0..(Plan(m).type1 - 1)}
      \cup {p \in {S!Type3Packet(f, m, n, Plan(m))} : Plan(m).type3 > 0}
      \cup {S!Type2Packet(f, m, n, Plan(m))}

\* The fragments of everything sent.
Genuine == UNION {Cuts(f, sent[f], NumberOf(f)) : f \in 1..Len(sent)}

\* What the network may carry: genuine fragments, alone or in bundles.
OnWire(p) == p \in Genuine \/ (p.mFrameType = 4 /\ p.frames \in Seq(Genuine))

------------------------------------------------------------------------------
(***************************************************************************)
(* The parts of the invariant.  The sender's side first: whatever it       *)
(* retains, is about to send or has sent is genuine.                       *)
(***************************************************************************)
SentOK ==
    /\ IsSeq(sent)
    /\ mSuperFrameNo \in 0..(SeqSpace - 1)
    /\ \A f \in 1..Len(sent) : sent[f] \in Frames /\ Accepted(sent[f])

RetentionOK(r) ==
    /\ r = [mRetentionBuffer |-> r.mRetentionBuffer,
            mRetentionOrder |-> r.mRetentionOrder,
            mRetransmitQueue |-> r.mRetransmitQueue,
            mQueuedRetransmits |-> r.mQueuedRetransmits,
            mRetentionBufferBytes |-> r.mRetentionBufferBytes,
            mRetentionGeneration |-> r.mRetentionGeneration]
    /\ \A k \in DOMAIN r.mRetentionBuffer :
         r.mRetentionBuffer[k].mData \in Genuine

TaskOK(t) ==
    \/ t = S!Idle
    \/ /\ t.op = "send"
       /\ t = [op |-> "send", frame |-> t.frame, todo |-> t.todo,
               bundle |-> t.bundle, room |-> t.room]
       /\ t.todo \in Seq(Genuine) /\ t.todo # <<>>
       /\ t.bundle \in Seq(Genuine)
    \/ t.op = "nack" /\ t = [op |-> "nack", todo |-> t.todo]
    \/ t.op = "retransmit" /\ t = [op |-> "retransmit", left |-> t.left]

SenderOK == SentOK /\ RetentionOK(ret) /\ TaskOK(task)

\* A packet on the wire carries nothing older than its life.
WireOK ==
    \A p \in wire : OnWire(p) /\ \A f \in Carries(p) : f > Len(sent) - Window

\* Once the first fragment is numbered, origin is the place whose number on the
\* wire is 0, and stays so across every wrap.
Numbered ==
    /\ origin \in Int
    /\ ~rx.mFirstFrame =>
         (mSuperFrameNo - Len(sent) - 1 + origin) % SeqSpace = 0

\* n bytes of the f-th SuperFrame, from the given one on, lie at offset at.
Filled(data, f, at, n, from) ==
    \A j \in 0..(n - 1) : at + j \in DOMAIN data /\ data[at + j] = <<f, from + j>>

\* A bucket has the fields and bytes of m, the f-th SuperFrame, wherever its
\* received fragments belong.  A Type2 that is there before the Type3 lies
\* behind full fragments (base); the Type3 moves it to its place.
Holds(b, f, m) ==
    LET plan == Plan(m)
        P    == S!Payload
        of   == plan.total - 1
        got  == b.mReceivedFragments
        t3   == plan.type3 > 0 /\ of - 1 \in got
        base == IF plan.type3 > 0 /\ ~t3 THEN P * of ELSE m.size - plan.type2
    IN  /\ b.mOfFragmentNo = of
        /\ b.mStreamId = m.mStreamId
        /\ of > 0 => b.mFragmentSize = P
        /\ \A k \in 0..(plan.type1 - 1) :
             k \in got => Filled(b.mpData, f, P * k, P, P * k)
        /\ IF t3 THEN /\ b.mType3Size = plan.type3
                      /\ Filled(b.mpData, f, P * plan.type1, plan.type3,
                                P * plan.type1)
           ELSE b.mType3Size = 0
        /\ of \in got =>
             /\ b.mType2Size = plan.type2
             /\ b.mPts = m.mPts /\ b.mDts = DtsSent(m)
             /\ b.mPayload = m.mPayload
             /\ Filled(b.mpData, f, base, plan.type2, m.size - plan.type2)
             /\ b.mSize = base + plan.type2

\* z is the origin.  A bucket that was used went to a SuperFrame that was sent,
\* and still holds its bytes if it is active.
BucketPlaced(b, s, z) ==
    b.mDeliveryOrder # NoOrder =>
      LET o == b.mDeliveryOrder
      IN  /\ o \in Int /\ o + z \in 1..Len(sent) /\ Slot(o) = s
          /\ b.mActive => /\ b.mSavedFrameNo = o % SeqSpace
                          /\ Holds(b, o + z, sent[o + z])

RingPlaced(r, z) ==
    /\ r.mFirstFrame => \A s \in 0..(Slots - 1) : r.mpBuckets[s] = Unused
    /\ ~r.mFirstFrame => r.mFrameNoRecalc + z \in 1..Len(sent)
    /\ \A s \in 0..(Slots - 1) : BucketPlaced(r.mpBuckets[s], s, z)

\* A frame handed over is whole unless marked as broken, and older than what
\* its bucket holds by now: it cannot come again.
EntryPlaced(x, r, z) ==
    LET o == x.mDeliveryOrder
        b == r.mpBuckets[Slot(o)]
    IN  /\ o \in Int /\ o + z \in 1..Len(sent)
        /\ x.mSuperFrameNo = o % SeqSpace
        /\ b.mDeliveryOrder # NoOrder /\ o <= b.mDeliveryOrder
        /\ b.mActive => o < b.mDeliveryOrder
        /\ ~x.mBroken => Received(x) = Content(o + z, sent[o + z])

LogPlaced(log, r, z) ==
    /\ \A i \in 1..Len(log) : EntryPlaced(log[i], r, z)
    /\ \A i, j \in 1..Len(log) :
         i # j => log[i].mDeliveryOrder # log[j].mDeliveryOrder

\* The places F are recent enough for the ring r, measured by the place hi that
\* was the last sent when they arrived.
Ahead(r, z, F, hi) ==
    /\ hi \in 1..Len(sent)
    /\ \A f \in F : f \in 1..hi /\ f > hi - Window
    /\ \A s \in 0..(Slots - 1) :
         LET b == r.mpBuckets[s]
         IN  /\ b.mDeliveryOrder # NoOrder => b.mDeliveryOrder + z <= hi
             /\ b.mActive => \A f \in F : f - b.mDeliveryOrder - z < SeqSpace
    /\ ~r.mFirstFrame =>
         /\ r.mFrameNoRecalc + z <= hi
         /\ \A f \in F : 2 * (f - r.mFrameNoRecalc - z) < SeqSpace

\* What is left of a bundle stays recent enough while its frames are handled.
BundleAhead ==
    \/ bundle = NoBundle
    \/ /\ bundle = [frames |-> bundle.frames, aSourceId |-> bundle.aSourceId]
       /\ bundle.frames \in Seq(Genuine) /\ bundle.frames # <<>>
       /\ \E hi \in 1..Len(sent) :
            Ahead(rx, origin, {bundle.frames[i].frame :
                                 i \in 1..Len(bundle.frames)}, hi)

LEMMA LinkFacts ==
    /\ SeqSpace \in Nat \ {0} /\ Slots \in Nat \ {0} /\ Window \in Nat \ {0}
    /\ Window <= Slots /\ 2 * Window <= SeqSpace
  BY LinkAssumption, SeqFacts

\* The sender's constants.
LEMMA SenderFacts ==
    /\ Mtu \in Nat /\ Mode \in {1, 2, 4, 8}
    /\ Mtu - FrameType2Size \in Nat \ {0}
    /\ FrameType1Size \in Nat /\ FrameType4Size \in Nat
    /\ \A m \in Frames : m.size \in Nat
  BY LinkAssumption, WireAssumption DEF S!SenderAssumption, S!SubFragmentMode

LEMMA PayloadIsInt == S!Payload \in Int
<1>1. CASE Mode = 1
  BY <1>1, SenderFacts
     DEF S!Payload, S!Type1PayloadSize, S!Type1FrameSize, S!SINGLE
<1>2. CASE Mode # 1
  <2>1. Mtu - FrameType4Size \in Int /\ Mode \in Nat \ {0}
    BY SenderFacts
  <2>2. (Mtu - FrameType4Size) \div Mode \in Int
    BY <2>1, IntDivMod
  <2> QED BY <1>2, <2>2, SenderFacts
          DEF S!Payload, S!Type1PayloadSize, S!Type1FrameSize, S!SINGLE
<1> QED BY <1>1, <1>2

\* The cut of an accepted SuperFrame: full Type1 fragments, perhaps a Type3,
\* and a Type2 that is never empty add up to its size.
LEMMA PlanFacts ==
    ASSUME NEW m \in Frames, Accepted(m)
    PROVE  LET plan == Plan(m)
           IN  /\ plan.type1 \in Nat /\ plan.type3 \in Nat
               /\ plan.type2 \in Nat \ {0}
               /\ plan.total
                    = plan.type1 + (IF plan.type3 > 0 THEN 1 ELSE 0) + 1
               /\ S!Payload \in Nat \ {0}
               /\ (S!Payload * plan.type1) + plan.type3 + plan.type2 = m.size
<1> DEFINE p == S!Payload
           cap == S!Type2PayloadSize(Mtu)
           size == m.size
           plan == Plan(m)
<1>1. size \in Nat \ {0} /\ cap \in Nat \ {0} /\ p \in Int
  BY SenderFacts, PayloadIsInt DEF Accepted, S!Type2PayloadSize
<1>2. p > 0
  BY <1>1 DEF Accepted, S!SendVerdict, S!Payload
<1>3. p \in Nat \ {0}
  BY <1>1, <1>2
<1>4. plan = IF size <= cap
               THEN [type1 |-> 0, type3 |-> 0, type2 |-> size, total |-> 1]
               ELSE S!SplitPlan(size, p, cap)
  BY DEF Plan, S!SendPlan, S!Payload
<1> DEFINE rem == size % p
           num == size \div p
<1>5. S!SplitPlan(size, p, cap)
        = IF rem = 0
            THEN IF p <= cap
                   THEN [type1 |-> num - 1, type3 |-> 0, type2 |-> p,
                         total |-> num]
                   ELSE [type1 |-> num - 1, type3 |-> p - cap, type2 |-> cap,
                         total |-> num + 1]
            ELSE IF rem <= cap
                   THEN [type1 |-> num, type3 |-> 0, type2 |-> rem,
                         total |-> num + 1]
                   ELSE [type1 |-> num, type3 |-> rem - cap, type2 |-> cap,
                         total |-> num + 2]
  BY DEF S!SplitPlan
<1> HIDE DEF p, cap, size, plan
<1>6. num \in Nat /\ rem \in Nat /\ size = (p * num) + rem
  BY <1>1, <1>3, DivMod
<1> HIDE DEF rem, num
<1>7. p * (num - 1) = (p * num) - p /\ p * num \in Nat /\ p * 0 = 0
  <2>1. num - 1 <= num /\ num - 1 \in Int /\ num \in Int /\ 0 \in Int /\ 0 <= num
        /\ (num - 1) + 1 = num /\ p \in Nat
    BY <1>3, <1>6
  <2>2. p * (num - 1) \in Int /\ p * num \in Int
        /\ p * ((num - 1) + 1) = (p * (num - 1)) + p
    BY <2>1, TimesMore
  <2>3. p * 0 \in Int /\ p * 0 <= p * num /\ p * 0 = 0
    BY <2>1, TimesMore
  <2> QED BY <2>1, <2>2, <2>3
<1>8. rem = 0 => num >= 1
  <2>1. SUFFICES ASSUME rem = 0, num = 0
                 PROVE  FALSE
    BY <1>6
  <2> QED BY <1>1, <1>6, <1>7, <2>1
<1>9. /\ plan.type1 \in Nat /\ plan.type3 \in Nat
      /\ plan.type2 \in Nat \ {0}
      /\ plan.total = plan.type1 + (IF plan.type3 > 0 THEN 1 ELSE 0) + 1
      /\ (p * plan.type1) + plan.type3 + plan.type2 = size
  <2>1. CASE size <= cap
    <3>1. plan = [type1 |-> 0, type3 |-> 0, type2 |-> size, total |-> 1]
      BY <1>4, <2>1
    <3> QED BY <1>1, <1>7, <3>1
  <2>2. CASE ~(size <= cap) /\ rem = 0 /\ p <= cap
    <3>1. plan = [type1 |-> num - 1, type3 |-> 0, type2 |-> p, total |-> num]
      BY <1>4, <1>5, <2>2
    <3> QED BY <1>3, <1>6, <1>7, <1>8, <2>2, <3>1
  <2>3. CASE ~(size <= cap) /\ rem = 0 /\ ~(p <= cap)
    <3>1. plan = [type1 |-> num - 1, type3 |-> p - cap, type2 |-> cap,
                  total |-> num + 1]
      BY <1>4, <1>5, <2>3
    <3> QED BY <1>1, <1>3, <1>6, <1>7, <1>8, <2>3, <3>1
  <2>4. CASE ~(size <= cap) /\ rem # 0 /\ rem <= cap
    <3>1. plan = [type1 |-> num, type3 |-> 0, type2 |-> rem,
                  total |-> num + 1]
      BY <1>4, <1>5, <2>4
    <3> QED BY <1>3, <1>6, <2>4, <3>1
  <2>5. CASE ~(size <= cap) /\ rem # 0 /\ ~(rem <= cap)
    <3>1. plan = [type1 |-> num, type3 |-> rem - cap, type2 |-> cap,
                  total |-> num + 2]
      BY <1>4, <1>5, <2>5
    <3> QED BY <1>1, <1>3, <1>6, <2>5, <3>1
  <2> QED BY <2>1, <2>2, <2>3, <2>4, <2>5
<1> QED BY <1>3, <1>9 DEF p, size, plan

------------------------------------------------------------------------------
(***************************************************************************)
(* Numbers that differ by a multiple.                                      *)
(***************************************************************************)
LEMMA TimesSum ==
    ASSUME NEW d \in Int, NEW x \in Int, NEW y \in Int
    PROVE  /\ d * x \in Int /\ d * y \in Int
           /\ d * (x + y) = (d * x) + (d * y)
           /\ d * (x - y) = (d * x) - (d * y)
  BY Z3

LEMMA SameRemainder ==
    ASSUME NEW d \in Nat \ {0}, NEW a \in Int, NEW b \in Int, a % d = b % d
    PROVE  \E k \in Int : a = b + (d * k) /\ d * k \in Int
<1> DEFINE p == a \div d
           q == b \div d
           r == a % d
<1>1. p \in Int /\ a = (d * p) + r /\ r \in 0..(d - 1)
  BY IntDivMod
<1>2. q \in Int /\ b = (d * q) + (b % d)
  BY IntDivMod
<1>3. b = (d * q) + r
  BY <1>2
<1> HIDE DEF p, q, r
<1>4. d * (p - q) = (d * p) - (d * q) /\ d * p \in Int /\ d * q \in Int
  BY <1>1, <1>2, TimesSum
<1>5. p - q \in Int /\ a = b + (d * (p - q)) /\ d * (p - q) \in Int
  BY <1>1, <1>2, <1>3, <1>4
<1> QED BY <1>5

LEMMA AddMultiple ==
    ASSUME NEW d \in Nat \ {0}, NEW b \in Int, NEW k \in Int
    PROVE  (b + (d * k)) % d = b % d
<1> DEFINE q == b \div d
           r == b % d
<1>1. q \in Int /\ b = (d * q) + r /\ r \in 0..(d - 1)
  BY IntDivMod
<1> HIDE DEF q, r
<1>2. d * (q + k) = (d * q) + (d * k) /\ d * q \in Int /\ d * k \in Int
  BY <1>1, TimesSum
<1>3. b + (d * k) = (d * (q + k)) + r
  BY <1>1, <1>2
<1>4. ((d * (q + k)) + r) % d = r
  BY <1>1, ModUnique
<1> QED BY <1>3, <1>4 DEF r

LEMMA ShiftRemainder ==
    ASSUME NEW d \in Nat \ {0}, NEW a \in Int, NEW b \in Int, a % d = b % d,
           NEW c \in Int
    PROVE  (a + c) % d = (b + c) % d
<1>1. PICK k \in Int : a = b + (d * k) /\ d * k \in Int
  BY SameRemainder
<1>2. a + c = (b + c) + (d * k)
  BY <1>1
<1>3. b + c \in Int
  OBVIOUS
<1> QED BY <1>2, <1>3, AddMultiple

\* Adding a multiple of d to c, and taking its remainder from a number.
LEMMA AddedMultiple ==
    ASSUME NEW d \in Nat \ {0}, NEW a \in Int, a % d = 0, NEW c \in Int
    PROVE  (a + c) % d = c % d
<1> DEFINE q == a \div d
<1>1. q \in Int /\ a = (d * q) + (a % d)
  BY IntDivMod
<1> HIDE DEF q
<1>2. d * q \in Int
  BY <1>1, TimesSum
<1>3. a + c = c + (d * q)
  BY <1>1, <1>2
<1>4. (c + (d * q)) % d = c % d
  BY <1>1, AddMultiple
<1> QED BY <1>3, <1>4

LEMMA LessRemainder ==
    ASSUME NEW d \in Nat \ {0}, NEW a \in Int, NEW k, k = a % d
    PROVE  k \in Int /\ (a - k) % d = 0
<1> DEFINE q == a \div d
<1>1. q \in Int /\ a = (d * q) + k /\ k \in 0..(d - 1)
  BY IntDivMod
<1> HIDE DEF q
<1>2. d * q \in Int
  BY <1>1, TimesSum
<1>3. a - k = (d * q) + 0 /\ k \in Int
  BY <1>1, <1>2
<1>4. ((d * q) + 0) % d = 0
  <2>1. 0 \in 0..(d - 1)
    OBVIOUS
  <2> QED BY <1>1, <2>1, ModUnique
<1> QED BY <1>3, <1>4

LEMMA RemainderTwice ==
    ASSUME NEW d \in Nat \ {0}, NEW a \in Int
    PROVE  a % d \in 0..(d - 1) /\ (a % d) % d = a % d
<1> DEFINE r == a % d
<1>1. r \in 0..(d - 1)
  BY IntDivMod
<1> HIDE DEF r
<1>2. ((d * 0) + r) % d = r
  BY <1>1, ModUnique
<1>3. (d * 0) + r = r
  BY <1>1, Z3
<1> QED BY <1>1, <1>2, <1>3 DEF r

\* Two numbers with the same remainder are equal or a whole divisor apart.
LEMMA RemaindersApart ==
    ASSUME NEW d \in Nat \ {0}, NEW a \in Int, NEW b \in Int, a % d = b % d
    PROVE  a = b \/ a >= b + d \/ b >= a + d
<1>1. PICK k \in Int : a = b + (d * k) /\ d * k \in Int
  BY SameRemainder
<1>2. CASE k = 0
  <2>1. d * k = 0
    BY <1>2, Z3
  <2> QED BY <1>1, <2>1
<1>3. CASE k >= 1
  <2>1. d * 1 <= d * k /\ d * 1 = d
    BY <1>3, TimesMore, Z3
  <2> QED BY <1>1, <2>1
<1>4. CASE k <= -1
  <2>1. d * k <= d * (-1) /\ d * (-1) = -d
    BY <1>4, TimesMore, Z3
  <2> QED BY <1>1, <2>1
<1> QED BY <1>2, <1>3, <1>4

------------------------------------------------------------------------------
(***************************************************************************)
(* The sender's half: everything it holds or hands out is a fragment of a  *)
(* SuperFrame that was sent, under that SuperFrame's number.               *)
(***************************************************************************)
LEMMA GenuineKept ==
    ASSUME SentOK, UNCHANGED <<sent, mSuperFrameNo>>
    PROVE  SentOK' /\ Genuine' = Genuine
  BY DEF SentOK, Genuine, NumberOf

\* The number on the wire of the f-th SuperFrame stays what it was.
LEMMA NumberKept ==
    ASSUME SentOK, NEW m, sent' = Append(sent, m),
           mSuperFrameNo' = S!NextSuperFrameNo(mSuperFrameNo), NEW f \in Int
    PROVE  NumberOf(f)' = NumberOf(f)
<1> DEFINE a == mSuperFrameNo + 1
           c == f - Len(sent) - 2
           n == Len(sent)
<1>1. /\ mSuperFrameNo \in Int /\ n \in Nat /\ Len(sent') = n + 1
      /\ mSuperFrameNo' = a % SeqSpace
  BY LinkFacts, LenIsNat, AppendFacts DEF SentOK, S!NextSuperFrameNo
<1>2. /\ a \in Int /\ c \in Int /\ a % SeqSpace \in Int
      /\ (a % SeqSpace) % SeqSpace = a % SeqSpace
  <2>1. a \in Int /\ c \in Int
    BY <1>1
  <2> HIDE DEF a, c
  <2>2. a % SeqSpace \in 0..(SeqSpace - 1)
        /\ (a % SeqSpace) % SeqSpace = a % SeqSpace
    BY <2>1, LinkFacts, RemainderTwice
  <2>3. a % SeqSpace \in Int
    BY <2>2, LinkFacts
  <2> QED BY <2>1, <2>2, <2>3
<1>3. ((a % SeqSpace) + c) % SeqSpace = (a + c) % SeqSpace
  BY <1>2, LinkFacts, ShiftRemainder
<1>4. a + c = mSuperFrameNo - (n - f) - 1
  BY <1>1
<1> HIDE DEF a
<1>5. (a % SeqSpace) + c = mSuperFrameNo' - (Len(sent') - f) - 1
  BY <1>1, <1>2
<1> QED BY <1>3, <1>4, <1>5 DEF NumberOf

LEMMA GenuineGrows ==
    ASSUME SentOK, NEW m \in Frames, Accepted(m), sent' = Append(sent, m),
           mSuperFrameNo' = S!NextSuperFrameNo(mSuperFrameNo)
    PROVE  /\ SentOK'
           /\ Genuine \subseteq Genuine'
           /\ Cuts(Len(sent) + 1, m, mSuperFrameNo) \subseteq Genuine'
<1> DEFINE n == Len(sent)
           no == mSuperFrameNo
<1>1. /\ n \in Nat /\ no \in 0..(SeqSpace - 1)
      /\ IsSeq(sent') /\ Len(sent') = n + 1
      /\ \A f \in 1..n : sent'[f] = sent[f]
      /\ sent'[n + 1] = m
  BY LenIsNat, AppendFacts DEF SentOK
<1>2. mSuperFrameNo' \in 0..(SeqSpace - 1)
  BY <1>1, LinkFacts, RemainderTwice DEF S!NextSuperFrameNo
<1>3. SentOK'
  BY <1>1, <1>2 DEF SentOK
<1>4. \A f \in 1..n : NumberOf(f)' = NumberOf(f)
  BY NumberKept
<1>5. PICK k \in Nat \ {0} : k = n + 1
  BY <1>1
<1>6. NumberOf(k)' = no
  <2>1. NumberOf(k)' = NumberOf(k)
    BY NumberKept
  <2>2. no - (n - k) - 1 = no
    BY <1>1, <1>5
  <2>3. NumberOf(k) = no % SeqSpace
    BY <2>2 DEF NumberOf
  <2>4. no % SeqSpace = no
    <3>1. ((SeqSpace * 0) + no) % SeqSpace = no
      BY <1>1, LinkFacts, ModUnique
    <3>2. (SeqSpace * 0) + no = no
      BY <1>1, LinkFacts, Z3
    <3> QED BY <3>1, <3>2
  <2> QED BY <2>1, <2>3, <2>4
<1>7. Genuine \subseteq Genuine'
  <2>1. ASSUME NEW p \in Genuine
        PROVE  p \in Genuine'
    <3>1. PICK f \in 1..n : p \in Cuts(f, sent[f], NumberOf(f))
      BY DEF Genuine
    <3>2. f \in 1..Len(sent') /\ p \in Cuts(f, sent'[f], NumberOf(f)')
      BY <1>1, <1>4, <3>1
    <3> QED BY <3>2 DEF Genuine
  <2> QED BY <2>1
<1>8. Cuts(k, m, no) \subseteq Genuine'
  <2>1. k \in 1..Len(sent') /\ sent'[k] = m
    BY <1>1, <1>5
  <2>2. ASSUME NEW p \in Cuts(k, m, no)
        PROVE  p \in Genuine'
    <3>1. p \in Cuts(k, sent'[k], NumberOf(k)')
      BY <1>6, <2>1, <2>2
    <3> QED BY <2>1, <3>1 DEF Genuine
  <2> QED BY <2>2
<1> QED BY <1>3, <1>5, <1>7, <1>8

\* The fragments of a send are the cuts of its SuperFrame.
LEMMA FragmentsAreCuts ==
    ASSUME NEW m \in Frames, Accepted(m), NEW f, NEW n
    PROVE  /\ S!Fragments(f, m, n, Plan(m)) \in Seq(Cuts(f, m, n))
           /\ S!Fragments(f, m, n, Plan(m)) # <<>>
<1> DEFINE plan == Plan(m)
           C == Cuts(f, m, n)
           ones == [i \in 1..plan.type1 |-> S!Type1Packet(f, m, n, plan, i - 1)]
           three == IF plan.type3 > 0 THEN <<S!Type3Packet(f, m, n, plan)>>
                    ELSE <<>>
           two == <<S!Type2Packet(f, m, n, plan)>>
<1>1. plan.type1 \in Nat
  BY PlanFacts
<1>2. ones \in Seq(C)
  <2>1. ASSUME NEW i \in 1..plan.type1
        PROVE  S!Type1Packet(f, m, n, plan, i - 1) \in C
    <3>1. i - 1 \in 0..(plan.type1 - 1)
      BY <1>1
    <3> QED BY <3>1 DEF Cuts
  <2>2. ones \in [1..plan.type1 -> C]
    BY <2>1
  <2> HIDE DEF C, ones
  <2> QED BY <1>1, <2>2, IsASeq
<1>3. three \in Seq(C)
  <2>1. plan.type3 > 0 => S!Type3Packet(f, m, n, plan) \in C
    BY DEF Cuts
  <2> HIDE DEF C
  <2> QED BY <2>1
<1>4. two \in Seq(C) /\ Len(two) = 1
  <2>1. S!Type2Packet(f, m, n, plan) \in C
    BY DEF Cuts
  <2> HIDE DEF C
  <2> QED BY <2>1
<1>5. S!Fragments(f, m, n, plan) = (ones \o three) \o two
  BY DEF S!Fragments
<1> HIDE DEF C, ones, three, two, plan
<1>6. ones \o three \in Seq(C) /\ Len(ones \o three) \in Nat
  BY <1>2, <1>3, ConcatProperties, LenProperties
<1>7. /\ (ones \o three) \o two \in Seq(C)
      /\ Len((ones \o three) \o two) = Len(ones \o three) + 1
  <2> DEFINE start == ones \o three
  <2>1. start \in Seq(C)
    BY <1>6
  <2> HIDE DEF start
  <2>2. start \o two \in Seq(C) /\ Len(start \o two) = Len(start) + Len(two)
    BY <1>4, <2>1, ConcatProperties
  <2> QED BY <1>4, <2>2 DEF start
<1>8. (ones \o three) \o two # <<>>
  BY <1>6, <1>7, EmptySeq
<1> QED BY <1>5, <1>7, <1>8 DEF C, plan

\* Eviction only removes entries.
LEMMA EvictGenuine ==
    ASSUME NEW r, RetentionOK(r), NEW n
    PROVE  RetentionOK(S!evictOldRetention(r, n))
<1> DEFINE k == S!EvictCount(r, n)
           gone == {r.mRetentionOrder[i] : i \in S!LiveAmong(r, k)}
           e == S!evictOldRetention(r, n)
           buffer == [key \in (DOMAIN r.mRetentionBuffer)
                                \ {rec.mKey : rec \in gone} |->
                        r.mRetentionBuffer[key]]
<1>1. e = [r EXCEPT
             !.mRetentionBuffer = buffer,
             !.mRetentionOrder = SubSeq(@, k + 1, Len(@)),
             !.mQueuedRetransmits = @ \ {rec.mGeneration : rec \in gone},
             !.mRetentionBufferBytes = S!BytesAfter(r, k)]
  BY DEF S!evictOldRetention, S!EvictFirst
<1>2. \A key \in DOMAIN buffer :
        key \in DOMAIN r.mRetentionBuffer /\ buffer[key] = r.mRetentionBuffer[key]
  OBVIOUS
<1> HIDE DEF buffer, k, gone, e
<1>3. /\ e.mRetentionBuffer = buffer
      /\ e = [mRetentionBuffer |-> e.mRetentionBuffer,
              mRetentionOrder |-> e.mRetentionOrder,
              mRetransmitQueue |-> e.mRetransmitQueue,
              mQueuedRetransmits |-> e.mQueuedRetransmits,
              mRetentionBufferBytes |-> e.mRetentionBufferBytes,
              mRetentionGeneration |-> e.mRetentionGeneration]
  BY <1>1 DEF RetentionOK
<1> QED BY <1>2, <1>3 DEF RetentionOK, e

LEMMA RetainGenuine ==
    ASSUME NEW r, RetentionOK(r), NEW p \in Genuine
    PROVE  RetentionOK(S!retainFragment(r, p))
<1> DEFINE key == S!makeRetentionKey(p.mSuperFrameNo, S!FragmentNo(p))
           a == S!evictOldRetention(r, S!RequiredBytes(r, key, S!PacketSize(p)))
           e == S!Insert(a, key, p)
<1>1. S!retainFragment(r, p) = r \/ S!retainFragment(r, p) = e
  BY DEF S!retainFragment
<1>2. RetentionOK(a)
  BY EvictGenuine
<1> HIDE DEF a, key
<1>3. RetentionOK(e)
  <2> DEFINE g == a.mRetentionGeneration + 1
             buffer == [k \in (DOMAIN a.mRetentionBuffer) \cup {key} |->
                          IF k = key
                            THEN [mGeneration |-> g, mTimestampUs |-> now,
                                  mStreamId |-> p.mStreamId, mData |-> p]
                            ELSE a.mRetentionBuffer[k]]
             bytes == a.mRetentionBufferBytes
                        - (IF key \in DOMAIN a.mRetentionBuffer
                             THEN S!EntrySize(a, key) ELSE 0) + S!PacketSize(p)
             marks == IF key \in DOMAIN a.mRetentionBuffer
                        THEN a.mQueuedRetransmits
                               \ {a.mRetentionBuffer[key].mGeneration}
                        ELSE a.mQueuedRetransmits
  <2>3. e = [a EXCEPT !.mRetentionBuffer = buffer,
                      !.mRetentionOrder =
                         Append(@, [mKey |-> key, mGeneration |-> g]),
                      !.mQueuedRetransmits = marks,
                      !.mRetentionBufferBytes = bytes,
                      !.mRetentionGeneration = g]
    BY <1>2 DEF S!Insert, RetentionOK
  <2>2. \A k \in DOMAIN buffer : buffer[k].mData \in Genuine
    BY <1>2 DEF RetentionOK
  <2> HIDE DEF buffer, e, g, bytes, marks
  <2>1. /\ e.mRetentionBuffer = buffer
        /\ e = [mRetentionBuffer |-> e.mRetentionBuffer,
                mRetentionOrder |-> e.mRetentionOrder,
                mRetransmitQueue |-> e.mRetransmitQueue,
                mQueuedRetransmits |-> e.mQueuedRetransmits,
                mRetentionBufferBytes |-> e.mRetentionBufferBytes,
                mRetentionGeneration |-> e.mRetentionGeneration]
    BY <1>2, <2>3 DEF RetentionOK
  <2> QED BY <2>1, <2>2 DEF RetentionOK
<1> QED BY <1>1, <1>3

LEMMA QueueGenuine ==
    ASSUME NEW r, RetentionOK(r), NEW ask
    PROVE  RetentionOK(S!QueueRetransmit(r, ask))
  BY DEF RetentionOK, S!QueueRetransmit

LEMMA PopGenuine ==
    ASSUME NEW r, RetentionOK(r)
    PROVE  /\ RetentionOK(S!PopRetransmit(r))
           /\ S!RetransmitLives(r) => S!Retransmit(r) \in Genuine
<1>1. RetentionOK(S!PopRetransmit(r))
  <2> DEFINE e == S!PopRetransmit(r)
             g == Head(r.mRetransmitQueue).mGeneration
  <2>1. e = [r EXCEPT !.mRetransmitQueue = Tail(@),
                      !.mQueuedRetransmits = @ \ {g}]
    BY DEF S!PopRetransmit
  <2> HIDE DEF e, g
  <2>2. /\ e.mRetentionBuffer = r.mRetentionBuffer
        /\ e = [mRetentionBuffer |-> e.mRetentionBuffer,
                mRetentionOrder |-> e.mRetentionOrder,
                mRetransmitQueue |-> e.mRetransmitQueue,
                mQueuedRetransmits |-> e.mQueuedRetransmits,
                mRetentionBufferBytes |-> e.mRetentionBufferBytes,
                mRetentionGeneration |-> e.mRetentionGeneration]
    BY <2>1 DEF RetentionOK
  <2> QED BY <2>2 DEF RetentionOK, e
<1>2. S!RetransmitLives(r) => S!Retransmit(r) \in Genuine
  BY DEF RetentionOK, S!RetransmitLives, S!Live, S!Retransmit
<1> QED BY <1>1, <1>2

LEMMA AdvancedOK ==
    ASSUME TaskOK(task), task.op = "send", NEW todo \in Seq(Genuine),
           NEW frames \in Seq(Genuine), NEW room
    PROVE  TaskOK(S!Advanced(todo, frames, room))
<1> DEFINE t == S!Advanced(todo, frames, room)
<1>1. task = [op |-> "send", frame |-> task.frame, todo |-> task.todo,
              bundle |-> task.bundle, room |-> task.room]
  BY DEF TaskOK, S!Idle
<1>2. CASE todo = <<>>
  BY <1>2 DEF S!Advanced, TaskOK
<1>3. CASE todo # <<>>
  <2>1. t = [task EXCEPT !.todo = todo, !.bundle = frames, !.room = room]
    BY <1>3 DEF S!Advanced
  <2>2. t = [op |-> "send", frame |-> task.frame, todo |-> todo,
             bundle |-> frames, room |-> room]
    BY <1>1, <2>1
  <2> HIDE DEF t
  <2>3. /\ t.op = "send" /\ t.todo = todo /\ t.bundle = frames
        /\ t = [op |-> "send", frame |-> t.frame, todo |-> t.todo,
                bundle |-> t.bundle, room |-> t.room]
    BY <2>2
  <2>4. TaskOK(t)
    BY <1>3, <2>3 DEF TaskOK
  <2> QED BY <2>4 DEF t
<1> QED BY <1>2, <1>3

\* What a sending operation has before it.
LEMMA TodoFacts ==
    ASSUME TaskOK(task), task.op = "send"
    PROVE  /\ task.todo \in Seq(Genuine) /\ task.todo # <<>>
           /\ Head(task.todo) \in Genuine /\ Tail(task.todo) \in Seq(Genuine)
           /\ task.bundle \in Seq(Genuine)
<1>1. /\ task.todo \in Seq(Genuine) /\ task.todo # <<>>
      /\ task.bundle \in Seq(Genuine)
  BY DEF TaskOK, S!Idle
<1> QED BY <1>1, HeadTailProperties

\* A step of the sender within an operation: nothing new is numbered, and what
\* is handed out is genuine.
Careful ==
    /\ UNCHANGED <<sent, mSuperFrameNo>>
    /\ RetentionOK(ret') /\ TaskOK(task')
    /\ \A p \in Range(out') : OnWire(p)

LEMMA SendFragmentOK ==
    ASSUME SenderOK, S!SendFragment
    PROVE  Careful
<1>1. /\ task.op = "send"
      /\ ret' = S!retainFragment(ret, Head(task.todo))
      /\ out' = <<Head(task.todo)>>
      /\ task' = S!Advanced(Tail(task.todo), <<>>, 0)
      /\ UNCHANGED <<sent, mSuperFrameNo>>
  BY DEF S!SendFragment, S!Sending
<1>2. /\ Head(task.todo) \in Genuine /\ Tail(task.todo) \in Seq(Genuine)
      /\ <<>> \in Seq(Genuine)
  BY <1>1, TodoFacts, EmptySeq DEF SenderOK
<1>3. RetentionOK(ret')
  BY <1>1, <1>2, RetainGenuine DEF SenderOK
<1>4. TaskOK(task')
  BY <1>1, <1>2, AdvancedOK DEF SenderOK
<1>5. \A p \in Range(out') : OnWire(p)
  BY <1>1, <1>2 DEF Range, OnWire
<1> QED BY <1>1, <1>3, <1>4, <1>5 DEF Careful

LEMMA StartBundleOK ==
    ASSUME SenderOK, S!StartBundle
    PROVE  Careful
<1> DEFINE r == S!Retransmit(ret)
           lives == S!RetransmitLives(ret)
<1>1. /\ task.op = "send"
      /\ ret' = ret \/ ret' = S!PopRetransmit(ret)
      /\ out' = <<>> \/ (lives /\ out' = <<r>>)
      /\ \/ \E n : task' = S!Advanced(task.todo, <<>>, n)
         \/ lives /\ \E n : task' = S!Advanced(task.todo, <<r>>, n)
      /\ UNCHANGED <<sent, mSuperFrameNo>>
  BY DEF S!StartBundle, S!Bundled, S!Sending
<1>2. /\ task.todo \in Seq(Genuine) /\ <<>> \in Seq(Genuine)
      /\ lives => r \in Genuine
      /\ RetentionOK(S!PopRetransmit(ret))
  BY <1>1, TodoFacts, EmptySeq, PopGenuine DEF SenderOK
<1> HIDE DEF r, lives
<1>3. lives => <<r>> \in Seq(Genuine)
  BY <1>2
<1>4. RetentionOK(ret')
  BY <1>1, <1>2 DEF SenderOK
<1>5. TaskOK(task')
  BY <1>1, <1>2, <1>3, AdvancedOK DEF SenderOK
<1>6. \A p \in Range(out') : OnWire(p)
  BY <1>1, <1>2 DEF Range, OnWire
<1> QED BY <1>1, <1>4, <1>5, <1>6 DEF Careful

LEMMA BundleFragmentOK ==
    ASSUME SenderOK, S!BundleFragment
    PROVE  Careful
<1> DEFINE p == Head(task.todo)
           frames == Append(task.bundle, p)
<1>1. /\ task.op = "send"
      /\ ret' = S!retainFragment(ret, p)
      /\ out' = <<>> \/ out' = <<S!BundlePacket(task.frame, frames)>>
      /\ \/ task' = S!Advanced(Tail(task.todo), <<>>, 0)
         \/ task' = S!Advanced(Tail(task.todo), frames, task.room - 1)
      /\ UNCHANGED <<sent, mSuperFrameNo>>
  BY DEF S!BundleFragment, S!Bundled, S!Sending
<1>2. /\ p \in Genuine /\ Tail(task.todo) \in Seq(Genuine)
      /\ task.bundle \in Seq(Genuine) /\ <<>> \in Seq(Genuine)
  BY <1>1, TodoFacts, EmptySeq DEF SenderOK
<1>3. frames \in Seq(Genuine)
  BY <1>2, AppendProperties
<1>4. RetentionOK(ret')
  BY <1>1, <1>2, RetainGenuine DEF SenderOK
<1>5. OnWire(S!BundlePacket(task.frame, frames))
  BY <1>3 DEF OnWire, S!BundlePacket
<1> HIDE DEF frames
<1>6. TaskOK(task')
  BY <1>1, <1>2, <1>3, AdvancedOK DEF SenderOK
<1>7. \A q \in Range(out') : OnWire(q)
  BY <1>1, <1>5 DEF Range
<1> QED BY <1>1, <1>4, <1>6, <1>7 DEF Careful

LEMMA NackFragmentOK ==
    ASSUME SenderOK, S!NackFragment
    PROVE  Careful
<1>1. /\ task.op = "nack"
      /\ ret' = S!QueueRetransmit(ret, Head(task.todo))
      /\ out' = <<>>
      /\ task' = S!Idle \/ task' = [task EXCEPT !.todo = Tail(@)]
      /\ UNCHANGED <<sent, mSuperFrameNo>>
  BY DEF S!NackFragment
<1>2. task = [op |-> "nack", todo |-> task.todo]
  BY <1>1 DEF SenderOK, TaskOK, S!Idle
<1>3. RetentionOK(ret')
  BY <1>1, QueueGenuine DEF SenderOK
<1>4. TaskOK(task')
  <2>1. CASE task' = S!Idle
    BY <2>1 DEF TaskOK
  <2>2. CASE task' = [task EXCEPT !.todo = Tail(@)]
    <3> DEFINE rest == Tail(task.todo)
    <3>1. task' = [task EXCEPT !.todo = rest]
      BY <1>2, <2>2
    <3> HIDE DEF rest
    <3>2. task' = [op |-> "nack", todo |-> rest]
      BY <1>2, <3>1
    <3> QED BY <3>2 DEF TaskOK
  <2> QED BY <1>1, <2>1, <2>2
<1>5. \A q \in Range(out') : OnWire(q)
  BY <1>1 DEF Range
<1> QED BY <1>1, <1>3, <1>4, <1>5 DEF Careful

LEMMA RetransmitStepOK ==
    ASSUME SenderOK, S!RetransmitStep
    PROVE  Careful
<1> DEFINE r == S!Retransmit(ret)
           lives == S!RetransmitLives(ret)
<1>1. /\ task.op = "retransmit"
      /\ ret' = S!PopRetransmit(ret)
      /\ out' = <<>> \/ (lives /\ out' = <<r>>)
      /\ task' = S!Idle \/ \E n : task' = [task EXCEPT !.left = n]
      /\ UNCHANGED <<sent, mSuperFrameNo>>
  BY DEF S!RetransmitStep
<1>2. task = [op |-> "retransmit", left |-> task.left]
  BY <1>1 DEF SenderOK, TaskOK, S!Idle
<1>3. RetentionOK(ret') /\ (lives => r \in Genuine)
  BY <1>1, PopGenuine DEF SenderOK
<1> HIDE DEF r, lives
<1>4. TaskOK(task')
  <2>1. CASE task' = S!Idle
    BY <2>1 DEF TaskOK
  <2>2. ASSUME NEW n, task' = [task EXCEPT !.left = n]
        PROVE  TaskOK(task')
    <3>1. task' = [op |-> "retransmit", left |-> n]
      BY <1>2, <2>2
    <3> QED BY <3>1 DEF TaskOK
  <2> QED BY <1>1, <2>1, <2>2
<1>5. \A q \in Range(out') : OnWire(q)
  BY <1>1, <1>3 DEF Range, OnWire
<1> QED BY <1>1, <1>3, <1>4, <1>5 DEF Careful

\* A call of send that is accepted.
Accepts(m) ==
    /\ m \in Frames /\ Accepted(m) /\ Len(sent) < MaxSends
    /\ sent' = Append(sent, m)
    /\ mSuperFrameNo' = S!NextSuperFrameNo(mSuperFrameNo)

Grows == UNCHANGED <<sent, mSuperFrameNo>> \/ \E m \in Frames : Accepts(m)

LEMMA OnWireStays ==
    ASSUME Genuine \subseteq Genuine', NEW p, OnWire(p)
    PROVE  OnWire(p)'
<1>1. CASE p \in Genuine
  BY <1>1 DEF OnWire
<1>2. CASE p.mFrameType = 4 /\ p.frames \in Seq(Genuine)
  <2>1. p.frames \in Seq(Genuine')
    BY <1>2, SeqMonotonic
  <2> QED BY <1>2, <2>1 DEF OnWire
<1> QED BY <1>1, <1>2 DEF OnWire

LEMMA SenderSideOK ==
    ASSUME SenderOK, SenderStep \/ NackArrives
    PROVE  /\ SenderOK' /\ Grows /\ Genuine \subseteq Genuine'
           /\ \A p \in Range(out') : OnWire(p)'
<1>1. SentOK /\ RetentionOK(ret) /\ TaskOK(task)
  BY DEF SenderOK
<1>2. CASE Careful
  <2>1. SentOK' /\ Genuine' = Genuine
    BY <1>1, <1>2, GenuineKept DEF Careful
  <2>2. RetentionOK(ret)'
    BY <1>2, <2>1 DEF Careful, RetentionOK
  <2>3. TaskOK(task)'
    BY <1>2, <2>1 DEF Careful, TaskOK
  <2>4. \A p \in Range(out') : OnWire(p)'
    BY <1>2, <2>1, OnWireStays DEF Careful
  <2> QED BY <1>2, <2>1, <2>2, <2>3, <2>4 DEF Careful, Grows, SenderOK
<1>3. ASSUME NEW m \in Frames, S!Send(m)
      PROVE  /\ SenderOK' /\ Grows /\ Genuine \subseteq Genuine'
             /\ \A p \in Range(out') : OnWire(p)'
  <2>1. RetentionOK(ret')
    <3>1. ret' = ret \/ ret' = S!evictOldRetention(ret, 0)
      BY <1>3 DEF S!Send
    <3> QED BY <1>1, <3>1, EvictGenuine
  <2>2. out' = <<>> /\ (\A p \in Range(out') : OnWire(p))
    BY <1>3 DEF S!Send, Range
  <2>3. CASE S!SendVerdict(m.size, Mtu, Mode) = "OK"
    <3> DEFINE f == Len(sent) + 1
               todo == S!Fragments(f, m, mSuperFrameNo, Plan(m))
    <3>1. /\ Accepts(m)
          /\ task' = [op |-> "send", frame |-> m, todo |-> todo,
                      bundle |-> <<>>, room |-> 0]
      BY <1>3, <2>3 DEF S!Send, Accepts, Accepted, Plan
    <3>2. /\ SentOK' /\ Genuine \subseteq Genuine'
          /\ Cuts(Len(sent) + 1, m, mSuperFrameNo) \subseteq Genuine'
      BY <1>1, <3>1, GenuineGrows DEF Accepts
    <3>3. todo \in Seq(Cuts(f, m, mSuperFrameNo)) /\ todo # <<>>
      BY <3>1, FragmentsAreCuts DEF Accepts
    <3>4. todo \in Seq(Genuine')
      BY <3>2, <3>3, SeqMonotonic
    <3> HIDE DEF todo
    <3>5. TaskOK(task)'
      <4>1. /\ task'.op = "send" /\ task'.todo = todo /\ task'.bundle = <<>>
            /\ task' = [op |-> "send", frame |-> task'.frame,
                        todo |-> task'.todo, bundle |-> task'.bundle,
                        room |-> task'.room]
        BY <3>1
      <4>2. <<>> \in Seq(Genuine')
        BY EmptySeq
      <4> QED BY <3>3, <3>4, <4>1, <4>2 DEF TaskOK
    <3>6. RetentionOK(ret)'
      BY <2>1, <3>2 DEF RetentionOK
    <3>7. \A p \in Range(out') : OnWire(p)'
      BY <2>2, <3>2, OnWireStays
    <3>8. Grows
      BY <3>1 DEF Grows, Accepts
    <3> QED BY <3>2, <3>5, <3>6, <3>7, <3>8 DEF SenderOK
  <2>4. CASE S!SendVerdict(m.size, Mtu, Mode) # "OK"
    <3>1. UNCHANGED <<mSuperFrameNo, task, sent>>
      BY <1>3, <2>4 DEF S!Send
    <3>2. Careful
      BY <1>1, <2>1, <2>2, <3>1 DEF Careful
    <3> QED BY <1>2, <3>2
  <2> QED BY <2>3, <2>4
<1>4. ASSUME NEW n, S!ProcessRetransmits(n)
      PROVE  Careful
  <2>1. /\ UNCHANGED <<sent, mSuperFrameNo, ret>> /\ out' = <<>>
        /\ task' = [op |-> "retransmit", left |-> n]
    BY <1>4 DEF S!ProcessRetransmits
  <2>2. TaskOK(task')
    BY <2>1 DEF TaskOK
  <2> QED BY <1>1, <2>1, <2>2 DEF Careful, Range
<1>5. ASSUME NEW n, S!ReceiveNack(n)
      PROVE  Careful
  <2>1. /\ UNCHANGED <<sent, mSuperFrameNo, ret>> /\ out' = <<>>
        /\ task' = [op |-> "nack", todo |-> S!AskedFragments(n)]
    BY <1>5 DEF S!ReceiveNack
  <2>2. TaskOK(task')
    BY <2>1 DEF TaskOK
  <2> QED BY <1>1, <2>1, <2>2 DEF Careful, Range
<1>6. CASE S!Internal
  <2>1. Careful
    BY <1>6, SendFragmentOK, StartBundleOK, BundleFragmentOK, NackFragmentOK,
       RetransmitStepOK DEF S!Internal
  <2> QED BY <1>2, <2>1
<1>7. \/ \E m \in Frames : S!Send(m)
      \/ \E n : S!ProcessRetransmits(n)
      \/ \E n : S!ReceiveNack(n)
      \/ S!Internal
  BY DEF SenderStep, NackArrives
<1> QED BY <1>2, <1>3, <1>4, <1>5, <1>6, <1>7

\* What the sender hands out joins the wire; what is too old leaves it.
LEMMA WireStepOK ==
    ASSUME SenderOK, WireOK, SenderStep \/ NackArrives
    PROVE  WireOK'
<1>1. Genuine \subseteq Genuine' /\ (\A p \in Range(out') : OnWire(p)')
  BY SenderSideOK
<1>2. wire' = {p \in wire \cup Range(out') :
                 \A f \in Carries(p) : f > Len(sent') - Window}
  BY DEF SenderStep, NackArrives, Transmit
<1>3. \A p \in wire : OnWire(p)'
  BY <1>1, OnWireStays DEF WireOK
<1>4. ASSUME NEW p \in wire'
      PROVE  OnWire(p)' /\ \A f \in Carries(p) : f > Len(sent') - Window
  BY <1>1, <1>2, <1>3
<1> QED BY <1>4 DEF WireOK, Carries

------------------------------------------------------------------------------
(***************************************************************************)
(* What a fragment says of its SuperFrame.                                 *)
(***************************************************************************)
LEMMA BytesLen ==
    ASSUME NEW f, NEW from, NEW n \in Nat
    PROVE  Len(S!Bytes(f, from, n)) = n
<1> DEFINE s == S!Bytes(f, from, n)
<1>1. s = [i \in 1..n |-> s[i]]
  BY DEF S!Bytes
<1> HIDE DEF s
<1> QED BY <1>1, FunctionIsSeq DEF s

LEMMA Commutes ==
    ASSUME NEW x \in Int, NEW y \in Int
    PROVE  x * y = y * x /\ x * y \in Int
  BY Z3

LEMMA CutFacts ==
    ASSUME NEW m \in Frames, Accepted(m), NEW f, NEW n, NEW p \in Cuts(f, m, n)
    PROVE  LET plan == Plan(m)
               P    == S!Payload
           IN  /\ p.frame = f /\ p.mSuperFrameNo = n
               /\ p.mStreamId = m.mStreamId
               /\ p.mOfFragmentNo = plan.total - 1
               /\ \/ /\ p.mFrameType = 1
                     /\ p.mFragmentNo \in 0..(plan.type1 - 1)
                     /\ p.data = S!Bytes(f, P * p.mFragmentNo, P)
                  \/ /\ p.mFrameType = 3 /\ plan.type3 > 0
                     /\ p.mType1PacketSize = P
                     /\ p.data = S!Bytes(f, P * plan.type1, plan.type3)
                  \/ /\ p.mFrameType = 2
                     /\ p.mSizeOfData = plan.type2
                     /\ plan.total # 1 => p.mType1PacketSize = P
                     /\ plan.total = 1 => p.mType1PacketSize = 0
                     /\ p.mPts = m.mPts /\ p.mPayload = m.mPayload
                     /\ p.mDtsPtsDiff = S!DtsPtsDiff(m.mPts, m.mDts)
                     /\ p.data = S!Bytes(f, m.size - plan.type2, plan.type2)
<1> DEFINE plan == Plan(m)
           P == S!Payload
<1>1. plan.type1 \in Nat /\ P \in Nat
  BY PlanFacts
<1>2. CASE p = S!Type2Packet(f, m, n, plan)
  BY <1>2 DEF S!Type2Packet, S!PlanType1PacketSize
<1>3. CASE plan.type3 > 0 /\ p = S!Type3Packet(f, m, n, plan)
  <2>1. plan.type1 * P = P * plan.type1
    BY <1>1, Commutes
  <2> QED BY <1>3, <2>1 DEF S!Type3Packet
<1>4. ASSUME NEW i \in 0..(plan.type1 - 1),
             p = S!Type1Packet(f, m, n, plan, i)
      PROVE  /\ p.frame = f /\ p.mSuperFrameNo = n
             /\ p.mStreamId = m.mStreamId
             /\ p.mOfFragmentNo = plan.total - 1
             /\ p.mFrameType = 1
             /\ p.mFragmentNo = i
             /\ p.data = S!Bytes(f, P * i, P)
  <2>1. i * P = P * i
    BY <1>1, Commutes
  <2> QED BY <1>4, <2>1 DEF S!Type1Packet
<1>5. \/ \E i \in 0..(plan.type1 - 1) : p = S!Type1Packet(f, m, n, plan, i)
      \/ plan.type3 > 0 /\ p = S!Type3Packet(f, m, n, plan)
      \/ p = S!Type2Packet(f, m, n, plan)
  BY DEF Cuts
<1> HIDE DEF plan, P
<1>6. CASE \E i \in 0..(plan.type1 - 1) : p = S!Type1Packet(f, m, n, plan, i)
  BY <1>4, <1>6 DEF plan, P
<1> QED BY <1>2, <1>3, <1>5, <1>6 DEF plan, P

\* A fragment's header holds what handlers expect of any header.
LEMMA CutHeader ==
    ASSUME NEW m \in Frames, Accepted(m), NEW f,
           NEW n \in 0..(SeqSpace - 1), NEW p \in Cuts(f, m, n)
    PROVE  FragmentHeader(p)
<1> DEFINE plan == Plan(m)
           P == S!Payload
<1>1. /\ plan.type1 \in Nat /\ plan.type3 \in Nat /\ plan.type2 \in Nat
      /\ plan.total - 1 \in Nat /\ P \in Nat
  BY PlanFacts
<1>2. /\ p.mSuperFrameNo = n
      /\ p.mOfFragmentNo = plan.total - 1
      /\ \/ /\ p.mFrameType = 1
            /\ p.mFragmentNo \in 0..(plan.type1 - 1)
            /\ p.data = S!Bytes(f, P * p.mFragmentNo, P)
         \/ /\ p.mFrameType = 3 /\ plan.type3 > 0
            /\ p.mType1PacketSize = P
            /\ p.data = S!Bytes(f, P * plan.type1, plan.type3)
         \/ /\ p.mFrameType = 2
            /\ p.mSizeOfData = plan.type2
            /\ plan.total # 1 => p.mType1PacketSize = P
            /\ plan.total = 1 => p.mType1PacketSize = 0
            /\ p.data = S!Bytes(f, m.size - plan.type2, plan.type2)
  BY CutFacts
<1> HIDE DEF plan, P
<1>3. Len(p.data) \in Nat
  BY <1>1, <1>2, BytesLen
<1>4. p.mFrameType = 1 => p.mFragmentNo \in Nat
  BY <1>1, <1>2
<1>5. p.mFrameType \in {2, 3} => p.mType1PacketSize \in Nat
  BY <1>1, <1>2
<1>6. p.mFrameType = 2 => p.mSizeOfData \in Nat
  BY <1>1, <1>2
<1>7. p.mFrameType \in {1, 2, 3}
  BY <1>2
<1> QED BY <1>1, <1>2, <1>3, <1>4, <1>5, <1>6, <1>7 DEF FragmentHeader

LEMMA GenuineFacts ==
    ASSUME SentOK, NEW p \in Genuine
    PROVE  LET f == p.frame
           IN  /\ f \in 1..Len(sent)
               /\ sent[f] \in Frames /\ Accepted(sent[f])
               /\ p \in Cuts(f, sent[f], NumberOf(f))
               /\ p.mSuperFrameNo = NumberOf(f)
               /\ NumberOf(f) \in 0..(SeqSpace - 1)
               /\ FragmentHeader(p)
<1>1. PICK f \in 1..Len(sent) : p \in Cuts(f, sent[f], NumberOf(f))
  BY DEF Genuine
<1>2. sent[f] \in Frames /\ Accepted(sent[f])
  BY DEF SentOK
<1>3. p.frame = f /\ p.mSuperFrameNo = NumberOf(f)
  BY <1>1, <1>2, CutFacts
<1>4. NumberOf(f) \in 0..(SeqSpace - 1)
  <2> DEFINE a == mSuperFrameNo - (Len(sent) - f) - 1
  <2>1. a \in Int
    BY LinkFacts, LenIsNat DEF SentOK
  <2> HIDE DEF a
  <2>2. a % SeqSpace \in 0..(SeqSpace - 1)
    BY <2>1, LinkFacts, RemainderTwice
  <2> QED BY <2>2 DEF NumberOf, a
<1>5. FragmentHeader(p)
  BY <1>1, <1>2, <1>4, CutHeader
<1> QED BY <1>1, <1>2, <1>3, <1>4, <1>5

------------------------------------------------------------------------------
(***************************************************************************)
(* Bytes in a bucket's buffer.                                             *)
(***************************************************************************)

\* Where a SuperFrame's parts lie.
LEMMA LayoutFacts ==
    ASSUME NEW m \in Frames, Accepted(m)
    PROVE  LET plan == Plan(m)
               P    == S!Payload
               of   == plan.total - 1
               T    == P * plan.type1
           IN  /\ P \in Nat \ {0} /\ of \in Nat /\ T \in Nat
               /\ plan.type1 \in Nat /\ plan.type3 \in Nat
               /\ plan.type2 \in Nat \ {0}
               /\ T + plan.type3 + plan.type2 = m.size
               /\ plan.type3 > 0 =>
                    of = plan.type1 + 1 /\ P * of = T + P /\ P * (of - 1) = T
               /\ plan.type3 = 0 => of = plan.type1
               /\ \A k \in 0..(plan.type1 - 1) :
                    P * k \in Nat /\ (P * k) + P <= T
               /\ \A k, j \in 0..(plan.type1 - 1) :
                    k < j => (P * k) + P <= P * j
<1> DEFINE plan == Plan(m)
           P == S!Payload
           of == plan.total - 1
           T == P * plan.type1
<1>1. /\ plan.type1 \in Nat /\ plan.type3 \in Nat
      /\ plan.type2 \in Nat \ {0}
      /\ plan.total = plan.type1 + (IF plan.type3 > 0 THEN 1 ELSE 0) + 1
      /\ P \in Nat \ {0}
      /\ T + plan.type3 + plan.type2 = m.size
  BY PlanFacts
<1>2. of = IF plan.type3 > 0 THEN plan.type1 + 1 ELSE plan.type1
  BY <1>1
<1>3. T \in Nat /\ of \in Nat
  BY <1>1, <1>2, Offsets
<1>4. plan.type3 > 0 =>
        of = plan.type1 + 1 /\ P * of = T + P /\ P * (of - 1) = T
  <2> SUFFICES ASSUME plan.type3 > 0
               PROVE  of = plan.type1 + 1 /\ P * of = T + P /\ P * (of - 1) = T
    OBVIOUS
  <2>1. of = plan.type1 + 1 /\ of - 1 = plan.type1
    BY <1>1, <1>2
  <2>2. P * (plan.type1 + 1) = T + P
    BY <1>1, Offsets
  <2> QED BY <2>1, <2>2
<1>5. \A k \in 0..(plan.type1 - 1) : P * k \in Nat /\ (P * k) + P <= T
  <2> TAKE k \in 0..(plan.type1 - 1)
  <2>1. k \in Nat /\ k < plan.type1
    BY <1>1
  <2> QED BY <1>1, <2>1, Offsets
<1>6. \A k, j \in 0..(plan.type1 - 1) : k < j => (P * k) + P <= P * j
  <2> TAKE k, j \in 0..(plan.type1 - 1)
  <2>1. k \in Nat /\ j \in Nat
    BY <1>1
  <2> QED BY <1>1, <2>1, Offsets
<1> HIDE DEF P, plan, T
<1> QED BY <1>1, <1>2, <1>3, <1>4, <1>5, <1>6 DEF P, plan, T

\* What is written is there ...
LEMMA WriteFills ==
    ASSUME NEW data, NEW f, NEW at \in Nat, NEW n \in Nat, NEW from \in Nat
    PROVE  Filled(Write(data, at, S!Bytes(f, from, n)), f, at, n, from)
<1> DEFINE s == S!Bytes(f, from, n)
           d == Write(data, at, s)
<1>1. Len(s) = n
  BY BytesLen
<1>2. \A i \in 1..n : s[i] = <<f, from + i - 1>>
  BY DEF S!Bytes
<1> HIDE DEF s
<1>3. ASSUME NEW j \in 0..(n - 1)
      PROVE  at + j \in DOMAIN d /\ d[at + j] = <<f, from + j>>
  <2>1. at + j \in at..(at + n - 1)
    BY <1>3
  <2>2. at + j \in DOMAIN d /\ d[at + j] = s[(at + j) - at + 1]
    BY <1>1, <2>1 DEF Write
  <2>3. (at + j) - at + 1 = j + 1 /\ j + 1 \in 1..n /\ from + (j + 1) - 1 = from + j
    BY <1>3
  <2> QED BY <1>2, <2>2, <2>3
<1> HIDE DEF d
<1> QED BY <1>3 DEF Filled, d, s

\* ... and the rest stays.
LEMMA WriteKeeps ==
    ASSUME NEW data, NEW f, NEW at \in Nat, NEW n \in Nat, NEW from,
           Filled(data, f, at, n, from),
           NEW offset \in Nat, NEW s, Len(s) \in Nat,
           at + n <= offset \/ offset + Len(s) <= at
    PROVE  Filled(Write(data, offset, s), f, at, n, from)
<1> DEFINE d == Write(data, offset, s)
<1>1. ASSUME NEW j \in 0..(n - 1)
      PROVE  at + j \in DOMAIN d /\ d[at + j] = <<f, from + j>>
  <2>1. at + j \notin offset..(offset + Len(s) - 1)
    BY <1>1
  <2>2. at + j \in DOMAIN data /\ data[at + j] = <<f, from + j>>
    BY <1>1 DEF Filled
  <2> QED BY <2>1, <2>2 DEF Write
<1> HIDE DEF d
<1> QED BY <1>1 DEF Filled, d

LEMMA MoveFills ==
    ASSUME NEW data, NEW f, NEW at \in Nat, NEW n \in Nat, NEW from,
           Filled(data, f, at, n, from), NEW to \in Nat
    PROVE  Filled(Move(data, to, at, n), f, to, n, from)
<1> DEFINE d == Move(data, to, at, n)
<1>1. ASSUME NEW j \in 0..(n - 1)
      PROVE  to + j \in DOMAIN d /\ d[to + j] = <<f, from + j>>
  <2>1. to + j \in to..(to + n - 1) /\ (to + j) - to + at = at + j
    BY <1>1
  <2>2. data[at + j] = <<f, from + j>>
    BY <1>1 DEF Filled
  <2> QED BY <2>1, <2>2 DEF Move
<1> HIDE DEF d
<1> QED BY <1>1 DEF Filled, d

LEMMA MoveKeeps ==
    ASSUME NEW data, NEW f, NEW at \in Nat, NEW n \in Nat, NEW from,
           Filled(data, f, at, n, from),
           NEW to \in Nat, NEW src, NEW size \in Nat,
           at + n <= to \/ to + size <= at
    PROVE  Filled(Move(data, to, src, size), f, at, n, from)
<1> DEFINE d == Move(data, to, src, size)
<1>1. ASSUME NEW j \in 0..(n - 1)
      PROVE  at + j \in DOMAIN d /\ d[at + j] = <<f, from + j>>
  <2>1. at + j \notin to..(to + size - 1)
    BY <1>1
  <2>2. at + j \in DOMAIN data /\ data[at + j] = <<f, from + j>>
    BY <1>1 DEF Filled
  <2> QED BY <2>1, <2>2 DEF Move
<1> HIDE DEF d
<1> QED BY <1>1 DEF Filled, d

------------------------------------------------------------------------------
(***************************************************************************)
(* Every fragment of a SuperFrame finds its place, in any order.           *)
(***************************************************************************)
LEMMA Store1Holds ==
    ASSUME NEW m \in Frames, Accepted(m), NEW f, NEW n,
           NEW p \in Cuts(f, m, n), p.mFrameType = 1,
           NEW b, Assembling(b), Holds(b, f, m)
    PROVE  Holds(Store1(b, p), f, m)
<1> DEFINE plan == Plan(m)
           P == S!Payload
           of == plan.total - 1
           T == P * plan.type1
           c == Store1(b, p)
           k == p.mFragmentNo
           s == S!Bytes(f, P * k, P)
           got == b.mReceivedFragments
           t3 == plan.type3 > 0 /\ of - 1 \in got
           base == IF plan.type3 > 0 /\ ~t3 THEN P * of ELSE m.size - plan.type2
<1>1. /\ P \in Nat \ {0} /\ of \in Nat /\ T \in Nat
      /\ plan.type1 \in Nat /\ plan.type3 \in Nat
      /\ plan.type2 \in Nat \ {0}
      /\ T + plan.type3 + plan.type2 = m.size
      /\ plan.type3 > 0 =>
           of = plan.type1 + 1 /\ P * of = T + P /\ P * (of - 1) = T
      /\ plan.type3 = 0 => of = plan.type1
      /\ \A i \in 0..(plan.type1 - 1) : P * i \in Nat /\ (P * i) + P <= T
      /\ \A i, j \in 0..(plan.type1 - 1) : i < j => (P * i) + P <= P * j
  BY LayoutFacts
<1>2. k \in 0..(plan.type1 - 1) /\ p.data = s
  BY CutFacts
<1>3. Len(s) = P
  BY <1>1, BytesLen
<1>4. /\ b.mOfFragmentNo = of
      /\ b.mStreamId = m.mStreamId
      /\ of > 0 => b.mFragmentSize = P
      /\ \A i \in 0..(plan.type1 - 1) :
           i \in got => Filled(b.mpData, f, P * i, P, P * i)
      /\ IF t3 THEN /\ b.mType3Size = plan.type3
                    /\ Filled(b.mpData, f, T, plan.type3, T)
         ELSE b.mType3Size = 0
      /\ of \in got =>
           /\ b.mType2Size = plan.type2
           /\ b.mPts = m.mPts /\ b.mDts = DtsSent(m)
           /\ b.mPayload = m.mPayload
           /\ Filled(b.mpData, f, base, plan.type2, m.size - plan.type2)
           /\ b.mSize = base + plan.type2
  BY DEF Holds
<1>5. b.mFragmentSize = P
  BY <1>1, <1>2, <1>4
<1>6. b = [g \in BucketFields |-> b[g]]
  BY DEF Assembling
<1>7. /\ c.mReceivedFragments = got \cup {k}
      /\ c.mOfFragmentNo = of /\ c.mStreamId = b.mStreamId
      /\ c.mFragmentSize = b.mFragmentSize
      /\ c.mpData = Write(b.mpData, P * k, s)
      /\ c.mType3Size = b.mType3Size /\ c.mType2Size = b.mType2Size
      /\ c.mPts = b.mPts /\ c.mDts = b.mDts /\ c.mPayload = b.mPayload
      /\ c.mSize = b.mSize
  BY ONLY <1>2, <1>4, <1>5, <1>6 DEF Store1, BucketFields, Type1Offset
<1>8. k # of /\ (plan.type3 > 0 => k # of - 1)
  BY ONLY <1>1, <1>2
<1> HIDE DEF c, plan, P, T, s
<1>9. P * k \in Nat /\ (P * k) + P <= T
  BY ONLY <1>1, <1>2
<1>10. ASSUME NEW i \in 0..(plan.type1 - 1), i \in got \cup {k}
       PROVE  Filled(c.mpData, f, P * i, P, P * i)
  <2>1. P \in Nat /\ P * i \in Nat
    BY ONLY <1>1, <1>10
  <2>2. CASE i = k
    BY <1>7, <1>9, <2>1, <2>2, WriteFills DEF s
  <2>3. CASE i # k
    <3>1. Filled(b.mpData, f, P * i, P, P * i)
      BY ONLY <1>4, <1>10, <2>3
    <3>2. i < k \/ k < i
      BY ONLY <1>1, <1>2, <1>10, <2>3
    <3>3. (P * i) + P <= P * k \/ (P * k) + P <= P * i
      BY ONLY <1>1, <1>2, <1>10, <3>2
    <3>4. (P * i) + P <= P * k \/ (P * k) + Len(s) <= P * i
      BY ONLY <1>3, <3>3
    <3>5. Len(s) \in Nat
      BY ONLY <1>3, <2>1
    <3>6. Filled(Write(b.mpData, P * k, s), f, P * i, P, P * i)
      BY <1>9, <2>1, <3>1, <3>4, <3>5, WriteKeeps
    <3> QED BY <1>7, <3>6
  <2> QED BY <2>2, <2>3
<1>11. ASSUME NEW at \in Nat, NEW len \in Nat, NEW from, T <= at,
              Filled(b.mpData, f, at, len, from)
       PROVE  Filled(c.mpData, f, at, len, from)
  <2>1. (P * k) + Len(s) <= at /\ Len(s) \in Nat
    BY ONLY <1>1, <1>3, <1>9, <1>11
  <2>2. Filled(Write(b.mpData, P * k, s), f, at, len, from)
    BY <1>9, <1>11, <2>1, WriteKeeps
  <2> QED BY <1>7, <2>2
<1>12. IF t3 THEN /\ c.mType3Size = plan.type3
                  /\ Filled(c.mpData, f, T, plan.type3, T)
       ELSE c.mType3Size = 0
  <2>1. T <= T
    BY <1>1
  <2> QED BY <1>1, <1>4, <1>7, <1>11, <2>1
<1>13. base \in Nat /\ T <= base
  BY ONLY <1>1
<1> HIDE DEF base
<1>14. of \in got =>
           /\ c.mType2Size = plan.type2
           /\ c.mPts = m.mPts /\ c.mDts = DtsSent(m)
           /\ c.mPayload = m.mPayload
           /\ Filled(c.mpData, f, base, plan.type2, m.size - plan.type2)
           /\ c.mSize = base + plan.type2
  BY <1>1, <1>4, <1>7, <1>11, <1>13
<1>15. /\ of \in c.mReceivedFragments <=> of \in got
       /\ plan.type3 > 0 =>
            (of - 1 \in c.mReceivedFragments <=> of - 1 \in got)
  BY ONLY <1>7, <1>8
<1> HIDE DEF of
<1> QED BY <1>4, <1>7, <1>10, <1>12, <1>14, <1>15 DEF Holds, base, plan, P, T, c, of

\* What the receiver takes the DTS for.
LEMMA DtsArrives ==
    ASSUME NEW m \in Frames
    PROVE  DtsOf(m.mPts, S!DtsPtsDiff(m.mPts, m.mDts)) = DtsSent(m)
<1> DEFINE a == m.mPts
           b == m.mDts
<1>1. /\ a \in Nat /\ b \in Nat /\ a <= UINT64_MAX /\ b <= UINT64_MAX
      /\ UINT32_MAX \in Nat /\ UINT64_MAX \in Nat
  BY LinkAssumption, WireAssumption
<1>2. /\ S!DtsPtsDiff(a, b) = IF /\ b # UINT64_MAX /\ a # UINT64_MAX /\ a >= b
                               /\ a - b <= UINT32_MAX - 1
                            THEN a - b ELSE UINT32_MAX
      /\ DtsSent(m) = IF b <= a /\ a - b < UINT32_MAX /\ a # UINT64_MAX
                        THEN b ELSE UINT64_MAX
  BY DEF S!DtsPtsDiff, DtsSent
<1> HIDE DEF a, b
<1>3. DtsOf(a, S!DtsPtsDiff(a, b)) = DtsSent(m)
  BY <1>1, <1>2 DEF DtsOf
<1> QED BY <1>3 DEF a, b

LEMMA Store2Holds ==
    ASSUME NEW m \in Frames, Accepted(m), NEW f, NEW n,
           NEW p \in Cuts(f, m, n), p.mFrameType = 2,
           NEW b, Assembling(b), Holds(b, f, m)
    PROVE  Holds(Store2(b, p), f, m)
<1> DEFINE plan == Plan(m)
           P == S!Payload
           of == plan.total - 1
           T == P * plan.type1
           c == Store2(b, p)
           s == S!Bytes(f, m.size - plan.type2, plan.type2)
           got == b.mReceivedFragments
           t3 == plan.type3 > 0 /\ of - 1 \in got
           base == IF plan.type3 > 0 /\ ~t3 THEN P * of ELSE m.size - plan.type2
<1>1. /\ P \in Nat \ {0} /\ of \in Nat /\ T \in Nat
      /\ plan.type1 \in Nat /\ plan.type3 \in Nat
      /\ plan.type2 \in Nat \ {0}
      /\ T + plan.type3 + plan.type2 = m.size
      /\ plan.type3 > 0 =>
           of = plan.type1 + 1 /\ P * of = T + P /\ P * (of - 1) = T
      /\ plan.type3 = 0 => of = plan.type1
      /\ \A i \in 0..(plan.type1 - 1) : P * i \in Nat /\ (P * i) + P <= T
  BY LayoutFacts
<1>2. /\ p.mOfFragmentNo = of /\ p.mSizeOfData = plan.type2
      /\ p.mPts = m.mPts /\ p.mPayload = m.mPayload
      /\ p.mDtsPtsDiff = S!DtsPtsDiff(m.mPts, m.mDts)
      /\ p.data = s
  BY CutFacts
<1>3. Len(s) = plan.type2 /\ m.size \in Nat
  BY <1>1, BytesLen, SenderFacts
<1>4. /\ b.mOfFragmentNo = of
      /\ b.mStreamId = m.mStreamId
      /\ of > 0 => b.mFragmentSize = P
      /\ \A i \in 0..(plan.type1 - 1) :
           i \in got => Filled(b.mpData, f, P * i, P, P * i)
      /\ IF t3 THEN /\ b.mType3Size = plan.type3
                    /\ Filled(b.mpData, f, T, plan.type3, T)
         ELSE b.mType3Size = 0
  BY DEF Holds
<1>5. b = [g \in BucketFields |-> b[g]] /\ b.mFragmentSize \in Nat
  BY DEF Assembling, Sized
<1> HIDE DEF P, T, plan, of
<1>6. Type2Offset(b.mFragmentSize, of, b.mType3Size) = base
  <2>1. CASE t3
    <3>1. b.mType3Size = plan.type3 /\ b.mFragmentSize = P
      BY ONLY <1>1, <1>4, <2>1
    <3>2. base = m.size - plan.type2
      BY ONLY <2>1
    <3> QED BY ONLY <1>1, <1>3, <2>1, <3>1, <3>2 DEF Type2Offset
  <2>2. CASE plan.type3 > 0 /\ ~t3
    <3>1. b.mType3Size = 0 /\ b.mFragmentSize = P
      BY ONLY <1>1, <1>4, <2>2
    <3> QED BY ONLY <1>1, <2>2, <3>1 DEF Type2Offset
  <2>3. CASE plan.type3 = 0
    <3>1. b.mType3Size = 0 /\ of = plan.type1 /\ base = m.size - plan.type2
      BY ONLY <1>1, <1>4, <2>3
    <3>2. CASE of = 0
      <4>1. b.mFragmentSize * 0 = 0 /\ P * 0 = 0
        BY ONLY <1>1, <1>5
      <4>2. b.mFragmentSize * of = 0 /\ T = 0
        BY ONLY <3>1, <3>2, <4>1 DEF T
      <4> QED BY ONLY <1>1, <1>3, <2>3, <3>1, <4>2 DEF Type2Offset
    <3>3. CASE of > 0
      <4>1. b.mFragmentSize * of = T
        BY ONLY <1>4, <3>1, <3>3 DEF T
      <4> QED BY ONLY <1>1, <1>3, <2>3, <3>1, <4>1 DEF Type2Offset
    <3> QED BY ONLY <1>1, <3>2, <3>3
  <2> QED BY ONLY <1>1, <2>1, <2>2, <2>3
<1>7. DtsOf(p.mPts, p.mDtsPtsDiff) = DtsSent(m)
  BY ONLY <1>2, DtsArrives, m \in Frames
<1> HIDE DEF base, s
<1>8. /\ c.mReceivedFragments = got \cup {of}
      /\ c.mOfFragmentNo = of /\ c.mStreamId = b.mStreamId
      /\ c.mFragmentSize = b.mFragmentSize
      /\ c.mpData = Write(b.mpData, base, s)
      /\ c.mType3Size = b.mType3Size
  BY ONLY <1>2, <1>4, <1>5, <1>6 DEF Store2, BucketFields
<1>9. /\ c.mType2Size = plan.type2
      /\ c.mPts = m.mPts /\ c.mDts = DtsSent(m) /\ c.mPayload = m.mPayload
      /\ c.mSize = base + plan.type2
  BY ONLY <1>2, <1>4, <1>5, <1>6, <1>7 DEF Store2, BucketFields
<1> HIDE DEF c
<1>10. base \in Nat /\ T <= base /\ (t3 => T + plan.type3 <= base)
  BY ONLY <1>1, <1>3 DEF base
<1>11. ASSUME NEW at \in Nat, NEW len \in Nat, NEW from, at + len <= base,
              Filled(b.mpData, f, at, len, from)
       PROVE  Filled(c.mpData, f, at, len, from)
  <2>1. Len(s) \in Nat
    BY ONLY <1>1, <1>3
  <2>2. Filled(Write(b.mpData, base, s), f, at, len, from)
    BY <1>10, <1>11, <2>1, WriteKeeps
  <2> QED BY <1>8, <2>2
<1>12. \A i \in 0..(plan.type1 - 1) :
         i \in got \cup {of} => Filled(c.mpData, f, P * i, P, P * i)
  <2> TAKE i \in 0..(plan.type1 - 1)
  <2> HAVE i \in got \cup {of}
  <2>1. i # of /\ P * i \in Nat /\ P \in Nat /\ (P * i) + P <= base
    BY ONLY <1>1, <1>10, i \in 0..(plan.type1 - 1)
  <2> QED BY <1>4, <1>11, <2>1
<1>13. IF t3 THEN /\ c.mType3Size = plan.type3
                  /\ Filled(c.mpData, f, T, plan.type3, T)
       ELSE c.mType3Size = 0
  BY <1>1, <1>4, <1>8, <1>10, <1>11
<1>14. Filled(c.mpData, f, base, plan.type2, m.size - plan.type2)
  <2>1. plan.type2 \in Nat /\ m.size - plan.type2 \in Nat
    BY ONLY <1>1, <1>3
  <2> QED BY <1>8, <1>10, <2>1, WriteFills DEF s
<1>15. of - 1 \in c.mReceivedFragments <=> of - 1 \in got
  BY ONLY <1>1, <1>8
<1> QED BY <1>4, <1>8, <1>9, <1>12, <1>13, <1>14, <1>15
        DEF Holds, base, plan, P, T, c, of

LEMMA Store3Holds ==
    ASSUME NEW m \in Frames, Accepted(m), NEW f, NEW n,
           NEW p \in Cuts(f, m, n), p.mFrameType = 3,
           NEW b, Assembling(b), Holds(b, f, m),
           p.mOfFragmentNo - 1 \notin b.mReceivedFragments
    PROVE  Holds(Store3(b, p), f, m)
<1> DEFINE plan == Plan(m)
           P == S!Payload
           of == plan.total - 1
           T == P * plan.type1
           c == Store3(b, p)
           s == S!Bytes(f, T, plan.type3)
           got == b.mReceivedFragments
           final == of \in got
           behind == T + plan.type3
           source == IF final
                       THEN Move(b.mpData, behind, P * of, plan.type2)
                       ELSE b.mpData
<1>1. /\ P \in Nat \ {0} /\ of \in Nat /\ T \in Nat
      /\ plan.type1 \in Nat /\ plan.type3 \in Nat
      /\ plan.type2 \in Nat \ {0}
      /\ T + plan.type3 + plan.type2 = m.size
      /\ plan.type3 > 0 =>
           of = plan.type1 + 1 /\ P * of = T + P /\ P * (of - 1) = T
      /\ \A i \in 0..(plan.type1 - 1) : P * i \in Nat /\ (P * i) + P <= T
  BY LayoutFacts
<1>2. /\ p.mOfFragmentNo = of /\ plan.type3 > 0
      /\ p.data = s
  BY CutFacts
<1>3. Len(s) = plan.type3 /\ m.size \in Nat
  BY <1>1, BytesLen, SenderFacts
<1>4. of - 1 \notin got
  BY <1>2
<1>5. /\ b.mOfFragmentNo = of
      /\ b.mStreamId = m.mStreamId
      /\ b.mFragmentSize = P
      /\ \A i \in 0..(plan.type1 - 1) :
           i \in got => Filled(b.mpData, f, P * i, P, P * i)
      /\ final =>
           /\ b.mType2Size = plan.type2
           /\ b.mPts = m.mPts /\ b.mDts = DtsSent(m)
           /\ b.mPayload = m.mPayload
           /\ Filled(b.mpData, f, P * of, plan.type2, m.size - plan.type2)
           /\ b.mSize = (P * of) + plan.type2
  <2>1. of > 0
    BY <1>1, <1>2
  <2> QED BY <1>2, <1>4, <2>1 DEF Holds
<1>6. b = [g \in BucketFields |-> b[g]] /\ (~final => b.mType2Size = 0)
  BY <1>5 DEF Assembling, Sized
<1> HIDE DEF P, T, plan, of, s
<1>7. Type3Offset(P, of) = T
  BY <1>1, <1>2 DEF Type3Offset
<1>8. /\ c.mReceivedFragments = got \cup {of - 1}
      /\ c.mOfFragmentNo = of /\ c.mStreamId = b.mStreamId
      /\ c.mFragmentSize = P
      /\ c.mType3Size = plan.type3
      /\ c.mType2Size = b.mType2Size
      /\ c.mPts = b.mPts /\ c.mDts = b.mDts /\ c.mPayload = b.mPayload
  BY ONLY <1>2, <1>3, <1>5, <1>6 DEF Store3, BucketFields
<1>9. final => c.mSize = behind + plan.type2
  <2> SUFFICES ASSUME final
               PROVE  c.mSize = behind + plan.type2
    OBVIOUS
  <2>1. b.mType2Size = plan.type2 /\ plan.type2 > 0
    BY <1>1, <1>5
  <2>2. p.mOfFragmentNo \in b.mReceivedFragments
    BY <1>2
  <2> QED BY ONLY <1>2, <1>3, <1>5, <1>6, <1>7, <2>1, <2>2
          DEF Store3, BucketFields
<1>10. c.mpData = Write(source, T, s)
  <2>1. CASE final
    <3>1. b.mType2Size = plan.type2 /\ plan.type2 > 0
      BY <1>1, <1>5, <2>1
    <3>2. p.mOfFragmentNo \in b.mReceivedFragments
      BY <1>2, <2>1
    <3> QED BY ONLY <1>2, <1>3, <1>5, <1>6, <1>7, <2>1, <3>1, <3>2
            DEF Store3, BucketFields
  <2>2. CASE ~final
    <3>1. p.mOfFragmentNo \notin b.mReceivedFragments
      BY <1>2, <2>2
    <3> QED BY ONLY <1>2, <1>5, <1>6, <1>7, <2>2, <3>1
            DEF Store3, BucketFields
  <2> QED BY <2>1, <2>2
<1> HIDE DEF c
<1>11. /\ behind \in Nat /\ m.size - plan.type2 = behind /\ behind \in Nat
       /\ P * of \in Nat
  BY ONLY <1>1, <1>2, <1>3
<1>12. ASSUME NEW i \in 0..(plan.type1 - 1), i \in got \cup {of - 1}
       PROVE  Filled(c.mpData, f, P * i, P, P * i)
  <2>1. /\ i # of - 1 /\ P * i \in Nat /\ P \in Nat /\ (P * i) + P <= T
        /\ (P * i) + P <= behind
    BY ONLY <1>1, <1>2, <1>12
  <2>2. Filled(b.mpData, f, P * i, P, P * i)
    BY <1>5, <1>12, <2>1
  <2>3. Filled(source, f, P * i, P, P * i)
    <3>1. CASE final
      <4>1. plan.type2 \in Nat
        BY <1>1
      <4>2. Filled(Move(b.mpData, behind, P * of, plan.type2), f, P * i, P, P * i)
        BY <1>11, <2>1, <2>2, <4>1, MoveKeeps
      <4> QED BY <3>1, <4>2
    <3>2. CASE ~final
      BY <2>2, <3>2
    <3> QED BY <3>1, <3>2
  <2> HIDE DEF source
  <2>4. Len(s) \in Nat /\ T \in Nat
    BY ONLY <1>1, <1>3
  <2>5. Filled(Write(source, T, s), f, P * i, P, P * i)
    BY <2>1, <2>3, <2>4, WriteKeeps
  <2> QED BY <1>10, <2>5
<1>13. Filled(c.mpData, f, T, plan.type3, T)
  <2> HIDE DEF source
  <2>1. T \in Nat /\ plan.type3 \in Nat
    BY <1>1
  <2>2. Filled(Write(source, T, S!Bytes(f, T, plan.type3)), f, T, plan.type3, T)
    BY <2>1, WriteFills
  <2> QED BY <1>10, <2>2 DEF s
<1>14. final =>
         Filled(c.mpData, f, m.size - plan.type2, plan.type2,
                m.size - plan.type2)
  <2> SUFFICES ASSUME final
               PROVE  Filled(c.mpData, f, behind, plan.type2, behind)
    BY <1>11
  <2>1. plan.type2 \in Nat /\ Len(s) \in Nat /\ T \in Nat /\ T + Len(s) <= behind
    BY ONLY <1>1, <1>3
  <2>2. Filled(b.mpData, f, P * of, plan.type2, behind)
    BY <1>5, <1>11
  <2>3. Filled(Move(b.mpData, behind, P * of, plan.type2), f, behind,
               plan.type2, behind)
    BY <1>11, <2>1, <2>2, MoveFills
  <2>4. Filled(source, f, behind, plan.type2, behind)
    BY <2>3
  <2> HIDE DEF source, behind
  <2>5. Filled(Write(source, T, s), f, behind, plan.type2, behind)
    BY <1>11, <2>1, <2>4, WriteKeeps
  <2> QED BY <1>10, <2>5
<1>15. /\ of - 1 \in c.mReceivedFragments
       /\ of \in c.mReceivedFragments <=> final
  BY <1>1, <1>8
<1>16. final => c.mSize = (m.size - plan.type2) + plan.type2
  BY <1>9, <1>11
<1> QED BY <1>2, <1>5, <1>8, <1>12, <1>13, <1>14, <1>15, <1>16
        DEF Holds, plan, P, T, c, of

------------------------------------------------------------------------------
(***************************************************************************)
(* The first fragment of a SuperFrame to arrive opens its bucket.          *)
(***************************************************************************)
LEMMA First1Holds ==
    ASSUME NEW m \in Frames, Accepted(m), NEW f, NEW n,
           NEW p \in Cuts(f, m, n), p.mFrameType = 1,
           NEW r, NEW aSourceId, NEW order
    PROVE  Holds(Opened(p, aSourceId, order, First1(r, p)), f, m)
<1> DEFINE plan == Plan(m)
           P == S!Payload
           of == plan.total - 1
           g == First1(r, p)
           c == Opened(p, aSourceId, order, g)
           k == p.mFragmentNo
<1>1. /\ P \in Nat \ {0} /\ of \in Nat
      /\ plan.type1 \in Nat /\ plan.type3 \in Nat
      /\ plan.type3 > 0 => of = plan.type1 + 1
      /\ plan.type3 = 0 => of = plan.type1
      /\ \A i \in 0..(plan.type1 - 1) : P * i \in Nat
  BY LayoutFacts
<1>2. /\ p.mOfFragmentNo = of /\ p.mStreamId = m.mStreamId
      /\ k \in 0..(plan.type1 - 1) /\ p.data = S!Bytes(f, P * k, P)
  BY CutFacts
<1> HIDE DEF P, plan, of
<1>3. Len(p.data) = P
  BY <1>1, <1>2, BytesLen
<1>4. /\ g.fragment = k /\ g.fragmentSize = P /\ g.type3Size = 0
      /\ g.offset = P * k
  BY <1>3 DEF First1, Type1Offset
<1> HIDE DEF g
<1>5. /\ c.mOfFragmentNo = of /\ c.mStreamId = m.mStreamId
      /\ c.mFragmentSize = P /\ c.mReceivedFragments = {k}
      /\ c.mType3Size = 0
      /\ c.mpData = Write([i \in 0..(g.alloc - 1) |-> Junk], P * k, p.data)
  BY <1>2, <1>4 DEF Opened
<1> HIDE DEF c
<1>6. Filled(c.mpData, f, P * k, P, P * k)
  <2>1. P * k \in Nat /\ P \in Nat
    BY <1>1, <1>2
  <2> DEFINE fresh == [i \in 0..(g.alloc - 1) |-> Junk]
  <2> HIDE DEF fresh
  <2>2. Filled(Write(fresh, P * k, S!Bytes(f, P * k, P)), f, P * k, P, P * k)
    BY <2>1, WriteFills
  <2> QED BY <1>2, <1>5, <2>2 DEF fresh
<1>7. k # of /\ (plan.type3 > 0 => k # of - 1)
  BY <1>1, <1>2
<1> QED BY <1>5, <1>6, <1>7 DEF Holds, P, plan, of, c, g

LEMMA First2Holds ==
    ASSUME NEW m \in Frames, Accepted(m), NEW f, NEW n,
           NEW p \in Cuts(f, m, n), p.mFrameType = 2,
           NEW aSourceId, NEW order
    PROVE  Holds(Opened(p, aSourceId, order, First2(p)), f, m)
<1> DEFINE plan == Plan(m)
           P == S!Payload
           of == plan.total - 1
           T == P * plan.type1
           g == First2(p)
           c == Opened(p, aSourceId, order, g)
           from == m.size - plan.type2
           base == IF plan.type3 > 0 THEN P * of ELSE from
<1>1. /\ P \in Nat \ {0} /\ of \in Nat /\ T \in Nat
      /\ plan.type1 \in Nat /\ plan.type3 \in Nat
      /\ plan.type2 \in Nat \ {0}
      /\ T + plan.type3 + plan.type2 = m.size
      /\ plan.type3 > 0 => of = plan.type1 + 1 /\ P * of = T + P
      /\ plan.type3 = 0 => of = plan.type1
      /\ m.size \in Nat
  BY LayoutFacts, SenderFacts
<1>2. /\ p.mOfFragmentNo = of /\ p.mStreamId = m.mStreamId
      /\ p.mSizeOfData = plan.type2
      /\ plan.total # 1 => p.mType1PacketSize = P
      /\ plan.total = 1 => p.mType1PacketSize = 0
      /\ p.mPts = m.mPts /\ p.mPayload = m.mPayload
      /\ p.mDtsPtsDiff = S!DtsPtsDiff(m.mPts, m.mDts)
      /\ p.data = S!Bytes(f, from, plan.type2)
  BY CutFacts
<1>3. /\ of > 0 => p.mType1PacketSize = P
      /\ of = 0 => p.mType1PacketSize = 0
  <2>1. plan.total \in Int
    BY PlanFacts
  <2> HIDE DEF plan
  <2> QED BY <1>1, <1>2, <2>1
<1> HIDE DEF P, plan, of
<1>4. p.mType1PacketSize * of = base
  <2>1. CASE of = 0
    <3>1. 0 * 0 = 0 /\ P * 0 = 0
      BY <1>1
    <3>2. plan.type3 = 0 /\ T = 0
      BY <1>1, <2>1, <3>1
    <3>3. m.size = plan.type2
      <4> HIDE DEF T
      <4> QED BY ONLY <1>1, <3>2
    <3>4. base = 0
      BY ONLY <1>1, <3>2, <3>3
    <3>5. p.mType1PacketSize * of = 0
      BY ONLY <1>3, <2>1, <3>1
    <3> QED BY ONLY <3>4, <3>5
  <2>2. CASE of > 0
    BY <1>1, <1>3, <2>2
  <2> QED BY <1>1, <2>1, <2>2
<1>5. DtsOf(p.mPts, p.mDtsPtsDiff) = DtsSent(m)
  BY ONLY <1>2, DtsArrives, m \in Frames
<1> HIDE DEF base, T
<1>6. /\ g.fragment = of /\ g.fragmentSize = p.mType1PacketSize
      /\ g.type3Size = 0 /\ g.type2Size = plan.type2
      /\ g.mPts = m.mPts /\ g.mDts = DtsSent(m) /\ g.mPayload = m.mPayload
      /\ g.alloc = base + plan.type2 /\ g.offset = base
  BY <1>2, <1>4, <1>5 DEF First2, Type2Offset
<1> HIDE DEF g
<1>7. /\ c.mOfFragmentNo = of /\ c.mStreamId = m.mStreamId
      /\ c.mFragmentSize = p.mType1PacketSize /\ c.mReceivedFragments = {of}
      /\ c.mType3Size = 0 /\ c.mType2Size = plan.type2
      /\ c.mPts = m.mPts /\ c.mDts = DtsSent(m) /\ c.mPayload = m.mPayload
      /\ c.mSize = base + plan.type2
      /\ c.mpData = Write([i \in 0..(g.alloc - 1) |-> Junk], base, p.data)
  BY <1>2, <1>6 DEF Opened
<1> HIDE DEF c
<1>8. Filled(c.mpData, f, base, plan.type2, from)
  <2>1. base \in Nat /\ from \in Nat /\ plan.type2 \in Nat
    BY <1>1 DEF base
  <2> DEFINE fresh == [i \in 0..(g.alloc - 1) |-> Junk]
  <2> HIDE DEF fresh, from
  <2>2. Filled(Write(fresh, base, S!Bytes(f, from, plan.type2)), f, base,
               plan.type2, from)
    BY <2>1, WriteFills
  <2> QED BY <1>2, <1>7, <2>2 DEF fresh
<1>9. of - 1 # of /\ \A i \in 0..(plan.type1 - 1) : i # of
  BY <1>1
<1> QED BY <1>3, <1>7, <1>8, <1>9 DEF Holds, P, plan, of, c, g, base

LEMMA First3Holds ==
    ASSUME NEW m \in Frames, Accepted(m), NEW f, NEW n,
           NEW p \in Cuts(f, m, n), p.mFrameType = 3,
           NEW r, NEW aSourceId, NEW order
    PROVE  Holds(Opened(p, aSourceId, order, First3(r, p)), f, m)
<1> DEFINE plan == Plan(m)
           P == S!Payload
           of == plan.total - 1
           T == P * plan.type1
           g == First3(r, p)
           c == Opened(p, aSourceId, order, g)
<1>1. /\ P \in Nat \ {0} /\ of \in Nat /\ T \in Nat
      /\ plan.type1 \in Nat /\ plan.type3 \in Nat
      /\ plan.type3 > 0 => of = plan.type1 + 1 /\ P * (of - 1) = T
  BY LayoutFacts
<1>2. /\ p.mOfFragmentNo = of /\ p.mStreamId = m.mStreamId
      /\ plan.type3 > 0 /\ p.mType1PacketSize = P
      /\ p.data = S!Bytes(f, T, plan.type3)
  BY CutFacts
<1> HIDE DEF P, plan, of, T
<1>3. Len(p.data) = plan.type3
  BY <1>1, <1>2, BytesLen
<1>4. /\ g.fragment = of - 1 /\ g.fragmentSize = P
      /\ g.type3Size = plan.type3 /\ g.offset = T
  BY <1>1, <1>2, <1>3 DEF First3, Type3Offset
<1> HIDE DEF g
<1>5. /\ c.mOfFragmentNo = of /\ c.mStreamId = m.mStreamId
      /\ c.mFragmentSize = P /\ c.mReceivedFragments = {of - 1}
      /\ c.mType3Size = plan.type3
      /\ c.mpData = Write([i \in 0..(g.alloc - 1) |-> Junk], T, p.data)
  BY <1>2, <1>4 DEF Opened
<1> HIDE DEF c
<1>6. Filled(c.mpData, f, T, plan.type3, T)
  <2>1. T \in Nat /\ plan.type3 \in Nat
    BY <1>1
  <2> DEFINE fresh == [i \in 0..(g.alloc - 1) |-> Junk]
  <2> HIDE DEF fresh
  <2>2. Filled(Write(fresh, T, S!Bytes(f, T, plan.type3)), f, T, plan.type3, T)
    BY <2>1, WriteFills
  <2> QED BY <1>2, <1>5, <2>2 DEF fresh
<1>7. of - 1 # of /\ \A i \in 0..(plan.type1 - 1) : i # of - 1
  BY <1>1, <1>2
<1> QED BY <1>2, <1>5, <1>6, <1>7 DEF Holds, P, plan, of, T, c, g

\* A complete bucket holds its SuperFrame, byte for byte.
LEMMA CompleteContent ==
    ASSUME NEW m \in Frames, Accepted(m), NEW f,
           NEW b, Counted(b), Holds(b, f, m), Complete(b)
    PROVE  Received(FrameOf(b)) = Content(f, m)
<1> DEFINE plan == Plan(m)
           P == S!Payload
           of == plan.total - 1
           T == P * plan.type1
           got == b.mReceivedFragments
           from == m.size - plan.type2
<1>1. /\ P \in Nat \ {0} /\ of \in Nat /\ T \in Nat
      /\ plan.type1 \in Nat /\ plan.type3 \in Nat
      /\ plan.type2 \in Nat \ {0}
      /\ T + plan.type3 + plan.type2 = m.size
      /\ plan.type3 > 0 => of = plan.type1 + 1
      /\ plan.type3 = 0 => of = plan.type1
      /\ m.size \in Nat
  BY LayoutFacts, SenderFacts
<1>2. b.mOfFragmentNo = of
  BY DEF Holds
<1> HIDE DEF P, plan, of, T
<1>3. got = 0..of
  <2>1. /\ IsFiniteSet(0..of) /\ Cardinality(0..of) = of + 1
    <3>1. 0 \in Int /\ of \in Int /\ ~(0 > of) /\ (of - 0) + 1 = of + 1
      BY <1>1
    <3> QED BY <3>1, FS_Interval
  <2>2. got \subseteq 0..of /\ Cardinality(got) = of + 1
    BY <1>2 DEF Counted, Complete
  <2> QED BY <2>1, <2>2, FS_Subset
<1>4. /\ b.mStreamId = m.mStreamId
      /\ b.mPts = m.mPts /\ b.mDts = DtsSent(m) /\ b.mPayload = m.mPayload
      /\ b.mSize = from + plan.type2
      /\ \A k \in 0..(plan.type1 - 1) : Filled(b.mpData, f, P * k, P, P * k)
      /\ plan.type3 > 0 => Filled(b.mpData, f, T, plan.type3, T)
      /\ Filled(b.mpData, f, from, plan.type2, from)
  <2>1. of \in got /\ (plan.type3 > 0 => of - 1 \in got)
        /\ \A k \in 0..(plan.type1 - 1) : k \in got
    BY ONLY <1>1, <1>3
  <2> QED BY <2>1 DEF Holds, P, plan, of, T
<1>5. b.mSize = m.size
  BY ONLY <1>1, <1>4
<1>6. ASSUME NEW k \in 0..(m.size - 1)
      PROVE  b.mpData[k] = <<f, k>>
  <2>1. CASE k < T
    <3> DEFINE q == k \div P
               j == k % P
    <3>1. q \in Nat /\ j \in 0..(P - 1) /\ k = (P * q) + j
      <4>1. k \in Nat
        BY <1>1
      <4> QED BY <1>1, <4>1, DivMod
    <3> HIDE DEF q, j
    <3>2. q < plan.type1
      <4> SUFFICES ASSUME plan.type1 <= q
                   PROVE  FALSE
        BY <1>1, <3>1
      <4>1. P * plan.type1 <= P * q /\ P * q \in Nat
        BY <1>1, <3>1, TimesMore
      <4> QED BY <1>1, <2>1, <3>1, <4>1 DEF T
    <3>3. q \in 0..(plan.type1 - 1)
      BY ONLY <1>1, <3>1, <3>2
    <3> QED BY <1>4, <3>1, <3>3 DEF Filled
  <2>2. CASE T <= k /\ k < T + plan.type3
    <3>1. plan.type3 > 0 /\ k - T \in 0..(plan.type3 - 1) /\ T + (k - T) = k
      BY ONLY <1>1, <2>2, k \in 0..(m.size - 1)
    <3> QED BY <1>4, <3>1 DEF Filled
  <2>3. CASE T + plan.type3 <= k
    <3>1. k - from \in 0..(plan.type2 - 1) /\ from + (k - from) = k
      BY ONLY <1>1, <2>3, k \in 0..(m.size - 1)
    <3> HIDE DEF from
    <3> QED BY <1>4, <3>1 DEF Filled
  <2> QED BY <1>1, <2>1, <2>2, <2>3
<1>7. [k \in 0..(b.mSize - 1) |-> [i \in 0..(b.mSize - 1) |-> b.mpData[i]][k]]
        = [k \in 0..(m.size - 1) |-> <<f, k>>]
  BY <1>5, <1>6
<1> QED BY <1>4, <1>7 DEF Received, Content, FrameOf

------------------------------------------------------------------------------
(***************************************************************************)
(* What a handler makes of the ring, for a fragment p of the f-th          *)
(* SuperFrame, m.                                                          *)
(***************************************************************************)
OthersStay(r, r2, s) ==
    \A t \in 0..(Slots - 1) : t # s => r2.mpBuckets[t] = r.mpBuckets[t]

Opens(r, r2, p, f, m) ==
    LET s  == Slot(p.mSuperFrameNo)
        b  == r.mpBuckets[s]
        c  == r2.mpBuckets[s]
        r1 == recalculateSuperFrameNo(r, p.mSuperFrameNo)
    IN  /\ ~b.mActive
        /\ r2.mFrameNoRecalc = r1.mFrameNoRecalc /\ ~r2.mFirstFrame
        /\ \/ c = b
           \/ /\ c.mDeliveryOrder = r1.mFrameNoRecalc
              /\ c.mDeliveryOrder # b.mDeliveryOrder
              /\ c.mActive => /\ c.mSavedFrameNo = p.mSuperFrameNo
                              /\ Holds(c, f, m)

Stores(r, r2, p, f, m) ==
    LET s == Slot(p.mSuperFrameNo)
        b == r.mpBuckets[s]
        c == r2.mpBuckets[s]
    IN  /\ b.mActive /\ c.mActive
        /\ r2.mFrameNoRecalc = r.mFrameNoRecalc
        /\ r2.mFirstFrame = r.mFirstFrame
        /\ p.mSuperFrameNo = b.mSavedFrameNo
        /\ c.mSavedFrameNo = b.mSavedFrameNo
        /\ c.mDeliveryOrder = b.mDeliveryOrder
        /\ Holds(b, f, m) => Holds(c, f, m)

Settles(r, r2, p, f, m) ==
    LET s == Slot(p.mSuperFrameNo)
    IN  /\ OthersStay(r, r2, s)
        /\ \/ /\ r2.mpBuckets[s] = r.mpBuckets[s]
              /\ r2.mFrameNoRecalc = r.mFrameNoRecalc
              /\ r2.mFirstFrame = r.mFirstFrame
           \/ Opens(r, r2, p, f, m)
           \/ Stores(r, r2, p, f, m)

LEMMA RecalcFields ==
    ASSUME NEW r, NumbersOK(r), NEW n
    PROVE  LET r1 == recalculateSuperFrameNo(r, n)
           IN  /\ r1 = [mpBuckets |-> r.mpBuckets, mBucketMap |-> r.mBucketMap,
                        mStreams |-> r.mStreams, mOldFrameNo |-> n,
                        mFrameNoRecalc |-> r1.mFrameNoRecalc,
                        mFirstFrame |-> FALSE]
               /\ r1.mFrameNoRecalc =
                    IF r.mFirstFrame THEN n
                    ELSE r.mFrameNoRecalc + SignedDelta(n, r.mOldFrameNo)
<1> DEFINE r1 == recalculateSuperFrameNo(r, n)
           order == IF r.mFirstFrame THEN n
                    ELSE r.mFrameNoRecalc + SignedDelta(n, r.mOldFrameNo)
<1>1. r = [mpBuckets |-> r.mpBuckets, mBucketMap |-> r.mBucketMap,
           mStreams |-> r.mStreams, mOldFrameNo |-> r.mOldFrameNo,
           mFrameNoRecalc |-> r.mFrameNoRecalc, mFirstFrame |-> r.mFirstFrame]
  BY DEF NumbersOK
<1>2. r1 = [[[r EXCEPT !.mOldFrameNo = n] EXCEPT !.mFrameNoRecalc = order]
              EXCEPT !.mFirstFrame = FALSE]
  BY DEF recalculateSuperFrameNo
<1> HIDE DEF r1, order
<1>3. r1 = [mpBuckets |-> r.mpBuckets, mBucketMap |-> r.mBucketMap,
            mStreams |-> r.mStreams, mOldFrameNo |-> n,
            mFrameNoRecalc |-> order, mFirstFrame |-> FALSE]
  BY ONLY <1>1, <1>2
<1>4. r1.mFrameNoRecalc = order
  BY <1>3
<1> QED BY <1>3, <1>4 DEF r1, order

LEMMA OpenSettles ==
    ASSUME NEW r, RxInv(r), NEW p, FragmentHeader(p), NEW aSourceId, NEW g,
           NEW memory, NEW f, NEW m,
           ~r.mpBuckets[Slot(p.mSuperFrameNo)].mActive,
           \A order : Holds(Opened(p, aSourceId, order, g), f, m)
    PROVE  Settles(r, OpenBucket(r, p, aSourceId, g, memory).rx, p, f, m)
<1> DEFINE h == OpenBucket(r, p, aSourceId, g, memory)
           r1 == recalculateSuperFrameNo(r, p.mSuperFrameNo)
           s == Slot(p.mSuperFrameNo)
           b == r.mpBuckets[s]
           order == r1.mFrameNoRecalc
           none == [mActive |-> FALSE, mDeliveryOrder |-> order]
           new == Opened(p, aSourceId, order, g)
<1>1. NumbersOK(r) /\ s \in 0..(Slots - 1)
  BY ActiveBucket DEF RxInv
<1>2. r1 = [mpBuckets |-> r.mpBuckets, mBucketMap |-> r.mBucketMap,
            mStreams |-> r.mStreams, mOldFrameNo |-> p.mSuperFrameNo,
            mFrameNoRecalc |-> r1.mFrameNoRecalc, mFirstFrame |-> FALSE]
  BY <1>1, RecalcFields
<1>3. r.mpBuckets = [t \in 0..(Slots - 1) |-> r.mpBuckets[t]]
  BY DEF RxInv, RingOK
<1>4. /\ new.mDeliveryOrder = order /\ new.mSavedFrameNo = p.mSuperFrameNo
      /\ Holds(new, f, m)
  BY DEF Opened
<1> HIDE DEF r1, new
<1>5. \/ h.rx.mpBuckets = r.mpBuckets
      \/ /\ h.rx.mpBuckets = [r.mpBuckets EXCEPT ![s] = none]
         /\ order # b.mDeliveryOrder
      \/ /\ h.rx.mpBuckets = [r.mpBuckets EXCEPT ![s] = new]
         /\ order # b.mDeliveryOrder
  BY ONLY <1>2 DEF OpenBucket, r1, new
<1>6. h.rx.mFrameNoRecalc = order /\ h.rx.mFirstFrame = FALSE
  BY ONLY <1>2 DEF OpenBucket, r1, new
<1> HIDE DEF h, s
<1>7. \A t \in 0..(Slots - 1) : t # s => h.rx.mpBuckets[t] = r.mpBuckets[t]
  BY <1>3, <1>5
<1>8. \/ h.rx.mpBuckets[s] = b
      \/ h.rx.mpBuckets[s] = none /\ order # b.mDeliveryOrder
      \/ h.rx.mpBuckets[s] = new /\ order # b.mDeliveryOrder
  BY <1>1, <1>3, <1>5
<1>9. ~b.mActive
  BY DEF s
<1> QED BY <1>4, <1>6, <1>7, <1>8, <1>9 DEF Settles, OthersStay, Opens, s, r1, h

LEMMA StoreSettles ==
    ASSUME NEW r, RxInv(r), NEW p, FragmentHeader(p), NEW f, NEW m, NEW c,
           NEW r2, NEW streams,
           r2 = WithRing(r, [r.mpBuckets EXCEPT ![Slot(p.mSuperFrameNo)] = c],
                         r.mBucketMap, streams),
           LET b == r.mpBuckets[Slot(p.mSuperFrameNo)]
           IN  /\ b.mActive /\ c.mActive
               /\ p.mSuperFrameNo = b.mSavedFrameNo
               /\ c.mSavedFrameNo = b.mSavedFrameNo
               /\ c.mDeliveryOrder = b.mDeliveryOrder
               /\ Holds(b, f, m) => Holds(c, f, m)
    PROVE  Settles(r, r2, p, f, m)
<1> DEFINE s == Slot(p.mSuperFrameNo)
<1>1. s \in 0..(Slots - 1)
  BY ActiveBucket
<1>2. r.mpBuckets = [t \in 0..(Slots - 1) |-> r.mpBuckets[t]]
  BY DEF RxInv, RingOK
<1>3. /\ r2.mpBuckets = [r.mpBuckets EXCEPT ![s] = c]
      /\ r2.mFrameNoRecalc = r.mFrameNoRecalc
      /\ r2.mFirstFrame = r.mFirstFrame
  BY DEF WithRing
<1> HIDE DEF s
<1>4. r2.mpBuckets[s] = c
  BY <1>1, <1>2, <1>3
<1>5. \A t \in 0..(Slots - 1) : t # s => r2.mpBuckets[t] = r.mpBuckets[t]
  BY <1>2, <1>3
<1> QED BY <1>3, <1>4, <1>5 DEF Settles, OthersStay, Stores, s

LEMMA RefusedSettles ==
    ASSUME NEW r, NEW p, NEW f, NEW m
    PROVE  Settles(r, r, p, f, m)
  BY DEF Settles, OthersStay

\* A fragment's store keeps what names the bucket.
LEMMA StoreFields ==
    ASSUME NEW b, Assembling(b), NEW p
    PROVE  \A c \in {Store1(b, p), Store2(b, p), Store3(b, p)} :
             /\ c.mActive /\ c.mSavedFrameNo = b.mSavedFrameNo
             /\ c.mDeliveryOrder = b.mDeliveryOrder
<1>1. b = [f \in BucketFields |-> b[f]] /\ b.mActive
  BY DEF Assembling
<1>2. /\ Store1(b, p).mActive /\ Store1(b, p).mSavedFrameNo = b.mSavedFrameNo
      /\ Store1(b, p).mDeliveryOrder = b.mDeliveryOrder
  BY <1>1 DEF Store1, BucketFields
<1>3. /\ Store2(b, p).mActive /\ Store2(b, p).mSavedFrameNo = b.mSavedFrameNo
      /\ Store2(b, p).mDeliveryOrder = b.mDeliveryOrder
  BY <1>1 DEF Store2, BucketFields
<1>4. /\ Store3(b, p).mActive /\ Store3(b, p).mSavedFrameNo = b.mSavedFrameNo
      /\ Store3(b, p).mDeliveryOrder = b.mDeliveryOrder
  BY <1>1 DEF Store3, BucketFields
<1> QED BY <1>2, <1>3, <1>4

LEMMA HandleSettles ==
    ASSUME NEW r, RxInv(r), NEW m \in Frames, Accepted(m), NEW f, NEW n,
           NEW p \in Cuts(f, m, n), FragmentHeader(p),
           NEW aSourceId, NEW memory
    PROVE  Settles(r, Handle(r, p, aSourceId, memory).rx, p, f, m)
<1> DEFINE s == Slot(p.mSuperFrameNo)
           b == r.mpBuckets[s]
           h == Handle(r, p, aSourceId, memory)
<1>1. p.mFrameType = 1 \/ p.mFrameType = 2 \/ p.mFrameType = 3
  BY DEF FragmentHeader
<1>2. s \in 0..(Slots - 1) /\ (b.mActive => Assembling(b))
  BY ActiveBucket
<1>3. NumbersOK(r)
  BY DEF RxInv
<1>4. \A result : Settles(r, Refused(r, result).rx, p, f, m)
  BY RefusedSettles DEF Refused
<1>5. \A g : /\ ~b.mActive
             /\ \A order : Holds(Opened(p, aSourceId, order, g), f, m)
             => Settles(r, OpenBucket(r, p, aSourceId, g, memory).rx, p, f, m)
  BY OpenSettles
<1>6. \A c, r2, streams :
        /\ r2 = WithRing(r, [r.mpBuckets EXCEPT ![s] = c],
                         r.mBucketMap, streams)
        /\ b.mActive /\ c.mActive
        /\ p.mSuperFrameNo = b.mSavedFrameNo
        /\ c.mSavedFrameNo = b.mSavedFrameNo
        /\ c.mDeliveryOrder = b.mDeliveryOrder
        /\ Holds(b, f, m) => Holds(c, f, m)
        => Settles(r, r2, p, f, m)
  BY StoreSettles
<1>7. \A c : Stored(r, s, c).rx = WithRing(r, [r.mpBuckets EXCEPT ![s] = c],
                                           r.mBucketMap, r.mStreams)
  <2> TAKE c
  <2> QED BY <1>3, StoredRx
<1>8. Mismatch(b, p, aSourceId) = "OK" => p.mSuperFrameNo = b.mSavedFrameNo
  BY DEF Mismatch
<1>9. CASE p.mFrameType = 1
  <2> DEFINE c == Store1(b, p)
             g == First1(r, p)
  <2>1. \/ \E result : h = Refused(r, result)
        \/ ~b.mActive /\ h = OpenBucket(r, p, aSourceId, g, memory)
        \/ /\ b.mActive /\ Refusal1(b, p, aSourceId) = "OK"
           /\ h = Stored(r, s, c)
    <3>1. h = handleType1(r, p, aSourceId, memory)
      BY <1>9 DEF Handle
    <3> HIDE DEF h, g, c
    <3>2. CASE p.mOfFragmentNo >= MAX_FRAGMENTS_PER_SUPERFRAME
                 \/ p.mFragmentNo > p.mOfFragmentNo
      BY <3>1, <3>2 DEF handleType1
    <3>3. CASE ~(p.mOfFragmentNo >= MAX_FRAGMENTS_PER_SUPERFRAME
                 \/ p.mFragmentNo > p.mOfFragmentNo) /\ ~b.mActive
      BY <3>1, <3>3 DEF handleType1, g
    <3>4. CASE /\ ~(p.mOfFragmentNo >= MAX_FRAGMENTS_PER_SUPERFRAME
                 \/ p.mFragmentNo > p.mOfFragmentNo)
               /\ b.mActive /\ Refusal1(b, p, aSourceId) # "OK"
      BY <3>1, <3>4 DEF handleType1
    <3>5. CASE /\ ~(p.mOfFragmentNo >= MAX_FRAGMENTS_PER_SUPERFRAME
                 \/ p.mFragmentNo > p.mOfFragmentNo)
               /\ b.mActive /\ Refusal1(b, p, aSourceId) = "OK"
      BY <3>1, <3>5 DEF handleType1, c
    <3> QED BY <3>2, <3>3, <3>4, <3>5
  <2>2. \A order : Holds(Opened(p, aSourceId, order, g), f, m)
    BY <1>9, First1Holds
  <2>3. b.mActive /\ Holds(b, f, m) => Holds(c, f, m)
    BY <1>2, <1>9, Store1Holds
  <2>4. b.mActive => /\ c.mActive /\ c.mSavedFrameNo = b.mSavedFrameNo
                     /\ c.mDeliveryOrder = b.mDeliveryOrder
    BY <1>2, StoreFields
  <2>5. Refusal1(b, p, aSourceId) = "OK" => Mismatch(b, p, aSourceId) = "OK"
    BY DEF Refusal1
  <2> HIDE DEF h, c, g, s, b
  <2> QED BY <1>4, <1>5, <1>6, <1>7, <1>8, <2>1, <2>2, <2>3, <2>4, <2>5 DEF h
<1>10. CASE p.mFrameType = 2
  <2> DEFINE c == Store2(b, p)
             g == First2(p)
             stored == [Stored(r, s, c) EXCEPT
                          !.rx.mStreams[p.mStreamId] = p.mPayload]
             streams == [r.mStreams EXCEPT ![p.mStreamId] = p.mPayload]
  <2>1. \/ \E result : h = Refused(r, result)
        \/ ~b.mActive /\ h = OpenBucket(r, p, aSourceId, g, memory)
        \/ /\ b.mActive /\ Refusal2(b, p, aSourceId) = "OK"
           /\ h = stored
    <3>1. h = handleType2(r, p, aSourceId, memory)
      BY <1>10 DEF Handle
    <3> HIDE DEF h, g, c, stored
    <3>2. CASE Malformed2(p) # "OK"
      BY <3>1, <3>2 DEF handleType2
    <3>3. CASE ~(Malformed2(p) # "OK") /\ ~b.mActive
      BY <3>1, <3>3 DEF handleType2, g
    <3>4. CASE /\ ~(Malformed2(p) # "OK")
               /\ b.mActive /\ Refusal2(b, p, aSourceId) # "OK"
      BY <3>1, <3>4 DEF handleType2
    <3>5. CASE /\ ~(Malformed2(p) # "OK")
               /\ b.mActive /\ Refusal2(b, p, aSourceId) = "OK"
      BY <3>1, <3>5 DEF handleType2, c, stored
    <3> QED BY <3>2, <3>3, <3>4, <3>5
  <2>2. \A order : Holds(Opened(p, aSourceId, order, g), f, m)
    BY <1>10, First2Holds
  <2>3. b.mActive /\ Holds(b, f, m) => Holds(c, f, m)
    BY <1>2, <1>10, Store2Holds
  <2>4. b.mActive => /\ c.mActive /\ c.mSavedFrameNo = b.mSavedFrameNo
                     /\ c.mDeliveryOrder = b.mDeliveryOrder
    BY <1>2, StoreFields
  <2>5. Refusal2(b, p, aSourceId) = "OK" => Mismatch(b, p, aSourceId) = "OK"
    BY DEF Refusal2
  <2>6. stored.rx = WithRing(r, [r.mpBuckets EXCEPT ![s] = c],
                             r.mBucketMap, streams)
    <3> HIDE DEF c, s
    <3> QED BY <1>3 DEF Stored, WithRing, NumbersOK
  <2> HIDE DEF h, c, g, s, b, stored, streams
  <2> QED BY <1>4, <1>5, <1>6, <1>8, <2>1, <2>2, <2>3, <2>4, <2>5, <2>6 DEF h
<1>11. CASE p.mFrameType = 3
  <2> DEFINE c == Store3(b, p)
             g == First3(r, p)
  <2>1. \/ \E result : h = Refused(r, result)
        \/ ~b.mActive /\ h = OpenBucket(r, p, aSourceId, g, memory)
        \/ /\ b.mActive /\ Refusal3(b, p, aSourceId) = "OK"
           /\ h = Stored(r, s, c)
    <3>1. h = handleType3(r, p, aSourceId, memory)
      BY <1>11 DEF Handle
    <3> HIDE DEF h, g, c
    <3>2. CASE Malformed3(p) # "OK"
      BY <3>1, <3>2 DEF handleType3
    <3>3. CASE ~(Malformed3(p) # "OK") /\ ~b.mActive
      BY <3>1, <3>3 DEF handleType3, g
    <3>4. CASE /\ ~(Malformed3(p) # "OK")
               /\ b.mActive /\ Refusal3(b, p, aSourceId) # "OK"
      BY <3>1, <3>4 DEF handleType3
    <3>5. CASE /\ ~(Malformed3(p) # "OK")
               /\ b.mActive /\ Refusal3(b, p, aSourceId) = "OK"
      BY <3>1, <3>5 DEF handleType3, c
    <3> QED BY <3>2, <3>3, <3>4, <3>5
  <2>2. \A order : Holds(Opened(p, aSourceId, order, g), f, m)
    BY <1>11, First3Holds
  <2>3. b.mActive /\ Refusal3(b, p, aSourceId) = "OK" =>
          (Holds(b, f, m) => Holds(c, f, m))
    <3>1. Refusal3(b, p, aSourceId) = "OK" =>
            p.mOfFragmentNo - 1 \notin b.mReceivedFragments
      BY DEF Refusal3
    <3> QED BY <1>2, <1>11, <3>1, Store3Holds
  <2>4. b.mActive => /\ c.mActive /\ c.mSavedFrameNo = b.mSavedFrameNo
                     /\ c.mDeliveryOrder = b.mDeliveryOrder
    BY <1>2, StoreFields
  <2>5. Refusal3(b, p, aSourceId) = "OK" => Mismatch(b, p, aSourceId) = "OK"
    BY DEF Refusal3
  <2> HIDE DEF h, c, g, s, b
  <2> QED BY <1>4, <1>5, <1>6, <1>7, <1>8, <2>1, <2>2, <2>3, <2>4, <2>5 DEF h
<1> QED BY <1>1, <1>9, <1>10, <1>11

------------------------------------------------------------------------------
(***************************************************************************)
(* Numbers on the wire and unwrapped numbers.                              *)
(***************************************************************************)
LEMMA NumberIsOrder ==
    ASSUME SentOK, Numbered, ~rx.mFirstFrame, NEW f \in Int
    PROVE  NumberOf(f) = (f - origin) % SeqSpace
<1> DEFINE a == mSuperFrameNo - Len(sent) - 1 + origin
           c == f - origin
<1>1. /\ Len(sent) \in Nat /\ mSuperFrameNo \in Int /\ origin \in Int
      /\ SeqSpace \in Nat \ {0}
  BY LenIsNat, LinkFacts DEF SentOK, Numbered
<1>2. a \in Int /\ c \in Int
  BY <1>1
<1>3. a % SeqSpace = 0
  BY DEF Numbered
<1>4. mSuperFrameNo - (Len(sent) - f) - 1 = a + c
  BY <1>1
<1> HIDE DEF a, c
<1>5. (a + c) % SeqSpace = c % SeqSpace
  BY ONLY <1>1, <1>2, <1>3, AddedMultiple
<1> QED BY <1>4, <1>5 DEF NumberOf, c

\* The first number to arrive fixes where 0 is.
LEMMA OriginFits ==
    ASSUME SentOK, NEW f \in Int, NEW z, z = f - NumberOf(f)
    PROVE  z \in Int /\ (mSuperFrameNo - Len(sent) - 1 + z) % SeqSpace = 0
<1> DEFINE a == mSuperFrameNo - (Len(sent) - f) - 1
           k == NumberOf(f)
<1>1. /\ Len(sent) \in Nat /\ mSuperFrameNo \in Int
      /\ SeqSpace \in Nat \ {0}
  BY LenIsNat, LinkFacts DEF SentOK
<1>2. a \in Int /\ k = a % SeqSpace
  BY <1>1 DEF NumberOf
<1>3. k \in Int => mSuperFrameNo - Len(sent) - 1 + (f - k) = a - k
  BY <1>1
<1> HIDE DEF a, k
<1>4. k \in Int /\ (a - k) % SeqSpace = 0
  BY ONLY <1>1, <1>2, LessRemainder
<1>5. z = f - k
  BY DEF k
<1> QED BY <1>3, <1>4, <1>5

\* The signed difference is less than half of the space either way.
LEMMA DeltaRange ==
    ASSUME NEW a \in 0..(SeqSpace - 1), NEW b \in 0..(SeqSpace - 1)
    PROVE  LET d == SignedDelta(a, b)
           IN  d \in Int /\ 2 * d < SeqSpace /\ 2 * d >= -SeqSpace
<1> DEFINE e == (a - b) % SeqSpace
           half == SeqSpace \div 2
           d == SignedDelta(a, b)
<1>1. PICK k \in Nat : SeqSpace = 2 * k
  BY SeqFacts
<1>2. SeqSpace \in Nat \ {0}
  BY SeqFacts
<1>3. e \in 0..(SeqSpace - 1)
  <2>1. a - b \in Int
    BY <1>2
  <2> QED BY <1>2, <2>1, RemainderTwice
<1>4. half = k
  BY <1>1
<1>5. d = IF e < half THEN e ELSE e - SeqSpace
  BY DEF SignedDelta
<1> HIDE DEF e, half, d
<1>6. d \in Int /\ 2 * d < SeqSpace /\ 2 * d >= -SeqSpace
  BY ONLY <1>1, <1>2, <1>3, <1>4, <1>5
<1> QED BY <1>6 DEF d

LEMMA Nearest ==
    ASSUME NEW space \in Nat, NEW w \in Nat, 2 * w <= space,
           NEW c \in Int, NEW d \in Int, NEW o \in Int,
           2 * d < space, 2 * d >= -space, 2 * (o - c) < space, c - o < w,
           c + d = o \/ c + d >= o + space \/ o >= (c + d) + space
    PROVE  c + d = o
  OBVIOUS

\* Within reach, unwrapping finds the right SuperFrame, ahead or behind.
LEMMA UnwrapsTo ==
    ASSUME NEW r, NumbersOK(r), ~r.mFirstFrame, NEW o \in Int,
           2 * (o - r.mFrameNoRecalc) < SeqSpace,
           r.mFrameNoRecalc - o < Window
    PROVE  recalculateSuperFrameNo(r, o % SeqSpace).mFrameNoRecalc = o
<1> DEFINE n == o % SeqSpace
           r1 == recalculateSuperFrameNo(r, n)
           x == r1.mFrameNoRecalc
           d == SignedDelta(n, r.mOldFrameNo)
<1>1. /\ SeqSpace \in Nat \ {0} /\ Window \in Nat /\ 2 * Window <= SeqSpace
      /\ r.mFrameNoRecalc \in Int /\ r.mOldFrameNo \in 0..(SeqSpace - 1)
  BY LinkFacts DEF NumbersOK
<1>2. n \in 0..(SeqSpace - 1)
  BY <1>1, RemainderTwice
<1>3. x = r.mFrameNoRecalc + d
  BY RecalcFields
<1>4. d \in Int /\ 2 * d < SeqSpace /\ 2 * d >= -SeqSpace
  BY <1>1, <1>2, DeltaRange
<1>5. x \in Int /\ x % SeqSpace = o % SeqSpace
  BY <1>2, RecalcOK
<1> HIDE DEF n, r1, x, d
<1>6. x = o \/ x >= o + SeqSpace \/ o >= x + SeqSpace
  BY <1>1, <1>5, RemaindersApart
<1>7. x = o
  BY <1>1, <1>3, <1>4, <1>6, Nearest
<1> QED BY <1>7 DEF x, r1, n

\* SuperFrames that share a bucket are a round of the ring apart.
LEMMA SlotsApart ==
    ASSUME NEW a \in Int, NEW b \in Int, Slot(a) = Slot(b)
    PROVE  a = b \/ a >= b + Slots \/ b >= a + Slots
  BY RemaindersApart, LinkFacts DEF Slot

------------------------------------------------------------------------------
(***************************************************************************)
(* A fragment keeps every bucket with one SuperFrame.                      *)
(***************************************************************************)
LEMMA SlotIsSlot ==
    ASSUME NEW o \in Int
    PROVE  Slot(o) \in 0..(Slots - 1)
  BY RemainderTwice, LinkFacts DEF Slot

\* What the ring and the log say to each other, one bucket at a time: a bucket
\* is left alone, or one moves ahead of every frame that left it.
LEMMA LogStays ==
    ASSUME NEW r, NEW r2, NEW z, NEW log, LogPlaced(log, r, z),
           \A t \in 0..(Slots - 1) :
             LET b == r.mpBuckets[t]
                 c == r2.mpBuckets[t]
             IN  b.mDeliveryOrder # NoOrder =>
                   /\ c.mDeliveryOrder # NoOrder
                   /\ \A o \in Int :
                        /\ o <= b.mDeliveryOrder => o <= c.mDeliveryOrder
                        /\ /\ o <= b.mDeliveryOrder
                           /\ b.mActive => o < b.mDeliveryOrder
                           => (c.mActive => o < c.mDeliveryOrder)
    PROVE  LogPlaced(log, r2, z)
<1> SUFFICES ASSUME NEW i \in 1..Len(log)
             PROVE  EntryPlaced(log[i], r2, z)
  BY DEF LogPlaced
<1> DEFINE x == log[i]
           o == x.mDeliveryOrder
           s == Slot(o)
<1>1. EntryPlaced(x, r, z)
  BY DEF LogPlaced
<1>2. o \in Int
  BY <1>1 DEF EntryPlaced
<1>3. s \in 0..(Slots - 1)
  BY <1>2, SlotIsSlot
<1> HIDE DEF x
<1>4. /\ r.mpBuckets[s].mDeliveryOrder # NoOrder
      /\ o <= r.mpBuckets[s].mDeliveryOrder
      /\ r.mpBuckets[s].mActive => o < r.mpBuckets[s].mDeliveryOrder
  BY <1>1 DEF EntryPlaced
<1> HIDE DEF s, o
<1>5. /\ r2.mpBuckets[s].mDeliveryOrder # NoOrder
      /\ o <= r2.mpBuckets[s].mDeliveryOrder
      /\ r2.mpBuckets[s].mActive => o < r2.mpBuckets[s].mDeliveryOrder
  BY <1>2, <1>3, <1>4
<1> QED BY <1>1, <1>5 DEF EntryPlaced, x, o, s

\* Nothing happened.
LEMMA SamePlaces ==
    ASSUME NEW r, NEW r2, NEW z, NEW F, NEW hi,
           RingPlaced(r, z), Ahead(r, z, F, hi),
           \A t \in 0..(Slots - 1) : r2.mpBuckets[t] = r.mpBuckets[t],
           r2.mFrameNoRecalc = r.mFrameNoRecalc,
           r2.mFirstFrame = r.mFirstFrame
    PROVE  RingPlaced(r2, z) /\ Ahead(r2, z, F, hi)
<1>1. RingPlaced(r2, z)
  BY DEF RingPlaced
<1>2. Ahead(r2, z, F, hi)
  BY DEF Ahead
<1> QED BY <1>1, <1>2

\* How far a fragment's SuperFrame is from the others that may be in hand.
LEMMA AheadFacts ==
    ASSUME SentOK, NEW r, NEW z, NEW F, NEW hi, Ahead(r, z, F, hi),
           NEW f \in F
    PROVE  /\ hi \in Int /\ f \in 1..Len(sent) /\ f <= hi /\ f > hi - Window
           /\ \A g \in F : /\ g \in Int
                           /\ g - f < Window /\ f - g < Window
                           /\ g - f < SeqSpace /\ 2 * (g - f) < SeqSpace
<1>1. Len(sent) \in Nat
  BY LenIsNat DEF SentOK
<1>2. hi \in 1..Len(sent) /\ \A g \in F : g \in 1..hi /\ g > hi - Window
  BY DEF Ahead
<1> QED BY <1>1, <1>2, LinkFacts

\* The very first fragment.
LEMMA FirstPlaces ==
    ASSUME SentOK, NEW r, RxInv(r), NEW z, NEW F, NEW hi,
           RingPlaced(r, z), Ahead(r, z, F, hi), r.mFirstFrame,
           NEW f \in F, NEW p, p.mSuperFrameNo \in 0..(SeqSpace - 1),
           NEW r2, Settles(r, r2, p, f, sent[f]), ~r2.mFirstFrame,
           NEW log, LogPlaced(log, r, z),
           NEW z2, z2 = f - r2.mFrameNoRecalc
    PROVE  /\ r2.mFrameNoRecalc = p.mSuperFrameNo
           /\ RingPlaced(r2, z2) /\ Ahead(r2, z2, F, hi)
           /\ LogPlaced(log, r2, z2)
<1> DEFINE n == p.mSuperFrameNo
           s == Slot(n)
           c == r2.mpBuckets[s]
<1>1. /\ hi \in Int /\ f \in 1..Len(sent) /\ f <= hi
      /\ \A g \in F : /\ g \in Int
                      /\ g - f < SeqSpace /\ 2 * (g - f) < SeqSpace
  BY AheadFacts
<1>2. NumbersOK(r) /\ n \in Int /\ s \in 0..(Slots - 1)
  BY SlotIsSlot DEF RxInv
<1>3. recalculateSuperFrameNo(r, n).mFrameNoRecalc = n
  BY <1>2, RecalcFields
<1>4. \A t \in 0..(Slots - 1) : r.mpBuckets[t] = Unused
  BY DEF RingPlaced
<1>5. ~Unused.mActive /\ Unused.mDeliveryOrder = NoOrder
  BY DEF Unused
<1>6. \A t \in 0..(Slots - 1) : t # s => r2.mpBuckets[t] = Unused
  BY <1>4 DEF Settles, OthersStay
<1>7. /\ r2.mFrameNoRecalc = n
      /\ \/ c = Unused
         \/ /\ c.mDeliveryOrder = n
            /\ c.mActive => /\ c.mSavedFrameNo = n
                            /\ Holds(c, f, sent[f])
  BY <1>2, <1>3, <1>4, <1>5 DEF Settles, Opens, Stores
<1>8. /\ Len(sent) \in Nat /\ n % SeqSpace = n /\ f \in Int
      /\ z2 = f - n /\ n + z2 = f
      /\ NoOrder \notin Int
  <2>1. Len(sent) \in Nat /\ NoOrder \notin Int
    BY LenIsNat, ReceiverAssumption DEF SentOK
  <2>2. n % SeqSpace = n
    BY LinkFacts
  <2> QED BY <1>1, <1>2, <1>7, <2>1, <2>2
<1> HIDE DEF n, c
<1>9. \A t \in 0..(Slots - 1) :
        \/ r2.mpBuckets[t] = Unused
        \/ /\ t = s /\ r2.mpBuckets[t] = c
           /\ c.mDeliveryOrder = n
           /\ c.mActive => c.mSavedFrameNo = n /\ Holds(c, f, sent[f])
  BY <1>6, <1>7 DEF c
<1>10. RingPlaced(r2, z2)
  <2>1. ASSUME NEW t \in 0..(Slots - 1)
        PROVE  BucketPlaced(r2.mpBuckets[t], t, z2)
    BY <1>1, <1>2, <1>5, <1>8, <1>9 DEF BucketPlaced
  <2>2. r2.mFrameNoRecalc + z2 \in 1..Len(sent)
    BY <1>1, <1>7, <1>8
  <2> QED BY <2>1, <2>2 DEF RingPlaced
<1>11. Ahead(r2, z2, F, hi)
  <2>1. ASSUME NEW t \in 0..(Slots - 1)
        PROVE  LET b == r2.mpBuckets[t]
               IN  /\ b.mDeliveryOrder # NoOrder => b.mDeliveryOrder + z2 <= hi
                   /\ b.mActive =>
                        \A g \in F : g - b.mDeliveryOrder - z2 < SeqSpace
    <3>1. \A g \in F : g - n - z2 = g - f
      BY ONLY <1>1, <1>2, <1>8
    <3> QED BY <1>1, <1>5, <1>8, <1>9, <3>1
  <2>2. /\ r2.mFrameNoRecalc + z2 <= hi
        /\ \A g \in F : 2 * (g - r2.mFrameNoRecalc - z2) < SeqSpace
    <3>1. \A g \in F : g - n - z2 = g - f
      BY ONLY <1>1, <1>2, <1>8
    <3> QED BY <1>1, <1>7, <1>8, <3>1
  <2> QED BY <2>1, <2>2 DEF Ahead
<1>12. LogPlaced(log, r2, z2)
  <2>1. ASSUME NEW i \in 1..Len(log) PROVE FALSE
    <3>1. /\ log[i].mDeliveryOrder \in Int
          /\ r.mpBuckets[Slot(log[i].mDeliveryOrder)].mDeliveryOrder # NoOrder
      BY DEF LogPlaced, EntryPlaced
    <3> QED BY <1>4, <1>5, <3>1, SlotIsSlot
  <2> QED BY <2>1 DEF LogPlaced
<1> QED BY <1>7, <1>10, <1>11, <1>12 DEF n

\* The first fragment of another SuperFrame.
LEMMA OpenPlaces ==
    ASSUME SentOK, NEW r, RxInv(r), NEW z \in Int, NEW F, NEW hi,
           RingPlaced(r, z), Ahead(r, z, F, hi), ~r.mFirstFrame,
           NEW f \in F, NEW p, p.mSuperFrameNo = (f - z) % SeqSpace,
           NEW r2, NEW log, LogPlaced(log, r, z),
           OthersStay(r, r2, Slot(p.mSuperFrameNo)),
           Opens(r, r2, p, f, sent[f])
    PROVE  /\ RingPlaced(r2, z) /\ Ahead(r2, z, F, hi)
           /\ LogPlaced(log, r2, z)
<1> DEFINE n == p.mSuperFrameNo
           o == f - z
           s == Slot(n)
           b == r.mpBuckets[s]
           c == r2.mpBuckets[s]
<1>1. /\ hi \in Int /\ f \in 1..Len(sent) /\ f <= hi /\ f > hi - Window
      /\ \A g \in F : /\ g \in Int
                      /\ g - f < SeqSpace /\ 2 * (g - f) < SeqSpace
  BY AheadFacts
<1>2. Len(sent) \in Nat /\ NoOrder \notin Int
  BY LenIsNat, ReceiverAssumption DEF SentOK
<1>3. o \in Int /\ f \in Int /\ o + z = f
  BY <1>1
<1>4. n = o % SeqSpace /\ n \in 0..(SeqSpace - 1)
  <2>1. o % SeqSpace \in 0..(SeqSpace - 1)
    BY <1>3, RemainderTwice, LinkFacts
  <2> QED BY <2>1
<1>5. Slot(o) = s
  BY <1>3, <1>4, SlotOfOrder
<1>6. s \in 0..(Slots - 1)
  BY <1>3, <1>5, SlotIsSlot
<1>7. NumbersOK(r) /\ r.mFrameNoRecalc \in Int
  BY DEF RxInv, NumbersOK
<1>8. /\ r.mFrameNoRecalc + z <= hi
      /\ 2 * (f - r.mFrameNoRecalc - z) < SeqSpace
      /\ \A t \in 0..(Slots - 1) :
         LET x == r.mpBuckets[t]
         IN  /\ x.mDeliveryOrder # NoOrder => x.mDeliveryOrder + z <= hi
             /\ x.mActive => \A g \in F : g - x.mDeliveryOrder - z < SeqSpace
  BY DEF Ahead
<1> HIDE DEF n, s
<1>9. r2.mFrameNoRecalc = o
  <2>1. /\ 2 * (o - r.mFrameNoRecalc) < SeqSpace
        /\ r.mFrameNoRecalc - o < Window
    <3> HIDE DEF o
    <3>1. Window \in Int /\ SeqSpace \in Int /\ z \in Int
      BY LinkFacts
    <3>2. f - r.mFrameNoRecalc - z = o - r.mFrameNoRecalc
      BY ONLY <1>3, <1>7, <3>1
    <3> QED BY ONLY <1>1, <1>3, <1>7, <1>8, <3>1, <3>2
  <2> HIDE DEF o
  <2>2. recalculateSuperFrameNo(r, o % SeqSpace).mFrameNoRecalc = o
    BY <1>3, <1>7, <2>1, UnwrapsTo
  <2> QED BY <1>4, <2>2 DEF Opens, n
<1>10. /\ ~b.mActive
       /\ \/ c = b
          \/ /\ c.mDeliveryOrder = o /\ c.mDeliveryOrder # b.mDeliveryOrder
             /\ c.mActive => c.mSavedFrameNo = n /\ Holds(c, f, sent[f])
  BY <1>9 DEF Opens, n, s
<1> HIDE DEF o
<1>11. b.mDeliveryOrder # NoOrder => b.mDeliveryOrder \in Int
  BY <1>6 DEF RingPlaced, BucketPlaced
<1>12. b.mDeliveryOrder # NoOrder /\ b.mDeliveryOrder # o =>
         o > b.mDeliveryOrder
  <2> SUFFICES ASSUME b.mDeliveryOrder # NoOrder, b.mDeliveryOrder # o
               PROVE  o > b.mDeliveryOrder
    OBVIOUS
  <2> DEFINE y == b.mDeliveryOrder
  <2>1. y \in Int /\ Slot(y) = s
    BY <1>6 DEF RingPlaced, BucketPlaced
  <2>2. y + z <= hi
    BY <1>6, <1>8
  <2> HIDE DEF y
  <2>3. y = o \/ y >= o + Slots \/ o >= y + Slots
    BY <1>3, <1>5, <2>1, SlotsApart
  <2>4. y # o
    BY DEF y
  <2>5. Window \in Int /\ Slots \in Int /\ Window <= Slots /\ z \in Int
    BY LinkFacts
  <2>6. hi \in Int /\ f > hi - Window
    BY <1>1
  <2>7. o > y
    BY ONLY <1>3, <2>1, <2>2, <2>3, <2>4, <2>5, <2>6
  <2> QED BY <2>7 DEF y
<1> HIDE DEF b, c
<1>13. \A t \in 0..(Slots - 1) :
         t # s => r2.mpBuckets[t] = r.mpBuckets[t]
  BY DEF OthersStay, s, n
<1>14. ~r2.mFirstFrame
  BY DEF Opens
<1>15. RingPlaced(r2, z)
  <2>1. ASSUME NEW t \in 0..(Slots - 1)
        PROVE  BucketPlaced(r2.mpBuckets[t], t, z)
    <3>1. BucketPlaced(r.mpBuckets[t], t, z)
      BY DEF RingPlaced
    <3>2. CASE t # s \/ c = b
      BY <1>13, <3>1, <3>2 DEF b, c
    <3>3. CASE t = s /\ c # b
      <4>1. /\ r2.mpBuckets[t] = c /\ c.mDeliveryOrder = o
            /\ c.mActive => c.mSavedFrameNo = n /\ Holds(c, f, sent[f])
        BY <1>10, <3>3 DEF c
      <4> QED BY <1>1, <1>3, <1>4, <1>5, <3>3, <4>1 DEF BucketPlaced
    <3> QED BY <3>2, <3>3
  <2>2. r2.mFrameNoRecalc + z \in 1..Len(sent)
    BY <1>1, <1>3, <1>9
  <2> QED BY <1>14, <2>1, <2>2 DEF RingPlaced
<1>16. \A g \in F : g - o - z = g - f
  BY <1>1, <1>3
<1>17. Ahead(r2, z, F, hi)
  <2>1. ASSUME NEW t \in 0..(Slots - 1)
        PROVE  LET x == r2.mpBuckets[t]
               IN  /\ x.mDeliveryOrder # NoOrder => x.mDeliveryOrder + z <= hi
                   /\ x.mActive =>
                        \A g \in F : g - x.mDeliveryOrder - z < SeqSpace
    <3>1. CASE t # s \/ c = b
      BY <1>8, <1>13, <3>1 DEF b, c
    <3>2. CASE t = s /\ c # b
      <4>1. r2.mpBuckets[t] = c /\ c.mDeliveryOrder = o
        BY <1>10, <3>2 DEF c
      <4> QED BY <1>1, <1>3, <1>16, <4>1
    <3> QED BY <3>1, <3>2
  <2>2. /\ r2.mFrameNoRecalc + z <= hi
        /\ \A g \in F : 2 * (g - r2.mFrameNoRecalc - z) < SeqSpace
    BY <1>1, <1>3, <1>9, <1>16
  <2> QED BY <2>1, <2>2 DEF Ahead
<1>18. LogPlaced(log, r2, z)
  <2>1. ASSUME NEW t \in 0..(Slots - 1), r.mpBuckets[t].mDeliveryOrder # NoOrder
        PROVE  LET x == r.mpBuckets[t]
                   y == r2.mpBuckets[t]
               IN  /\ y.mDeliveryOrder # NoOrder
                   /\ \A q \in Int :
                        /\ q <= x.mDeliveryOrder => q <= y.mDeliveryOrder
                        /\ /\ q <= x.mDeliveryOrder
                           /\ x.mActive => q < x.mDeliveryOrder
                           => (y.mActive => q < y.mDeliveryOrder)
    <3>1. CASE t # s \/ c = b
      <4>1. r2.mpBuckets[t] = r.mpBuckets[t]
        BY <1>13, <3>1 DEF b, c
      <4> QED BY <2>1, <4>1
    <3>2. CASE t = s /\ c # b
      <4>1. r2.mpBuckets[t] = c /\ c.mDeliveryOrder = o /\ r.mpBuckets[t] = b
            /\ b.mDeliveryOrder # o
        BY <1>10, <3>2 DEF b, c
      <4>2. b.mDeliveryOrder \in Int /\ o > b.mDeliveryOrder /\ o # NoOrder
        BY <1>2, <1>3, <1>11, <1>12, <2>1, <4>1
      <4> QED BY <1>3, <4>1, <4>2
    <3> QED BY <3>1, <3>2
  <2> QED BY <2>1, LogStays
<1> QED BY <1>15, <1>17, <1>18

\* A bucket in use goes with the SuperFrame of the fragments it takes.
LEMMA OwnBucket ==
    ASSUME SentOK, NEW r, NEW z \in Int, NEW F, NEW hi,
           RingPlaced(r, z), Ahead(r, z, F, hi),
           NEW f \in F, NEW t \in 0..(Slots - 1), r.mpBuckets[t].mActive,
           NEW y \in Int, r.mpBuckets[t].mDeliveryOrder = y, y # NoOrder,
           r.mpBuckets[t].mSavedFrameNo = (f - z) % SeqSpace
    PROVE  f = y + z
<1> DEFINE o == f - z
<1>1. /\ hi \in Int /\ f \in Int /\ f > hi - Window
  BY AheadFacts
<1>2. o \in Int /\ o + z = f
  BY <1>1
<1>3. y % SeqSpace = o % SeqSpace
  BY DEF RingPlaced, BucketPlaced
<1>4. y + z <= hi /\ f - y - z < SeqSpace
  BY DEF Ahead
<1> HIDE DEF o
<1>5. o = y \/ o >= y + SeqSpace \/ y >= o + SeqSpace
  BY <1>2, <1>3, RemaindersApart, LinkFacts
<1>6. /\ Window \in Nat /\ SeqSpace \in Nat /\ Window <= SeqSpace
      /\ y \in Int /\ z \in Int
  BY LinkFacts
<1>7. o = y
  BY ONLY <1>1, <1>2, <1>4, <1>5, <1>6
<1> QED BY <1>2, <1>7

LEMMA StorePlaces ==
    ASSUME SentOK, NEW r, RxInv(r), NEW z \in Int, NEW F, NEW hi,
           RingPlaced(r, z), Ahead(r, z, F, hi), ~r.mFirstFrame,
           NEW f \in F, NEW p, p.mSuperFrameNo = (f - z) % SeqSpace,
           NEW r2, NEW log, LogPlaced(log, r, z),
           OthersStay(r, r2, Slot(p.mSuperFrameNo)),
           Stores(r, r2, p, f, sent[f])
    PROVE  /\ RingPlaced(r2, z) /\ Ahead(r2, z, F, hi)
           /\ LogPlaced(log, r2, z)
<1> DEFINE s == Slot(p.mSuperFrameNo)
           b == r.mpBuckets[s]
           c == r2.mpBuckets[s]
           y == b.mDeliveryOrder
<1>0. /\ s \in 0..(Slots - 1)
      /\ \A t \in 0..(Slots - 1) :
           t # s => r2.mpBuckets[t] = r.mpBuckets[t]
  <2>1. p.mSuperFrameNo \in Int
    <3>1. f \in Int
      BY AheadFacts
    <3> QED BY <3>1, RemainderTwice, LinkFacts
  <2> QED BY <2>1, SlotIsSlot DEF OthersStay
<1>9. /\ b.mActive /\ c.mActive
      /\ p.mSuperFrameNo = b.mSavedFrameNo
      /\ c.mSavedFrameNo = b.mSavedFrameNo
      /\ c.mDeliveryOrder = y
      /\ Holds(b, f, sent[f]) => Holds(c, f, sent[f])
      /\ r2.mFrameNoRecalc = r.mFrameNoRecalc /\ ~r2.mFirstFrame
  BY DEF Stores
<1> HIDE DEF s
<1>1. y \in Int /\ y # NoOrder /\ BucketPlaced(b, s, z)
  <2>1. y \in Int
    BY <1>0, <1>9 DEF RxInv, RingOK, BucketOK
  <2> QED BY <1>0, <2>1, ReceiverAssumption DEF RingPlaced
<1>2. f = y + z
  <2>1. b.mSavedFrameNo = (f - z) % SeqSpace
    BY <1>9
  <2> QED BY <1>0, <1>9, <1>1, <2>1, OwnBucket
<1>3. /\ b.mActive /\ c.mActive /\ c.mSavedFrameNo = b.mSavedFrameNo
      /\ c.mDeliveryOrder = y
      /\ Holds(b, f, sent[f]) => Holds(c, f, sent[f])
  BY <1>9
<1> HIDE DEF c
<1>4. BucketPlaced(c, s, z)
  BY <1>1, <1>2, <1>3 DEF BucketPlaced
<1>5. \A t \in 0..(Slots - 1) :
        /\ r2.mpBuckets[t].mDeliveryOrder = r.mpBuckets[t].mDeliveryOrder
        /\ r2.mpBuckets[t].mActive <=> r.mpBuckets[t].mActive
  BY <1>0, <1>3 DEF c
<1>6. RingPlaced(r2, z)
  BY <1>0, <1>9, <1>4 DEF RingPlaced, c
<1>7. Ahead(r2, z, F, hi)
  <2>1. ASSUME NEW t \in 0..(Slots - 1)
        PROVE  LET x == r2.mpBuckets[t]
               IN  /\ x.mDeliveryOrder # NoOrder => x.mDeliveryOrder + z <= hi
                   /\ x.mActive =>
                        \A g \in F : g - x.mDeliveryOrder - z < SeqSpace
    BY <1>5 DEF Ahead
  <2> QED BY <1>9, <2>1 DEF Ahead
<1>8. LogPlaced(log, r2, z)
  BY <1>5, LogStays
<1> QED BY <1>6, <1>7, <1>8

\* One fragment, whatever the handler makes of it.
LEMMA FragmentPlaces ==
    ASSUME SentOK, NEW r, RxInv(r), NEW z \in Int, NEW F, NEW hi,
           RingPlaced(r, z), Ahead(r, z, F, hi),
           NEW f \in F, NEW p, p.mSuperFrameNo \in 0..(SeqSpace - 1),
           ~r.mFirstFrame => p.mSuperFrameNo = (f - z) % SeqSpace,
           NEW r2, Settles(r, r2, p, f, sent[f]), r2.mFirstFrame \in BOOLEAN,
           NEW log, LogPlaced(log, r, z),
           NEW z2, z2 = IF r.mFirstFrame /\ ~r2.mFirstFrame
                          THEN f - r2.mFrameNoRecalc ELSE z
    PROVE  /\ RingPlaced(r2, z2) /\ Ahead(r2, z2, F, hi)
           /\ LogPlaced(log, r2, z2)
           /\ r.mFirstFrame /\ ~r2.mFirstFrame =>
                r2.mFrameNoRecalc = p.mSuperFrameNo
           /\ ~r.mFirstFrame => ~r2.mFirstFrame
<1> DEFINE s == Slot(p.mSuperFrameNo)
<1>1. s \in 0..(Slots - 1)
  BY SlotIsSlot, LinkFacts
<1>2. OthersStay(r, r2, s)
  BY DEF Settles
<1>3. CASE /\ r2.mpBuckets[s] = r.mpBuckets[s]
           /\ r2.mFrameNoRecalc = r.mFrameNoRecalc
           /\ r2.mFirstFrame = r.mFirstFrame
  <2>1. \A t \in 0..(Slots - 1) : r2.mpBuckets[t] = r.mpBuckets[t]
    BY <1>2, <1>3 DEF OthersStay
  <2>2. z2 = z
    BY <1>3
  <2>3. RingPlaced(r2, z) /\ Ahead(r2, z, F, hi)
    BY <1>3, <2>1, SamePlaces
  <2>4. LogPlaced(log, r2, z)
    BY <2>1, LogStays
  <2> QED BY <1>3, <2>2, <2>3, <2>4
<1>4. CASE r.mFirstFrame /\ ~r2.mFirstFrame
  <2>1. z2 = f - r2.mFrameNoRecalc
    BY <1>4
  <2>2. /\ r2.mFrameNoRecalc = p.mSuperFrameNo
        /\ RingPlaced(r2, z2) /\ Ahead(r2, z2, F, hi)
        /\ LogPlaced(log, r2, z2)
    BY <1>4, <2>1, FirstPlaces
  <2> QED BY <1>4, <2>2
<1>5. CASE ~r.mFirstFrame /\ Opens(r, r2, p, f, sent[f])
  <2>1. z2 = z /\ p.mSuperFrameNo = (f - z) % SeqSpace
    BY <1>5
  <2>2. /\ RingPlaced(r2, z) /\ Ahead(r2, z, F, hi)
        /\ LogPlaced(log, r2, z)
    BY <1>2, <1>5, <2>1, OpenPlaces
  <2>3. ~r2.mFirstFrame
    BY <1>5 DEF Opens
  <2> QED BY <1>5, <2>1, <2>2, <2>3
<1>6. CASE Stores(r, r2, p, f, sent[f])
  <2>1. ~r.mFirstFrame /\ ~r2.mFirstFrame
    <3>1. r.mFirstFrame => r.mpBuckets[s] = Unused
      BY <1>1 DEF RingPlaced
    <3> QED BY <1>6, <3>1 DEF Unused, Stores
  <2>2. z2 = z /\ p.mSuperFrameNo = (f - z) % SeqSpace
    BY <2>1
  <2>3. /\ RingPlaced(r2, z) /\ Ahead(r2, z, F, hi)
        /\ LogPlaced(log, r2, z)
    BY <1>2, <1>6, <2>1, <2>2, StorePlaces
  <2> QED BY <2>1, <2>2, <2>3
<1>7. \/ /\ r2.mpBuckets[s] = r.mpBuckets[s]
         /\ r2.mFrameNoRecalc = r.mFrameNoRecalc
         /\ r2.mFirstFrame = r.mFirstFrame
      \/ Opens(r, r2, p, f, sent[f])
      \/ Stores(r, r2, p, f, sent[f])
  BY DEF Settles
<1>8. Opens(r, r2, p, f, sent[f]) => ~r2.mFirstFrame
  BY DEF Opens
<1> HIDE DEF s
<1> QED BY <1>3, <1>4, <1>5, <1>6, <1>7, <1>8

------------------------------------------------------------------------------
(***************************************************************************)
(* One pass of processTimeouts.                                            *)
(***************************************************************************)

\* A NACK changes nothing of what a bucket holds.
LEMMA NackedHolds ==
    ASSUME NEW b, Assembling(b)
    PROVE  LET c == Nacked(b)
           IN  /\ c.mActive = b.mActive
               /\ c.mDeliveryOrder = b.mDeliveryOrder
               /\ c.mSavedFrameNo = b.mSavedFrameNo
               /\ \A f, m : Holds(b, f, m) => Holds(c, f, m)
<1> DEFINE c == Nacked(b)
<1>1. /\ c.mActive = b.mActive /\ c.mDeliveryOrder = b.mDeliveryOrder
      /\ c.mSavedFrameNo = b.mSavedFrameNo
      /\ c.mReceivedFragments = b.mReceivedFragments
      /\ c.mOfFragmentNo = b.mOfFragmentNo /\ c.mStreamId = b.mStreamId
      /\ c.mFragmentSize = b.mFragmentSize /\ c.mpData = b.mpData
      /\ c.mType3Size = b.mType3Size /\ c.mType2Size = b.mType2Size
      /\ c.mPts = b.mPts /\ c.mDts = b.mDts /\ c.mPayload = b.mPayload
      /\ c.mSize = b.mSize
  BY DEF Assembling, BucketFields, Nacked
<1> HIDE DEF c
<1>2. ASSUME NEW f, NEW m, Holds(b, f, m)
      PROVE  Holds(c, f, m)
  BY <1>1, <1>2 DEF Holds
<1> QED BY <1>1, <1>2 DEF c

LEMMA NacksKeep ==
    ASSUME NEW r, RxInv(r), NEW base
    PROVE  LET r2 == processNacks(r, base)
           IN  /\ r2.mFrameNoRecalc = r.mFrameNoRecalc
               /\ r2.mFirstFrame = r.mFirstFrame
               /\ \A t \in 0..(Slots - 1) :
                    \/ r2.mpBuckets[t] = r.mpBuckets[t]
                    \/ /\ r2.mpBuckets[t] = Nacked(r.mpBuckets[t])
                       /\ Assembling(r.mpBuckets[t])
<1> DEFINE due == {r.mBucketMap[o] : o \in OrdersDue(r, base)}
           r2 == processNacks(r, base)
<1>1. NumbersOK(r)
  BY DEF RxInv
<1>2. /\ r2.mFrameNoRecalc = r.mFrameNoRecalc
      /\ r2.mFirstFrame = r.mFirstFrame
      /\ r2.mpBuckets = [t \in 0..(Slots - 1) |->
                           IF t \in due THEN Nacked(r.mpBuckets[t])
                           ELSE r.mpBuckets[t]]
  BY <1>1 DEF processNacks, NumbersOK
<1>3. \A t \in due : Assembling(r.mpBuckets[t])
  <2>1. \A o \in OrdersDue(r, base) : o \in DOMAIN r.mBucketMap
    BY DEF OrdersDue
  <2> QED BY <2>1, EntryBucket
<1> HIDE DEF due, r2
<1> QED BY <1>2, <1>3 DEF r2

LEMMA NacksPlaces ==
    ASSUME NEW r, RxInv(r), NEW base, NEW z, RingPlaced(r, z), NEW log,
           LogPlaced(log, r, z), NEW r2, r2 = processNacks(r, base)
    PROVE  /\ RingPlaced(r2, z) /\ LogPlaced(log, r2, z)
           /\ r2.mFrameNoRecalc = r.mFrameNoRecalc
           /\ r2.mFirstFrame = r.mFirstFrame
<1>1. /\ r2.mFrameNoRecalc = r.mFrameNoRecalc
      /\ r2.mFirstFrame = r.mFirstFrame
      /\ \A t \in 0..(Slots - 1) :
           \/ r2.mpBuckets[t] = r.mpBuckets[t]
           \/ /\ r2.mpBuckets[t] = Nacked(r.mpBuckets[t])
              /\ Assembling(r.mpBuckets[t])
  BY NacksKeep
<1>2. ASSUME NEW t \in 0..(Slots - 1)
      PROVE  LET b == r.mpBuckets[t]
                 c == r2.mpBuckets[t]
             IN  /\ c.mActive = b.mActive
                 /\ c.mDeliveryOrder = b.mDeliveryOrder
                 /\ b.mActive => c.mSavedFrameNo = b.mSavedFrameNo
                 /\ \A f, m : b.mActive /\ Holds(b, f, m) => Holds(c, f, m)
  BY <1>1, NackedHolds
<1>3. ASSUME NEW t \in 0..(Slots - 1)
      PROVE  BucketPlaced(r2.mpBuckets[t], t, z)
  <2> DEFINE b == r.mpBuckets[t]
             c == r2.mpBuckets[t]
  <2>1. /\ c.mActive = b.mActive
        /\ c.mDeliveryOrder = b.mDeliveryOrder
        /\ b.mActive => c.mSavedFrameNo = b.mSavedFrameNo
        /\ \A f, m : b.mActive /\ Holds(b, f, m) => Holds(c, f, m)
    BY <1>2
  <2>2. BucketPlaced(b, t, z)
    BY DEF RingPlaced
  <2> HIDE DEF b, c
  <2>3. BucketPlaced(c, t, z)
    BY <2>1, <2>2 DEF BucketPlaced
  <2> QED BY <2>3 DEF c
<1>4. RingPlaced(r2, z)
  <2>1. ASSUME r2.mFirstFrame, NEW t \in 0..(Slots - 1)
        PROVE  r2.mpBuckets[t] = Unused
    <3>1. r.mpBuckets[t] = Unused
      BY <1>1, <2>1 DEF RingPlaced
    <3>2. ~Assembling(r.mpBuckets[t])
      BY <3>1 DEF Unused, Assembling
    <3> QED BY <1>1, <3>1, <3>2
  <2>2. ~r2.mFirstFrame => r2.mFrameNoRecalc + z \in 1..Len(sent)
    BY <1>1 DEF RingPlaced
  <2> QED BY <1>3, <2>1, <2>2 DEF RingPlaced
<1>5. LogPlaced(log, r2, z)
  BY <1>2, LogStays
<1> QED BY <1>1, <1>4, <1>5

LEMMA DeliverKeeps ==
    ASSUME NEW r, RxInv(r)
    PROVE  LET r2 == deliverFrames(r)
           IN  /\ r2.mFrameNoRecalc = r.mFrameNoRecalc
               /\ r2.mFirstFrame = r.mFirstFrame
               /\ \A t \in 0..(Slots - 1) :
                    \/ r2.mpBuckets[t] = r.mpBuckets[t]
                    \/ /\ r.mpBuckets[t].mActive
                       /\ r2.mpBuckets[t] = Closed(r.mpBuckets[t])
               /\ \A o \in ReadyOrders(r) :
                    LET s == r.mBucketMap[o]
                    IN  r2.mpBuckets[s] = Closed(r.mpBuckets[s])
<1> DEFINE slots == {r.mBucketMap[o] : o \in ReadyOrders(r)}
           r2 == deliverFrames(r)
<1>1. NumbersOK(r)
  BY DEF RxInv
<1>2. /\ r2.mFrameNoRecalc = r.mFrameNoRecalc
      /\ r2.mFirstFrame = r.mFirstFrame
      /\ r2.mpBuckets = [t \in 0..(Slots - 1) |->
                           IF t \in slots THEN Closed(r.mpBuckets[t])
                           ELSE r.mpBuckets[t]]
  BY <1>1 DEF deliverFrames, NumbersOK
<1>3. \A o \in ReadyOrders(r) : /\ r.mBucketMap[o] \in 0..(Slots - 1)
                                /\ r.mpBuckets[r.mBucketMap[o]].mActive
                                /\ r.mBucketMap[o] \in slots
  BY EntryBucket DEF ReadyOrders
<1>4. \A t \in slots : t \in 0..(Slots - 1) /\ r.mpBuckets[t].mActive
  BY <1>3
<1> HIDE DEF slots, r2
<1>5. \A t \in 0..(Slots - 1) :
        \/ r2.mpBuckets[t] = r.mpBuckets[t]
        \/ /\ r.mpBuckets[t].mActive
           /\ r2.mpBuckets[t] = Closed(r.mpBuckets[t])
  BY <1>2, <1>4
<1>6. \A o \in ReadyOrders(r) :
        r2.mpBuckets[r.mBucketMap[o]] = Closed(r.mpBuckets[r.mBucketMap[o]])
  BY <1>2, <1>3
<1> QED BY <1>2, <1>5, <1>6 DEF r2

\* A frame handed over has its place, and is whole unless marked as broken.
LEMMA FrameOutPlaced ==
    ASSUME SentOK, NEW r, RxInv(r), NEW z, RingPlaced(r, z),
           NEW o \in ReadyOrders(r), NEW x,
           x = FrameOf(r.mpBuckets[r.mBucketMap[o]])
    PROVE  /\ EntryPlaced(x, deliverFrames(r), z)
           /\ x.mDeliveryOrder = o /\ o \in Int
           /\ r.mpBuckets[Slot(o)].mActive
           /\ r.mpBuckets[Slot(o)].mDeliveryOrder = o
<1> DEFINE s == r.mBucketMap[o]
           b == r.mpBuckets[s]
           m == sent[o + z]
           c == deliverFrames(r).mpBuckets[s]
<1>1. /\ s \in 0..(Slots - 1) /\ b.mActive /\ b.mDeliveryOrder = o
      /\ Assembling(b)
  BY EntryBucket DEF ReadyOrders
<1>2. o \in Int /\ Slot(o) = s
  BY <1>1 DEF RxInv, RingOK, BucketOK
<1>3. c = Closed(b)
  BY DeliverKeeps
<1>4. b.mDeliveryOrder # NoOrder
  BY <1>1, <1>2, ReceiverAssumption
<1>5. /\ o + z \in 1..Len(sent)
      /\ b.mSavedFrameNo = o % SeqSpace
      /\ Holds(b, o + z, m)
  <2>1. BucketPlaced(b, s, z)
    BY <1>1 DEF RingPlaced
  <2> HIDE DEF b, s
  <2> QED BY <1>1, <1>4, <2>1 DEF BucketPlaced
<1>6. m \in Frames /\ Accepted(m)
  BY <1>5 DEF SentOK
<1>7. /\ x.mDeliveryOrder = o /\ x.mSuperFrameNo = o % SeqSpace
      /\ x.mBroken = ~Complete(b) /\ x = FrameOf(b)
  BY <1>1, <1>5 DEF FrameOf
<1>8. ~x.mBroken => Received(x) = Content(o + z, m)
  <2> SUFFICES ASSUME ~x.mBroken
               PROVE  Received(x) = Content(o + z, m)
    OBVIOUS
  <2>1. Complete(b) /\ Counted(b)
    BY <1>1, <1>7 DEF Assembling
  <2> HIDE DEF b, m
  <2> QED BY <1>5, <1>6, <1>7, <2>1, CompleteContent
<1>9. /\ c.mDeliveryOrder = o /\ c.mActive = FALSE
  BY <1>1, <1>3 DEF Closed
<1>10. EntryPlaced(x, deliverFrames(r), z)
  <2>1. o <= c.mDeliveryOrder /\ c.mDeliveryOrder # NoOrder
    BY <1>1, <1>2, <1>4, <1>9
  <2> HIDE DEF b, m
  <2> QED BY <1>2, <1>5, <1>7, <1>8, <1>9, <2>1 DEF EntryPlaced, m
<1> QED BY <1>1, <1>2, <1>7, <1>10

LEMMA DeliverPlaces ==
    ASSUME SentOK, NEW r, RxInv(r), NEW z, RingPlaced(r, z), NEW log,
           IsSeq(log), LogPlaced(log, r, z)
    PROVE  /\ RingPlaced(deliverFrames(r), z)
           /\ LogPlaced(log \o FramesOut(r), deliverFrames(r), z)
<1> DEFINE r2 == deliverFrames(r)
           new == FramesOut(r)
           all == log \o new
<1>1. /\ r2.mFrameNoRecalc = r.mFrameNoRecalc
      /\ r2.mFirstFrame = r.mFirstFrame
      /\ \A t \in 0..(Slots - 1) :
           \/ r2.mpBuckets[t] = r.mpBuckets[t]
           \/ /\ r.mpBuckets[t].mActive
              /\ r2.mpBuckets[t] = Closed(r.mpBuckets[t])
  BY DeliverKeeps
<1>2. /\ IsSeq(new)
      /\ \A i \in 1..Len(new) :
           \E o \in ReadyOrders(r) :
             new[i] = FrameOf(r.mpBuckets[r.mBucketMap[o]])
      /\ \A i, j \in 1..Len(new) :
           i < j => new[i].mDeliveryOrder < new[j].mDeliveryOrder
  BY FramesOutOK
<1> HIDE DEF new
<1>3. ASSUME NEW i \in 1..Len(new)
      PROVE  LET o == new[i].mDeliveryOrder
             IN  /\ EntryPlaced(new[i], r2, z)
                 /\ o \in Int
                 /\ r.mpBuckets[Slot(o)].mActive
                 /\ r.mpBuckets[Slot(o)].mDeliveryOrder = o
  BY <1>2, FrameOutPlaced
<1> HIDE DEF r2
<1>4. RingPlaced(r2, z)
  <2>1. ASSUME NEW t \in 0..(Slots - 1)
        PROVE  BucketPlaced(r2.mpBuckets[t], t, z)
    <3>1. BucketPlaced(r.mpBuckets[t], t, z)
      BY DEF RingPlaced
    <3>2. CASE r2.mpBuckets[t] = r.mpBuckets[t]
      BY <3>1, <3>2
    <3>3. CASE r2.mpBuckets[t] = Closed(r.mpBuckets[t])
      <4>1. /\ r2.mpBuckets[t].mActive = FALSE
            /\ r2.mpBuckets[t].mDeliveryOrder = r.mpBuckets[t].mDeliveryOrder
        BY <3>3 DEF Closed
      <4> QED BY <3>1, <4>1 DEF BucketPlaced
    <3> QED BY <1>1, <3>2, <3>3
  <2>2. ASSUME r2.mFirstFrame, NEW t \in 0..(Slots - 1)
        PROVE  r2.mpBuckets[t] = Unused
    <3>1. r.mpBuckets[t] = Unused
      BY <1>1, <2>2 DEF RingPlaced
    <3>2. ~r.mpBuckets[t].mActive
      BY <3>1 DEF Unused
    <3> QED BY <1>1, <3>1, <3>2
  <2>3. ~r2.mFirstFrame => r2.mFrameNoRecalc + z \in 1..Len(sent)
    BY <1>1 DEF RingPlaced
  <2> QED BY <2>1, <2>2, <2>3 DEF RingPlaced
<1>5. LogPlaced(log, r2, z)
  <2>1. ASSUME NEW t \in 0..(Slots - 1)
        PROVE  /\ r2.mpBuckets[t].mDeliveryOrder = r.mpBuckets[t].mDeliveryOrder
               /\ r2.mpBuckets[t].mActive => r.mpBuckets[t].mActive
    <3>1. CASE r2.mpBuckets[t] = r.mpBuckets[t]
      BY <3>1
    <3>2. CASE r2.mpBuckets[t] = Closed(r.mpBuckets[t])
      <4>1. /\ r2.mpBuckets[t].mActive = FALSE
            /\ r2.mpBuckets[t].mDeliveryOrder = r.mpBuckets[t].mDeliveryOrder
        BY <3>2 DEF Closed
      <4> QED BY <4>1
    <3> QED BY <1>1, <3>1, <3>2
  <2> QED BY <2>1, LogStays
<1>6. /\ IsSeq(all) /\ Len(all) = Len(log) + Len(new)
      /\ \A i \in 1..Len(log) : all[i] = log[i]
      /\ \A i \in 1..Len(new) : all[Len(log) + i] = new[i]
  BY <1>2, ConcatFacts
<1>7. Len(log) \in Nat /\ Len(new) \in Nat
  BY <1>2, LenIsNat
<1> HIDE DEF all
<1>8. ASSUME NEW i \in 1..Len(all)
      PROVE  \/ i \in 1..Len(log) /\ all[i] = log[i]
             \/ \E k \in 1..Len(new) : i = Len(log) + k /\ all[i] = new[k]
  <2>1. i \in 1..Len(log) \/ (i - Len(log) \in 1..Len(new)
                               /\ i = Len(log) + (i - Len(log)))
    BY ONLY <1>6, <1>7, i \in 1..Len(all)
  <2> QED BY <1>6, <2>1
<1>9. ASSUME NEW i \in 1..Len(log), NEW k \in 1..Len(new)
      PROVE  log[i].mDeliveryOrder # new[k].mDeliveryOrder
  <2> DEFINE o == log[i].mDeliveryOrder
             b == r.mpBuckets[Slot(o)]
  <2>1. EntryPlaced(log[i], r, z)
    BY DEF LogPlaced
  <2>2. o \in Int /\ (b.mActive => o < b.mDeliveryOrder)
    BY <2>1 DEF EntryPlaced
  <2>3. new[k].mDeliveryOrder \in Int
    BY <1>3
  <2> SUFFICES ASSUME o = new[k].mDeliveryOrder
               PROVE  FALSE
    OBVIOUS
  <2>4. b.mActive /\ b.mDeliveryOrder = o
    BY <1>3
  <2> HIDE DEF o, b
  <2> QED BY <2>2, <2>4
<1>10. ASSUME NEW i \in 1..Len(all), NEW j \in 1..Len(all), i # j
       PROVE  all[i].mDeliveryOrder # all[j].mDeliveryOrder
  <2>1. CASE i \in 1..Len(log) /\ all[i] = log[i]
             /\ j \in 1..Len(log) /\ all[j] = log[j]
    BY <1>10, <2>1 DEF LogPlaced
  <2>2. ASSUME i \in 1..Len(log), all[i] = log[i],
               NEW k \in 1..Len(new), all[j] = new[k]
        PROVE  all[i].mDeliveryOrder # all[j].mDeliveryOrder
    BY <2>2, <1>9
  <2>3. ASSUME j \in 1..Len(log), all[j] = log[j],
               NEW k \in 1..Len(new), all[i] = new[k]
        PROVE  all[i].mDeliveryOrder # all[j].mDeliveryOrder
    BY <2>3, <1>9
  <2>4. ASSUME NEW k \in 1..Len(new), i = Len(log) + k, all[i] = new[k],
               NEW l \in 1..Len(new), j = Len(log) + l, all[j] = new[l]
        PROVE  all[i].mDeliveryOrder # all[j].mDeliveryOrder
    <3>1. k < l \/ l < k
      BY <1>7, <1>10, <2>4
    <3>2. /\ new[k].mDeliveryOrder \in Int
          /\ new[l].mDeliveryOrder \in Int
      BY <1>3
    <3>3. \/ new[k].mDeliveryOrder < new[l].mDeliveryOrder
          \/ new[l].mDeliveryOrder < new[k].mDeliveryOrder
      BY <1>2, <3>1
    <3> QED BY <2>4, <3>2, <3>3
  <2> QED BY <1>8, <2>1, <2>2, <2>3, <2>4
<1>11. ASSUME NEW i \in 1..Len(all)
       PROVE  EntryPlaced(all[i], r2, z)
  <2>1. CASE i \in 1..Len(log) /\ all[i] = log[i]
    BY <1>5, <2>1 DEF LogPlaced
  <2>2. CASE \E k \in 1..Len(new) : all[i] = new[k]
    BY <1>3, <2>2
  <2> QED BY <1>8, <2>1, <2>2
<1>12. LogPlaced(all, r2, z)
  BY <1>10, <1>11 DEF LogPlaced
<1> QED BY <1>4, <1>12 DEF all, new, r2

------------------------------------------------------------------------------
(***************************************************************************)
(* The inductive invariant.                                                *)
(***************************************************************************)
LinkInv ==
    /\ mMode \in {"THREADED", "RUN_TO_COMPLETION"}
    /\ RxInv(rx) /\ LogInv
    /\ SenderOK /\ WireOK /\ Numbered
    /\ RingPlaced(rx, origin) /\ LogPlaced(Log, rx, origin)
    /\ BundleAhead

\* Before the first fragment is numbered, nothing has been handed over.
LEMMA LogStarted ==
    ASSUME RingPlaced(rx, origin), LogPlaced(Log, rx, origin),
           NEW i \in 1..Len(Log)
    PROVE  ~rx.mFirstFrame
<1> DEFINE o == Log[i].mDeliveryOrder
<1>1. EntryPlaced(Log[i], rx, origin)
  BY DEF LogPlaced
<1>2. o \in Int /\ rx.mpBuckets[Slot(o)].mDeliveryOrder # NoOrder
  BY <1>1 DEF EntryPlaced
<1>3. Slot(o) \in 0..(Slots - 1)
  BY <1>2, SlotIsSlot
<1> HIDE DEF o
<1> QED BY <1>2, <1>3 DEF RingPlaced, Unused

LEMMA InitInv == LinkInit => LinkInv
<1> SUFFICES ASSUME LinkInit
             PROVE  LinkInv
  OBVIOUS
<1>1. PICK n \in StartNos : S!InitAt(n)
  BY DEF LinkInit
<1>2. /\ mSuperFrameNo = n /\ sent = <<>> /\ task = S!Idle
      /\ wire = {} /\ origin = 0
  BY <1>1 DEF LinkInit, S!InitAt
<1>3. n \in 0..(SeqSpace - 1)
  BY LinkAssumption
<1>4. Init
  BY DEF LinkInit
<1>5. RxInv(rx) /\ LogInv /\ mMode \in {"THREADED", "RUN_TO_COMPLETION"}
  BY <1>4, InitIInv, InitLogInv DEF IInv
<1>6. SenderOK
  <2>1. SentOK
    BY <1>2, <1>3, EmptyIsSeq DEF SentOK
  <2>2. RetentionOK(ret)
    BY <1>1 DEF S!InitAt, RetentionOK
  <2>3. TaskOK(task)
    BY <1>2 DEF TaskOK
  <2> QED BY <2>1, <2>2, <2>3 DEF SenderOK
<1>7. /\ rx.mFirstFrame = TRUE /\ bundle = NoBundle
      /\ callbacks = <<>> /\ mDeliveryQueue = <<>>
      /\ \A s \in 0..(Slots - 1) : rx.mpBuckets[s] = Unused
  BY <1>4 DEF Init
<1>8. WireOK /\ Numbered /\ BundleAhead
  BY <1>2, <1>7 DEF WireOK, Numbered, BundleAhead
<1>9. RingPlaced(rx, origin)
  <2>1. \A s : BucketPlaced(Unused, s, origin)
    BY DEF BucketPlaced, Unused
  <2> QED BY <1>7, <2>1 DEF RingPlaced
<1>10. LogPlaced(Log, rx, origin)
  <2>1. Len(Log) = 0
    BY <1>7, EmptyIsSeq, ConcatFacts DEF Log
  <2> QED BY <2>1 DEF LogPlaced
<1> QED BY <1>5, <1>6, <1>8, <1>9, <1>10 DEF LinkInv

\* What the sender appends disturbs nothing that was sent before.
LEMMA SentGrows ==
    ASSUME SentOK, Grows
    PROVE  /\ Len(sent) \in Nat /\ Len(sent') \in Nat /\ Len(sent) <= Len(sent')
           /\ \A f \in 1..Len(sent) : sent'[f] = sent[f]
<1>1. IsSeq(sent) /\ Len(sent) \in Nat
  BY LenIsNat DEF SentOK
<1>2. CASE UNCHANGED sent
  BY <1>1, <1>2
<1>3. ASSUME NEW m \in Frames, Accepts(m)
      PROVE  /\ Len(sent') = Len(sent) + 1
             /\ \A f \in 1..Len(sent) : sent'[f] = sent[f]
  BY <1>1, <1>3, AppendFacts DEF Accepts
<1> QED BY <1>1, <1>2, <1>3 DEF Grows

LEMMA NumberedKept ==
    ASSUME SentOK, Numbered, Grows, UNCHANGED <<rx, origin>>
    PROVE  Numbered'
<1>1. CASE UNCHANGED <<sent, mSuperFrameNo>>
  BY <1>1 DEF Numbered
<1>2. CASE \E m \in Frames : Accepts(m)
  <2>1. PICK m \in Frames : Accepts(m)
    BY <1>2
  <2>2. PICK z \in Int : z = origin
    BY DEF Numbered
  <2>3. NumberOf(z)' = NumberOf(z)
    BY <2>1, NumberKept DEF Accepts
  <2>4. Len(sent) \in Nat /\ Len(sent') \in Nat
        /\ mSuperFrameNo \in Int /\ mSuperFrameNo' \in Int
    <3>1. SentOK'
      BY <2>1, GenuineGrows DEF Accepts
    <3>2. mSuperFrameNo' \in 0..(SeqSpace - 1)
      BY <3>1 DEF SentOK
    <3> QED BY <3>2, SentGrows DEF SentOK
  <2>5. /\ mSuperFrameNo - Len(sent) - 1 + z
             = mSuperFrameNo - (Len(sent) - z) - 1
        /\ mSuperFrameNo' - Len(sent') - 1 + z
             = mSuperFrameNo' - (Len(sent') - z) - 1
    BY <2>4
  <2>6. (mSuperFrameNo' - Len(sent') - 1 + z) % SeqSpace
          = (mSuperFrameNo - Len(sent) - 1 + z) % SeqSpace
    BY <2>3, <2>5 DEF NumberOf
  <2> QED BY <2>2, <2>6 DEF Numbered
<1> QED BY <1>1, <1>2 DEF Grows

LEMMA PlacesGrow ==
    ASSUME RxInv(rx), Len(sent) \in Nat, Len(sent') \in Nat,
           Len(sent) <= Len(sent'),
           \A f \in 1..Len(sent) : sent'[f] = sent[f],
           UNCHANGED <<rx, origin>>, origin \in Int,
           RingPlaced(rx, origin), LogPlaced(Log, rx, origin), Log' = Log
    PROVE  RingPlaced(rx, origin)' /\ LogPlaced(Log, rx, origin)'
<1>1. \A k \in 1..Len(sent) : k \in 1..Len(sent') /\ sent'[k] = sent[k]
  OBVIOUS
<1>2. ASSUME NEW s \in 0..(Slots - 1)
      PROVE  BucketPlaced(rx.mpBuckets[s], s, origin)'
  <2>1. BucketPlaced(rx.mpBuckets[s], s, origin)
    BY DEF RingPlaced
  <2> QED BY <1>1, <2>1 DEF BucketPlaced
<1>3. RingPlaced(rx, origin)'
  BY <1>1, <1>2 DEF RingPlaced
<1>4. ASSUME NEW i \in 1..Len(Log)
      PROVE  EntryPlaced(Log[i], rx, origin)'
  <2>1. EntryPlaced(Log[i], rx, origin)
    BY DEF LogPlaced
  <2> QED BY <1>1, <2>1 DEF EntryPlaced
<1>5. LogPlaced(Log, rx, origin)'
  BY <1>4 DEF LogPlaced
<1> QED BY <1>3, <1>5

LEMMA BundleStays ==
    ASSUME Len(sent) \in Nat, Len(sent') \in Nat, Len(sent) <= Len(sent'),
           Genuine \subseteq Genuine', UNCHANGED <<rx, origin, bundle>>,
           BundleAhead
    PROVE  BundleAhead'
<1>1. CASE bundle = NoBundle
  BY <1>1 DEF BundleAhead
<1>2. CASE bundle # NoBundle
  <2> DEFINE F == {bundle.frames[i].frame : i \in 1..Len(bundle.frames)}
  <2>1. /\ bundle = [frames |-> bundle.frames,
                     aSourceId |-> bundle.aSourceId]
        /\ bundle.frames \in Seq(Genuine) /\ bundle.frames # <<>>
    BY <1>2 DEF BundleAhead
  <2>2. PICK hi \in 1..Len(sent) : Ahead(rx, origin, F, hi)
    BY <1>2 DEF BundleAhead
  <2>3. hi \in 1..Len(sent')
    OBVIOUS
  <2>4. Ahead(rx, origin, F, hi)'
    BY <2>2, <2>3 DEF Ahead
  <2>5. bundle.frames \in Seq(Genuine')
    BY <2>1
  <2> QED BY <2>1, <2>3, <2>4, <2>5 DEF BundleAhead
<1> QED BY <1>1, <1>2

\* A step of the sender, or a NACK that reaches it.
LEMMA SenderSideInv ==
    ASSUME LinkInv, SenderStep \/ NackArrives
    PROVE  LinkInv' /\ Grows /\ UNCHANGED <<Log, origin>>
<1>1. UNCHANGED receiverVars
  BY DEF SenderStep, NackArrives
<1>2. UNCHANGED <<mMode, rx, bundle, mDeliveryQueue, callbacks, origin>>
  BY <1>1 DEF receiverVars
<1>3. SenderOK' /\ Grows /\ Genuine \subseteq Genuine' /\ WireOK'
  BY SenderSideOK, WireStepOK DEF LinkInv
<1>4. Log' = Log
  BY <1>2 DEF Log
<1>5. /\ Len(sent) \in Nat /\ Len(sent') \in Nat /\ Len(sent) <= Len(sent')
      /\ \A f \in 1..Len(sent) : sent'[f] = sent[f]
  BY <1>3, SentGrows DEF LinkInv, SenderOK
<1>6. Numbered'
  BY <1>2, <1>3, NumberedKept DEF LinkInv, SenderOK
<1>7. RingPlaced(rx, origin)' /\ LogPlaced(Log, rx, origin)'
  BY <1>2, <1>4, <1>5, PlacesGrow DEF LinkInv, Numbered
<1>8. BundleAhead'
  BY <1>2, <1>3, <1>5, BundleStays DEF LinkInv
<1>9. RxInv(rx)' /\ LogInv' /\ mMode' \in {"THREADED", "RUN_TO_COMPLETION"}
  <2>1. RxInv(rx')
    BY <1>2 DEF LinkInv
  <2>2. LogInv'
    BY <1>2 DEF LinkInv, LogInv
  <2> QED BY <1>2, <2>1, <2>2 DEF LinkInv
<1> QED BY <1>2, <1>3, <1>4, <1>6, <1>7, <1>8, <1>9 DEF LinkInv

LEMMA SenderSideKept ==
    ASSUME SenderOK, WireOK, UNCHANGED <<senderVars, wire>>
    PROVE  SenderOK' /\ WireOK' /\ Genuine' = Genuine
<1>1. UNCHANGED <<mSuperFrameNo, ret, task, sent, wire>>
  BY DEF senderVars
<1>2. SentOK' /\ Genuine' = Genuine
  BY <1>1, GenuineKept DEF SenderOK
<1>3. RetentionOK(ret)'
  BY <1>1, <1>2 DEF SenderOK, RetentionOK
<1>4. TaskOK(task)'
  BY <1>1, <1>2 DEF SenderOK, TaskOK
<1>5. WireOK'
  <2>1. ASSUME NEW p \in wire
        PROVE  OnWire(p)'
    <3>1. OnWire(p)
      BY DEF WireOK
    <3> QED BY <1>2, <3>1, OnWireStays
  <2>2. \A p \in wire : \A f \in Carries(p) : f > Len(sent) - Window
    BY DEF WireOK
  <2> QED BY <1>1, <2>1, <2>2 DEF WireOK
<1> QED BY <1>2, <1>3, <1>4, <1>5 DEF SenderOK

\* RingPlaced and LogPlaced speak of the current sent.
LEMMA PlacesNext ==
    ASSUME UNCHANGED sent, RingPlaced(rx', origin'),
           LogPlaced(Log', rx', origin')
    PROVE  RingPlaced(rx, origin)' /\ LogPlaced(Log, rx, origin)'
<1>1. RingPlaced(rx, origin)'
  BY DEF RingPlaced, BucketPlaced
<1>2. LogPlaced(Log, rx, origin)'
  BY DEF LogPlaced, EntryPlaced
<1> QED BY <1>1, <1>2

\* What a packet on the wire carries is recent enough to be placed.
LEMMA AheadOfWire ==
    ASSUME LinkInv, NEW p \in wire, InReach(p),
           Carries(p) # {}, Carries(p) \subseteq 1..Len(sent)
    PROVE  Ahead(rx, origin, Carries(p), Len(sent))
<1> DEFINE F == Carries(p)
           hi == Len(sent)
<1>1. hi \in 1..Len(sent) /\ \A f \in F : f \in 1..hi /\ f > hi - Window
  <2>1. \A f \in F : f \in 1..hi /\ f > hi - Window
    BY DEF LinkInv, WireOK
  <2>2. Len(sent) \in Nat
    BY LenIsNat DEF LinkInv, SenderOK, SentOK
  <2>3. \E f \in F : f \in 1..hi
    BY <2>1
  <2> HIDE DEF F
  <2> QED BY <2>1, <2>2, <2>3
<1> HIDE DEF F
<1>2. ASSUME NEW s \in 0..(Slots - 1)
      PROVE  LET b == rx.mpBuckets[s]
             IN  /\ b.mDeliveryOrder # NoOrder => b.mDeliveryOrder + origin <= hi
                 /\ b.mActive => \A f \in F :
                                   f - b.mDeliveryOrder - origin < SeqSpace
  <2> DEFINE b == rx.mpBuckets[s]
  <2>1. BucketPlaced(b, s, origin)
    BY DEF LinkInv, RingPlaced
  <2>2. b.mDeliveryOrder # NoOrder => b.mDeliveryOrder + origin \in 1..Len(sent)
    BY <2>1 DEF BucketPlaced
  <2>3. b \in Buckets
    BY DEF LinkInv, RxInv, RingOK, Buckets
  <2>4. b.mActive => \A f \in F : f - b.mDeliveryOrder - origin < SeqSpace
    BY <2>3 DEF InReach, ActiveBuckets, F
  <2> HIDE DEF b
  <2>5. b.mDeliveryOrder # NoOrder => b.mDeliveryOrder + origin <= hi
    BY <2>2
  <2> QED BY <2>4, <2>5 DEF b
<1>3. ~rx.mFirstFrame =>
        /\ rx.mFrameNoRecalc + origin <= hi
        /\ \A f \in F : 2 * (f - rx.mFrameNoRecalc - origin) < SeqSpace
  <2> SUFFICES ASSUME ~rx.mFirstFrame
               PROVE  /\ rx.mFrameNoRecalc + origin <= hi
                      /\ \A f \in F :
                           2 * (f - rx.mFrameNoRecalc - origin) < SeqSpace
    OBVIOUS
  <2>1. rx.mFrameNoRecalc + origin \in 1..Len(sent)
    BY DEF LinkInv, RingPlaced
  <2>2. rx.mFrameNoRecalc + origin <= hi
    BY <2>1
  <2>3. \A f \in F : 2 * (f - rx.mFrameNoRecalc - origin) < SeqSpace
    BY DEF InReach, F
  <2> QED BY <2>2, <2>3
<1>4. Ahead(rx, origin, F, hi)
  BY <1>1, <1>2, <1>3 DEF Ahead
<1> QED BY <1>4 DEF F

\* One fragment of a packet or a bundle, whatever the handler makes of it.
LEMMA FragmentStepOK ==
    ASSUME LinkInv, UNCHANGED <<senderVars, wire>>,
           NEW F, NEW hi, Ahead(rx, origin, F, hi),
           NEW p \in Genuine, p.frame \in F,
           RxInv(rx'), Settles(rx, rx', p, p.frame, sent[p.frame]),
           UNCHANGED <<mMode, mDeliveryQueue, callbacks>>, Joins(p)
    PROVE  /\ RingPlaced(rx, origin)' /\ LogPlaced(Log, rx, origin)'
           /\ Numbered' /\ Log' = Log
           /\ Ahead(rx', origin', F, hi)
           /\ origin' = origin \/ rx.mFirstFrame
<1> DEFINE f == p.frame
<1>1. SentOK /\ Numbered /\ origin \in Int
  BY DEF LinkInv, SenderOK, Numbered
<1>2. /\ f \in 1..Len(sent) /\ p.mSuperFrameNo = NumberOf(f)
      /\ p.mSuperFrameNo \in 0..(SeqSpace - 1)
  BY <1>1, GenuineFacts
<1>3. ~rx.mFirstFrame => p.mSuperFrameNo = (f - origin) % SeqSpace
  <2>1. f \in Int
    BY <1>2
  <2> QED BY <1>1, <1>2, <2>1, NumberIsOrder
<1>4. rx'.mFirstFrame \in BOOLEAN /\ rx.mFirstFrame \in BOOLEAN
  BY DEF LinkInv, RxInv, NumbersOK
<1>5. origin' = IF rx.mFirstFrame /\ ~rx'.mFirstFrame
                  THEN f - rx'.mFrameNoRecalc ELSE origin
  BY DEF Joins
<1>6. Log' = Log
  BY DEF Log
<1>7. RxInv(rx) /\ RingPlaced(rx, origin) /\ LogPlaced(Log, rx, origin)
  BY DEF LinkInv
<1>8. Settles(rx, rx', p, f, sent[f]) /\ f \in F
  OBVIOUS
<1> HIDE DEF f
<1>9. /\ RingPlaced(rx', origin') /\ Ahead(rx', origin', F, hi)
      /\ LogPlaced(Log, rx', origin')
      /\ rx.mFirstFrame /\ ~rx'.mFirstFrame =>
           rx'.mFrameNoRecalc = p.mSuperFrameNo
      /\ ~rx.mFirstFrame => ~rx'.mFirstFrame
  BY <1>1, <1>2, <1>3, <1>4, <1>5, <1>7, <1>8, FragmentPlaces
<1>10. UNCHANGED <<sent, mSuperFrameNo>>
  BY DEF senderVars
<1>11. RingPlaced(rx, origin)' /\ LogPlaced(Log, rx, origin)'
  BY <1>6, <1>9, <1>10, PlacesNext
<1>12. Numbered'
  <2>1. CASE rx.mFirstFrame /\ ~rx'.mFirstFrame
    <3>1. origin' = f - NumberOf(f)
      BY <1>2, <1>5, <1>9, <2>1
    <3>2. f \in Int
      BY <1>2
    <3>3. /\ origin' \in Int
          /\ (mSuperFrameNo - Len(sent) - 1 + origin') % SeqSpace = 0
      BY <1>1, <3>1, <3>2, OriginFits
    <3> QED BY <1>10, <3>3 DEF Numbered
  <2>2. CASE ~(rx.mFirstFrame /\ ~rx'.mFirstFrame)
    <3>1. origin' = origin /\ (~rx'.mFirstFrame => ~rx.mFirstFrame)
      BY <1>5, <2>2
    <3> QED BY <1>1, <1>10, <3>1 DEF Numbered
  <2> QED BY <2>1, <2>2
<1> QED BY <1>5, <1>6, <1>9, <1>11, <1>12

\* What the receiver may do to the log in one step: nothing, where origin may
\* be fixed as long as nothing was handed over, or hand over one sorted pass.
Hands(new) ==
    /\ IsSeq(new)
    /\ \A i, j \in 1..Len(new) :
         i < j => new[i].mDeliveryOrder < new[j].mDeliveryOrder
    /\ Log' = Log \o new /\ origin' = origin

Logs == \/ Log' = Log /\ (origin' = origin \/ rx.mFirstFrame)
        \/ \E new : Hands(new)

\* A receiver step that leaves its state and its log alone.
LEMMA RestKept ==
    ASSUME LinkInv, UNCHANGED <<senderVars, wire>>,
           UNCHANGED <<mMode, rx, origin>>, Log' = Log, LogInv', BundleAhead'
    PROVE  LinkInv' /\ Logs
<1>1. SenderOK' /\ WireOK'
  BY SenderSideKept DEF LinkInv
<1>2. UNCHANGED <<sent, mSuperFrameNo>>
  BY DEF senderVars
<1>3. Numbered'
  BY <1>2 DEF LinkInv, Numbered
<1>4. RingPlaced(rx, origin)' /\ LogPlaced(Log, rx, origin)'
  <2>1. RingPlaced(rx', origin') /\ LogPlaced(Log', rx', origin')
    BY DEF LinkInv
  <2> QED BY <1>2, <2>1, PlacesNext
<1>5. RxInv(rx') /\ mMode' \in {"THREADED", "RUN_TO_COMPLETION"}
  BY DEF LinkInv
<1> QED BY <1>1, <1>3, <1>4, <1>5 DEF LinkInv, Logs

LEMMA ReceiveFragmentInv ==
    ASSUME LinkInv, UNCHANGED <<senderVars, wire>>,
           NEW p \in wire, InReach(p), Joins(p), NEW aSourceId, NEW memory,
           ReceiveFragment(p, aSourceId, memory)
    PROVE  LinkInv' /\ Logs
<1> DEFINE f == p.frame
<1>1. /\ bundle = NoBundle /\ bundle' = bundle
      /\ p.mFrameType \in {1, 2, 3}
      /\ rx' = Handle(rx, p, aSourceId, memory).rx
      /\ UNCHANGED <<mMode, mDeliveryQueue, callbacks>>
  BY DEF ReceiveFragment, Unlocked, HandlerReturns
<1>2. SentOK /\ RxInv(rx)
  BY DEF LinkInv, SenderOK
<1>3. p \in Genuine
  <2>1. OnWire(p)
    BY DEF LinkInv, WireOK
  <2> QED BY <1>1, <2>1 DEF OnWire
<1>4. /\ f \in 1..Len(sent) /\ sent[f] \in Frames /\ Accepted(sent[f])
      /\ p \in Cuts(f, sent[f], NumberOf(f)) /\ FragmentHeader(p)
  BY <1>2, <1>3, GenuineFacts
<1>5. Carries(p) = {f}
  BY <1>1 DEF Carries
<1> HIDE DEF f
<1>6. Ahead(rx, origin, Carries(p), Len(sent))
  BY <1>4, <1>5, AheadOfWire
<1>7. RxInv(rx')
  BY <1>1, <1>2, <1>4, HandleOK
<1>8. Settles(rx, rx', p, f, sent[f])
  BY <1>1, <1>2, <1>4, HandleSettles
<1>9. /\ RingPlaced(rx, origin)' /\ LogPlaced(Log, rx, origin)'
      /\ Numbered' /\ Log' = Log
      /\ origin' = origin \/ rx.mFirstFrame
  <2>1. p.frame \in Carries(p) /\ Settles(rx, rx', p, p.frame, sent[p.frame])
    BY <1>5, <1>8 DEF f
  <2> QED BY <1>1, <1>3, <1>6, <1>7, <2>1, FragmentStepOK
<1>10. SenderOK' /\ WireOK'
  BY SenderSideKept DEF LinkInv
<1>11. BundleAhead' /\ LogInv' /\ mMode' \in {"THREADED", "RUN_TO_COMPLETION"}
  BY <1>1 DEF BundleAhead, LinkInv, LogInv
<1> QED BY <1>7, <1>9, <1>10, <1>11 DEF LinkInv, Logs

LEMMA ReceiveBundleInv ==
    ASSUME LinkInv, UNCHANGED <<senderVars, wire>>,
           NEW p \in wire, InReach(p), Joins(p), NEW aSourceId,
           ReceiveBundle(p, aSourceId)
    PROVE  LinkInv' /\ Logs
<1>1. /\ bundle = NoBundle /\ p.mFrameType = 4
      /\ UNCHANGED <<mMode, rx, mDeliveryQueue, callbacks>>
      /\ IF p.frames = <<>> THEN UNCHANGED bundle
         ELSE bundle' = [frames |-> p.frames, aSourceId |-> aSourceId]
  BY DEF ReceiveBundle, Unlocked, HandlerReturns
<1>2. origin' = origin
  BY <1>1 DEF Joins
<1>3. Log' = Log /\ LogInv'
  BY <1>1 DEF Log, LinkInv, LogInv
<1>4. SentOK /\ Genuine' = Genuine /\ sent' = sent
  BY SenderSideKept DEF LinkInv, SenderOK, senderVars
<1>5. BundleAhead'
  <2>1. CASE p.frames = <<>>
    BY <1>1, <2>1 DEF BundleAhead
  <2>2. CASE p.frames # <<>>
    <3> DEFINE q == p.frames
               F == {q[i].frame : i \in 1..Len(q)}
    <3>1. q \in Seq(Genuine)
      <4>1. OnWire(p)
        BY DEF LinkInv, WireOK
      <4>2. p \notin Genuine
        BY <1>1, <1>4, GenuineFacts DEF FragmentHeader
      <4> QED BY <4>1, <4>2 DEF OnWire
    <3>2. Carries(p) = F
      BY <1>1 DEF Carries
    <3>3. F # {} /\ F \subseteq 1..Len(sent)
      <4> HIDE DEF q
      <4>1. q # <<>>
        BY <2>2 DEF q
      <4>2. Len(q) \in Nat /\ Len(q) # 0 /\ \A i \in 1..Len(q) : q[i] \in Genuine
        BY <3>1, <4>1
      <4>3. \A i \in 1..Len(q) : q[i].frame \in 1..Len(sent)
        BY <1>4, <4>2, GenuineFacts
      <4>4. 1 \in 1..Len(q)
        BY <4>2
      <4> QED BY <4>3, <4>4
    <3> HIDE DEF F
    <3>4. Ahead(rx, origin, F, Len(sent))
      BY <3>2, <3>3, AheadOfWire
    <3>5. Len(sent) \in 1..Len(sent)
      BY <3>4 DEF Ahead
    <3>6. /\ bundle' = [frames |-> bundle'.frames,
                        aSourceId |-> bundle'.aSourceId]
          /\ bundle'.frames = q
      BY <1>1, <2>2
    <3>7. F = {bundle.frames[i].frame : i \in 1..Len(bundle.frames)}'
      BY <3>6 DEF F
    <3>8. \E hi \in 1..Len(sent') :
            Ahead(rx, origin, {bundle.frames[i].frame :
                                 i \in 1..Len(bundle.frames)}, hi)'
      <4>1. PICK hi \in 1..Len(sent') : hi = Len(sent)
        BY <1>4, <3>5
      <4>2. Ahead(rx, origin, {bundle.frames[i].frame :
                                 i \in 1..Len(bundle.frames)}, hi)'
        BY <1>1, <1>2, <1>4, <3>4, <3>7, <4>1 DEF Ahead
      <4> QED BY <4>2
    <3>9. bundle'.frames \in Seq(Genuine') /\ bundle'.frames # <<>>
      BY <1>4, <2>2, <3>1, <3>6
    <3> QED BY <3>6, <3>8, <3>9 DEF BundleAhead
  <2> QED BY <2>1, <2>2
<1> QED BY <1>1, <1>2, <1>3, <1>5, RestKept

\* One round of handleType4: the rest of the bundle stays recent enough.
LEMMA BundleStepInv ==
    ASSUME LinkInv, UNCHANGED <<senderVars, wire>>,
           Joins(Head(bundle.frames)), NEW memory, BundleStep(memory)
    PROVE  LinkInv' /\ Logs
<1> DEFINE q == bundle.frames
           p == Head(q)
           f == p.frame
           F == {q[i].frame : i \in 1..Len(q)}
           round == BundleRound(bundle, rx, memory)
<1>1. /\ bundle # NoBundle /\ rx' = round.rx
      /\ IF round.rest = <<>> THEN bundle' = NoBundle
         ELSE bundle' = [bundle EXCEPT !.frames = round.rest]
      /\ UNCHANGED <<mMode, mDeliveryQueue, callbacks>>
  BY DEF BundleStep, Unlocked, HandlerReturns
<1>2. /\ bundle = [frames |-> q, aSourceId |-> bundle.aSourceId]
      /\ q \in Seq(Genuine) /\ q # <<>>
  BY <1>1 DEF LinkInv, BundleAhead
<1>3. PICK hi \in 1..Len(sent) : Ahead(rx, origin, F, hi)
  BY <1>1 DEF LinkInv, BundleAhead
<1>4. SentOK /\ RxInv(rx) /\ Genuine' = Genuine /\ sent' = sent
      /\ SenderOK' /\ WireOK'
  BY SenderSideKept DEF LinkInv, SenderOK, senderVars
<1>5. p \in Genuine /\ f \in F /\ Tail(q) \in Seq(Genuine)
      /\ {Tail(q)[i].frame : i \in 1..Len(Tail(q))} \subseteq F
  <2> HIDE DEF q
  <2>1. /\ Len(q) \in Nat /\ Len(q) >= 1 /\ Head(q) = q[1]
        /\ Len(Tail(q)) = Len(q) - 1
        /\ \A i \in 1..(Len(q) - 1) : Tail(q)[i] = q[i + 1]
    BY <1>2, SeqIsSeq, TailFacts, LenIsNat
  <2>2. \A i \in 1..(Len(q) - 1) : i + 1 \in 1..Len(q)
    BY <2>1
  <2>3. 1 \in 1..Len(q)
    BY <2>1
  <2>4. \A i \in 1..Len(q) : q[i] \in Genuine
    BY <1>2
  <2>5. Tail(q) \in Seq(Genuine)
    BY <1>2
  <2> QED BY <2>1, <2>2, <2>3, <2>4, <2>5
<1>6. /\ f \in 1..Len(sent) /\ sent[f] \in Frames /\ Accepted(sent[f])
      /\ p \in Cuts(f, sent[f], NumberOf(f)) /\ FragmentHeader(p)
  BY <1>4, <1>5, GenuineFacts
<1>7. \/ rx' = rx
      \/ rx' = Handle(rx, p, bundle.aSourceId, memory).rx
  BY <1>1 DEF BundleRound, Refused, Handle
<1>8. round.rest = Tail(q) \/ round.rest = <<>>
  BY DEF BundleRound
<1> HIDE DEF p, q, f, F, round
<1>9. RxInv(rx') /\ Settles(rx, rx', p, f, sent[f])
  <2>1. CASE rx' = rx
    BY <1>4, <2>1, RefusedSettles
  <2>2. CASE rx' = Handle(rx, p, bundle.aSourceId, memory).rx
    <3>1. RxInv(rx')
      BY <1>4, <1>6, <2>2, HandleOK
    <3>2. Settles(rx, rx', p, f, sent[f])
      BY <1>4, <1>6, <2>2, HandleSettles
    <3> QED BY <3>1, <3>2
  <2> QED BY <1>7, <2>1, <2>2
<1>10. /\ RingPlaced(rx, origin)' /\ LogPlaced(Log, rx, origin)'
       /\ Numbered' /\ Log' = Log
       /\ Ahead(rx', origin', F, hi)
       /\ origin' = origin \/ rx.mFirstFrame
  <2>1. /\ p.frame \in F /\ Settles(rx, rx', p, p.frame, sent[p.frame])
        /\ Joins(p)
    BY <1>5, <1>9 DEF f, p, q
  <2> QED BY <1>1, <1>3, <1>5, <1>9, <2>1, FragmentStepOK
<1>11. BundleAhead'
  <2>1. CASE bundle' = NoBundle
    BY <2>1 DEF BundleAhead
  <2>2. CASE bundle' # NoBundle
    <3>1. /\ bundle' = [frames |-> bundle'.frames,
                        aSourceId |-> bundle'.aSourceId]
          /\ bundle'.frames = Tail(q) /\ bundle'.frames # <<>>
      BY <1>1, <1>2, <1>8, <2>2
    <3> DEFINE G == {bundle.frames[i].frame : i \in 1..Len(bundle.frames)}
    <3>2. G' \subseteq F
      BY <1>5, <3>1
    <3> HIDE DEF G
    <3>3. Ahead(rx, origin, G, hi)'
      BY <1>4, <1>10, <3>2 DEF Ahead
    <3>4. \E h \in 1..Len(sent') : Ahead(rx, origin, G, h)'
      BY <1>3, <1>4, <3>3
    <3>5. bundle'.frames \in Seq(Genuine')
      BY <1>4, <1>5, <3>1
    <3> QED BY <3>1, <3>4, <3>5 DEF BundleAhead, G
  <2> QED BY <2>1, <2>2
<1>12. LogInv' /\ mMode' \in {"THREADED", "RUN_TO_COMPLETION"}
  BY <1>1 DEF LinkInv, LogInv
<1> QED BY <1>4, <1>9, <1>10, <1>11, <1>12 DEF LinkInv, Logs

\* FinishReceive, Poll and Worker: one pass of processTimeouts.
LEMMA PassInv ==
    ASSUME LinkInv, UNCHANGED <<senderVars, wire>>,
           Joins(Head(bundle.frames)), bundle = NoBundle,
           processTimeouts(rx), UNCHANGED <<mMode, bundle>>
    PROVE  LinkInv' /\ Logs
<1>1. PICK base \in BaseDelays :
        LET r == processNacks(rx, base)
        IN  /\ RxInv(r)
            /\ rx' = deliverFrames(r)
            /\ nacks' = nacks \cup NacksSent(rx, base)
            /\ Log' = Log \o FramesOut(r)
  BY PassGrowsLog DEF LinkInv
<1> DEFINE r == processNacks(rx, base)
           new == FramesOut(r)
<1>2. RxInv(r) /\ rx' = deliverFrames(r) /\ Log' = Log \o new
  BY <1>1
<1>3. LogInv'
  BY PassGrowsLog DEF LinkInv
<1>4. /\ RxInv(rx) /\ RingPlaced(rx, origin) /\ LogPlaced(Log, rx, origin)
      /\ IsSeq(Log) /\ SentOK
  BY ConcatFacts DEF LinkInv, LogInv, Log, SenderOK
<1>5. /\ RingPlaced(r, origin) /\ LogPlaced(Log, r, origin)
      /\ r.mFirstFrame = rx.mFirstFrame
      /\ r.mFrameNoRecalc = rx.mFrameNoRecalc
  BY <1>4, NacksPlaces
<1> HIDE DEF r
<1>6. /\ RingPlaced(deliverFrames(r), origin)
      /\ LogPlaced(Log \o new, deliverFrames(r), origin)
  BY <1>2, <1>4, <1>5, DeliverPlaces
<1>7. /\ rx'.mFirstFrame = rx.mFirstFrame
      /\ rx'.mFrameNoRecalc = rx.mFrameNoRecalc
  BY <1>2, <1>5, DeliverKeeps
<1>8. origin' = origin
  BY <1>7 DEF Joins
<1>9. RxInv(rx')
  BY <1>2, DeliverFramesOK
<1>10. /\ IsSeq(new)
       /\ \A i, j \in 1..Len(new) :
            i < j => new[i].mDeliveryOrder < new[j].mDeliveryOrder
  BY <1>2, FramesOutOK
<1> HIDE DEF new
<1>11. SenderOK' /\ WireOK' /\ UNCHANGED <<sent, mSuperFrameNo>>
  BY SenderSideKept DEF LinkInv, senderVars
<1>12. RingPlaced(rx, origin)' /\ LogPlaced(Log, rx, origin)'
  BY <1>2, <1>6, <1>8, <1>11, PlacesNext
<1>13. Numbered'
  BY <1>7, <1>8, <1>11 DEF LinkInv, Numbered
<1>14. BundleAhead' /\ mMode' \in {"THREADED", "RUN_TO_COMPLETION"}
  BY DEF BundleAhead, LinkInv
<1>15. Logs
  BY <1>2, <1>8, <1>10 DEF Logs, Hands
<1> QED BY <1>3, <1>9, <1>11, <1>12, <1>13, <1>14, <1>15 DEF LinkInv

LEMMA ReceiverSideInv ==
    ASSUME LinkInv, PacketArrives \/ ReceiverStep
    PROVE  LinkInv' /\ Logs /\ UNCHANGED sent
<1>1. UNCHANGED <<senderVars, wire>>
  BY DEF PacketArrives, ReceiverStep
<1>2. UNCHANGED sent
  BY <1>1 DEF senderVars
<1>3. CASE PacketArrives
  <2>1. PICK p \in wire, aSourceId \in Sources :
          InReach(p) /\ Receive(p, aSourceId) /\ Joins(p)
    BY <1>3 DEF PacketArrives
  <2>2. ASSUME NEW memory \in AllocOutcomes,
               ReceiveFragment(p, aSourceId, memory)
        PROVE  LinkInv' /\ Logs
    BY <1>1, <2>1, <2>2, ReceiveFragmentInv
  <2>3. CASE ReceiveSignal(p)
    <3>1. UNCHANGED <<mMode, rx, bundle, mDeliveryQueue, callbacks>>
      BY <2>3 DEF ReceiveSignal, HandlerReturns
    <3>2. origin' = origin
      BY <2>1, <3>1 DEF Joins
    <3>3. Log' = Log /\ LogInv' /\ BundleAhead'
      <4>1. Log' = Log /\ LogInv'
        BY <3>1 DEF Log, LinkInv, LogInv
      <4>2. UNCHANGED <<sent, mSuperFrameNo>> /\ Genuine' = Genuine
        BY <1>1, SenderSideKept DEF LinkInv, senderVars
      <4>3. Len(sent) \in Nat
        BY LenIsNat DEF LinkInv, SenderOK, SentOK
      <4>4. Len(sent') \in Nat /\ Len(sent) <= Len(sent')
        BY <4>2, <4>3
      <4>5. BundleAhead'
        BY <3>1, <3>2, <4>2, <4>3, <4>4, BundleStays DEF LinkInv
      <4> QED BY <4>1, <4>5
    <3> QED BY <1>1, <1>2, <3>1, <3>2, <3>3, RestKept
  <2>4. CASE ReceiveBundle(p, aSourceId)
    BY <1>1, <1>2, <2>1, <2>4, ReceiveBundleInv
  <2> QED BY <1>2, <2>1, <2>2, <2>3, <2>4 DEF Receive
<1>4. CASE ReceiverStep
  <2>1. Internal /\ Joins(Head(bundle.frames))
    BY <1>4 DEF ReceiverStep
  <2>2. ASSUME NEW memory \in AllocOutcomes, BundleStep(memory)
        PROVE  LinkInv' /\ Logs
    BY <1>1, <2>1, <2>2, BundleStepInv
  <2>3. CASE FinishReceive \/ Poll \/ Worker
    <3>1. /\ bundle = NoBundle /\ processTimeouts(rx)
          /\ UNCHANGED <<mMode, bundle>>
      BY <2>3 DEF FinishReceive, Poll, Worker, Unlocked
    <3> QED BY <1>1, <1>2, <2>1, <3>1, PassInv
  <2>4. CASE Delivery
    <3>1. UNCHANGED <<mMode, rx, bundle>>
      BY <2>4 DEF Delivery
    <3>2. origin' = origin
      BY <2>1, <3>1 DEF Joins
    <3>3. Log' = Log /\ LogInv'
      BY <2>4, DeliveryKeepsLog DEF LinkInv
    <3>4. BundleAhead'
      <4>1. UNCHANGED <<sent, mSuperFrameNo>> /\ Genuine' = Genuine
        BY <1>1, SenderSideKept DEF LinkInv, senderVars
      <4>2. Len(sent) \in Nat
        BY LenIsNat DEF LinkInv, SenderOK, SentOK
      <4>3. Len(sent') \in Nat /\ Len(sent) <= Len(sent')
        BY <4>1, <4>2
      <4> QED BY <3>1, <3>2, <4>1, <4>2, <4>3, BundleStays DEF LinkInv
    <3> QED BY <1>1, <1>2, <3>1, <3>2, <3>3, <3>4, RestKept
  <2> QED BY <1>2, <2>1, <2>2, <2>3, <2>4 DEF Internal
<1> QED BY <1>3, <1>4

\* The clock, and steps of others.
LEMMA QuietInv ==
    ASSUME LinkInv, LinkTick \/ UNCHANGED linkVars
    PROVE  LinkInv' /\ Logs /\ UNCHANGED sent
<1>1. UNCHANGED <<mSuperFrameNo, ret, task, sent, wire, origin>>
  BY DEF LinkTick, S!Tick, linkVars, senderVars, receiverVars
<1>2. UNCHANGED <<mMode, rx, bundle, mDeliveryQueue, callbacks>>
  BY DEF LinkTick, Tick, linkVars, receiverVars
<1>3. SenderOK' /\ WireOK' /\ Genuine' = Genuine
  <2>1. SentOK' /\ Genuine' = Genuine
    BY <1>1, GenuineKept DEF LinkInv, SenderOK
  <2>2. RetentionOK(ret)' /\ TaskOK(task)'
    BY <1>1, <2>1 DEF LinkInv, SenderOK, RetentionOK, TaskOK
  <2>3. ASSUME NEW p \in wire
        PROVE  OnWire(p)'
    <3>1. OnWire(p)
      BY DEF LinkInv, WireOK
    <3> QED BY <2>1, <3>1, OnWireStays
  <2>4. \A p \in wire : \A f \in Carries(p) : f > Len(sent) - Window
    BY DEF LinkInv, WireOK
  <2>5. WireOK'
    BY <1>1, <2>3, <2>4 DEF WireOK
  <2> QED BY <2>1, <2>2, <2>5 DEF SenderOK
<1>4. Numbered' /\ Log' = Log /\ LogInv'
  BY <1>1, <1>2 DEF LinkInv, Numbered, Log, LogInv
<1>5. RingPlaced(rx, origin)' /\ LogPlaced(Log, rx, origin)'
  <2>1. RingPlaced(rx', origin') /\ LogPlaced(Log', rx', origin')
    BY <1>1, <1>2, <1>4 DEF LinkInv
  <2> QED BY <1>1, <2>1, PlacesNext
<1>6. BundleAhead'
  <2>1. Len(sent) \in Nat
    BY LenIsNat DEF LinkInv, SenderOK, SentOK
  <2>2. Len(sent') \in Nat /\ Len(sent) <= Len(sent')
    BY <1>1, <2>1
  <2> QED BY <1>1, <1>2, <1>3, <2>1, <2>2, BundleStays DEF LinkInv
<1>7. RxInv(rx') /\ mMode' \in {"THREADED", "RUN_TO_COMPLETION"}
  BY <1>2 DEF LinkInv
<1> QED BY <1>1, <1>3, <1>4, <1>5, <1>6, <1>7 DEF LinkInv, Logs

\* What a step of the link is, seen from the two applications.
LEMMA LinkSteps ==
    ASSUME LinkInv, [LinkNext]_linkVars
    PROVE  /\ LinkInv'
           /\ \/ Grows /\ UNCHANGED <<Log, origin>>
              \/ UNCHANGED sent /\ Logs
<1>1. CASE SenderStep \/ NackArrives
  BY <1>1, SenderSideInv
<1>2. CASE PacketArrives \/ ReceiverStep
  BY <1>2, ReceiverSideInv
<1>3. CASE LinkTick \/ UNCHANGED linkVars
  BY <1>3, QuietInv
<1> QED BY <1>1, <1>2, <1>3 DEF LinkNext

\* The invariant holds in every state of every link.
THEOREM LinkInvariant == LinkSpec => []LinkInv
<1>1. LinkInv /\ [LinkNext]_linkVars => LinkInv'
  BY LinkSteps
<1> QED BY InitInv, <1>1, PTL DEF LinkSpec

\* The unwrapped numbers count SuperFrames: every frame handed over has the
\* place, and the number, of one that was sent, across every wrap.
THEOREM OrderIsPlace == LinkSpec => []OrderTracksIndex
<1>1. LinkInv => OrderTracksIndex
  <2> SUFFICES ASSUME LinkInv, NEW i \in 1..Len(Log)
               PROVE  /\ Place(Log[i]) \in 1..Len(sent)
                      /\ Log[i].mSuperFrameNo = NumberOf(Place(Log[i]))
    BY DEF OrderTracksIndex
  <2> DEFINE o == Log[i].mDeliveryOrder
             f == o + origin
  <2>1. o \in Int /\ f \in 1..Len(sent) /\ Log[i].mSuperFrameNo = o % SeqSpace
    BY DEF LinkInv, LogPlaced, EntryPlaced
  <2>2. f \in Int /\ origin \in Int
    BY <2>1 DEF LinkInv, Numbered
  <2>3. ~rx.mFirstFrame
    BY LogStarted DEF LinkInv
  <2> HIDE DEF o
  <2>4. f - origin = o
    BY <2>1, <2>2
  <2> HIDE DEF f
  <2>5. NumberOf(f) = (f - origin) % SeqSpace
    BY <2>2, <2>3, NumberIsOrder DEF LinkInv, SenderOK
  <2>6. Place(Log[i]) = f
    BY DEF Place, f, o
  <2> QED BY <2>1, <2>4, <2>5, <2>6
<1> QED BY LinkInvariant, <1>1, PTL

------------------------------------------------------------------------------
(***************************************************************************)
(* The link implements FrameDelivery.                                      *)
(***************************************************************************)
LEMMA GivenFacts ==
    ASSUME NEW s, IsSeq(s), NEW g, g = [n \in DOMAIN s |-> Content(n, s[n])]
    PROVE  /\ IsSeq(g) /\ Len(g) = Len(s) /\ DOMAIN g = 1..Len(s)
           /\ \A n \in 1..Len(s) : g[n] = Content(n, s[n])
<1>1. Len(s) \in Nat /\ DOMAIN s = 1..Len(s)
  BY LenIsNat DEF IsSeq
<1>2. g = [n \in 1..Len(s) |-> Content(n, s[n])]
  BY <1>1
<1> QED BY <1>1, <1>2, FunctionIsSeq

\* A frame of the receiver's log as the abstract link shows it.
HandedOver(x, z) ==
    [place |-> x.mDeliveryOrder + z, broken |-> x.mBroken,
     content |-> Received(x)]

HandedOn(log, z) == [i \in DOMAIN log |-> HandedOver(log[i], z)]

LEMMA DeliveredFacts ==
    ASSUME NEW log, IsSeq(log), NEW z
    PROVE  LET d == HandedOn(log, z)
           IN  /\ IsSeq(d) /\ Len(d) = Len(log) /\ DOMAIN d = 1..Len(log)
               /\ \A i \in 1..Len(log) : d[i] = HandedOver(log[i], z)
<1> DEFINE d == HandedOn(log, z)
<1>1. Len(log) \in Nat /\ DOMAIN log = 1..Len(log)
  BY LenIsNat DEF IsSeq
<1>2. d = [i \in 1..Len(log) |-> HandedOver(log[i], z)]
  BY <1>1 DEF HandedOn
<1> HIDE DEF d
<1>3. /\ IsSeq(d) /\ Len(d) = Len(log) /\ DOMAIN d = 1..Len(log)
      /\ \A i \in 1..Len(log) : d[i] = HandedOver(log[i], z)
  BY <1>1, <1>2, FunctionIsSeq
<1> QED BY <1>3 DEF d

LEMMA LogIsSeq ==
    ASSUME LogInv
    PROVE  IsSeq(Log) /\ Len(Log) \in Nat
<1>1. IsSeq(Log)
  BY ConcatFacts DEF LogInv, Log
<1> QED BY <1>1, LenIsNat

\* send of a SuperFrame that is taken is a Send of the abstract link.
LEMMA AcceptsSends ==
    ASSUME LinkInv, LinkInv', NEW m \in Frames, Accepts(m),
           UNCHANGED <<Log, origin>>
    PROVE  Promise!Send
<1> DEFINE n == Len(sent) + 1
<1>1. /\ IsSeq(sent) /\ IsSeq(sent') /\ Len(sent) \in Nat
      /\ Len(sent) < MaxSends /\ sent' = Append(sent, m) /\ MaxSends \in Nat
  BY LenIsNat, LinkAssumption DEF LinkInv, SenderOK, SentOK, Accepts
<1>2. /\ Len(sent') = n /\ sent'[n] = m
      /\ \A i \in 1..Len(sent) : sent'[i] = sent[i]
  BY <1>1, AppendFacts
<1>3. /\ IsSeq(Given) /\ Len(Given) = Len(sent)
      /\ \A i \in 1..Len(sent) : Given[i] = Content(i, sent[i])
  <2>1. Given = [i \in DOMAIN sent |-> Content(i, sent[i])]
    BY DEF Given
  <2> QED BY <1>1, <2>1, GivenFacts
<1>4. /\ IsSeq(Given') /\ Len(Given') = n
      /\ \A i \in 1..n : Given'[i] = Content(i, sent'[i])
  <2>1. Given' = [i \in DOMAIN sent' |-> Content(i, sent'[i])]
    BY DEF Given
  <2>2. /\ IsSeq(Given') /\ Len(Given') = Len(sent')
        /\ \A i \in 1..Len(sent') : Given'[i] = Content(i, sent'[i])
    BY <1>1, <2>1, GivenFacts
  <2> QED BY <1>2, <2>2
<1> DEFINE c == Content(n, m)
<1>5. /\ IsSeq(Append(Given, c)) /\ Len(Append(Given, c)) = n
      /\ \A i \in 1..Len(sent) : Append(Given, c)[i] = Given[i]
      /\ Append(Given, c)[n] = c
  BY <1>3, AppendFacts
<1>6. \A i \in 1..n : i \in 1..Len(sent) \/ i = n
  BY <1>1
<1> HIDE DEF c
<1>7. \A i \in 1..n : Given'[i] = Append(Given, c)[i]
  BY <1>2, <1>3, <1>4, <1>5, <1>6 DEF c
<1>8. Given' = Append(Given, c)
  BY <1>4, <1>5, <1>7, SameSeq
<1>9. c \in {Content(k, x) : k \in 1..MaxSends, x \in Frames}
  BY <1>1 DEF c
<1>10. Delivered' = Delivered
  BY DEF Delivered, Place
<1> QED BY <1>8, <1>9, <1>10 DEF Promise!Send

\* A pass that hands over frames is a Deliver of the abstract link.
LEMMA HandsDelivers ==
    ASSUME LinkInv, LinkInv', UNCHANGED sent, NEW new, Hands(new),
           new # <<>>
    PROVE  Promise!Deliver
<1> DEFINE n == Len(Log)
           k == Len(new)
           pass == SubSeq(Delivered', n + 1, Len(Delivered'))
<1>1. /\ IsSeq(new) /\ Log' = Log \o new /\ origin' = origin
      /\ IsSeq(Log) /\ n \in Nat /\ k \in Nat /\ k # 0
      /\ \A i, j \in 1..k :
           i < j => new[i].mDeliveryOrder < new[j].mDeliveryOrder
  <2>1. IsSeq(new) /\ k \in Nat
    BY LenIsNat DEF Hands
  <2>2. k # 0
    <3>1. Len(new) = 0 => new = <<>>
      BY <2>1, EmptyIsSeq, SameSeq
    <3> QED BY <3>1
  <2> QED BY <2>1, <2>2, LogIsSeq DEF LinkInv, Hands
<1>2. /\ IsSeq(Log') /\ Len(Log') = n + k
      /\ \A i \in 1..n : Log'[i] = Log[i]
      /\ \A i \in 1..k : Log'[n + i] = new[i]
  BY <1>1, ConcatFacts
<1>3. /\ IsSeq(Delivered) /\ Len(Delivered) = n /\ DOMAIN Delivered = 1..n
      /\ \A i \in 1..n : Delivered[i] = HandedOver(Log[i], origin)
  <2>1. Delivered = HandedOn(Log, origin)
    BY DEF Delivered, HandedOn, HandedOver, Place
  <2> HIDE DEF n, k, pass
  <2>2. LET d == HandedOn(Log, origin)
        IN  /\ IsSeq(d) /\ Len(d) = Len(Log) /\ DOMAIN d = 1..Len(Log)
            /\ \A i \in 1..Len(Log) : d[i] = HandedOver(Log[i], origin)
    BY ONLY <1>1, DeliveredFacts
  <2> QED BY <2>1, <2>2 DEF n
<1>4. /\ IsSeq(Delivered') /\ Len(Delivered') = n + k
      /\ \A i \in 1..(n + k) : Delivered'[i] = HandedOver(Log'[i], origin)
  <2>1. Delivered' = HandedOn(Log', origin)
    BY <1>1 DEF Delivered, HandedOn, HandedOver, Place
  <2> HIDE DEF n, k, pass
  <2>2. LET d == HandedOn(Log', origin)
        IN  /\ IsSeq(d) /\ Len(d) = Len(Log')
            /\ \A i \in 1..Len(Log') : d[i] = HandedOver(Log'[i], origin)
    BY ONLY <1>2, DeliveredFacts
  <2> QED BY <1>2, <2>1, <2>2
<1> HIDE DEF n, k
<1>5. /\ n \in 0..Len(Delivered')
      /\ \A i \in 1..n : i \in 1..(n + k)
      /\ \A i \in 1..k : n + i \in 1..(n + k)
      /\ (n + k) - n = k
  BY <1>1, <1>4
<1>6. SubSeq(Delivered', 1, n) = Delivered
  <2> DEFINE a == SubSeq(Delivered', 1, n)
  <2>1. /\ IsSeq(a) /\ Len(a) = n
        /\ \A i \in 1..n : a[i] = Delivered'[i]
    BY <1>4, <1>5, PrefixFacts
  <2> HIDE DEF a
  <2>2. \A i \in 1..n : a[i] = Delivered[i]
    BY <1>2, <1>3, <1>4, <1>5, <2>1
  <2>3. a = Delivered
    BY <1>3, <2>1, <2>2, SameSeq
  <2> QED BY <2>3 DEF a
<1>7. /\ IsSeq(pass) /\ Len(pass) = k
      /\ \A i \in 1..k : pass[i] = HandedOver(new[i], origin)
  <2>1. /\ IsSeq(pass) /\ Len(pass) = Len(Delivered') - n
        /\ \A i \in 1..(Len(Delivered') - n) : pass[i] = Delivered'[n + i]
    BY <1>4, <1>5, DropFacts
  <2> HIDE DEF pass
  <2> QED BY <1>2, <1>4, <1>5, <2>1
<1> HIDE DEF pass
<1>8. DOMAIN pass = 1..k /\ pass # <<>>
  <2>1. DOMAIN pass = 1..Len(pass)
    BY <1>7 DEF IsSeq
  <2>2. Len(<<>>) = 0
    BY EmptyIsSeq
  <2> QED BY <1>1, <1>7, <2>1, <2>2
<1>9. ASSUME NEW i \in 1..k
      PROVE  LET f == new[i].mDeliveryOrder + origin
             IN  /\ pass[i].place = f /\ f \in 1..Len(sent)
                 /\ ~new[i].mBroken => Received(new[i]) = Content(f, sent[f])
                 /\ new[i].mDeliveryOrder \in Int
  <2>1. n + i \in 1..Len(Log') /\ Log'[n + i] = new[i]
    BY <1>2, <1>5
  <2>2. PICK q \in 1..Len(Log') : q = n + i
    BY <2>1
  <2> DEFINE x == Log'[q]
             f == x.mDeliveryOrder + origin
  <2>3. /\ x.mDeliveryOrder \in Int /\ f \in 1..Len(sent)
        /\ ~x.mBroken => Received(x) = Content(f, sent[f])
    <3>1. EntryPlaced(Log[q], rx, origin)'
      BY DEF LinkInv, LogPlaced
    <3> QED BY <1>1, <3>1 DEF EntryPlaced
  <2> HIDE DEF x
  <2>4. x = new[i]
    BY <2>1, <2>2 DEF x
  <2>5. pass[i].place = new[i].mDeliveryOrder + origin
    BY <1>7 DEF HandedOver
  <2> QED BY <2>3, <2>4, <2>5
<1>10. ASSUME NEW i \in 1..k, NEW j \in 1..n
       PROVE  pass[i].place # Delivered[j].place
  <2>1. /\ n + i \in 1..Len(Log') /\ Log'[n + i] = new[i]
        /\ j \in 1..Len(Log') /\ Log'[j] = Log[j] /\ n + i # j
    BY <1>1, <1>2, <1>5
  <2>2. new[i].mDeliveryOrder # Log[j].mDeliveryOrder
    BY <2>1 DEF LinkInv, LogPlaced
  <2>3. /\ new[i].mDeliveryOrder \in Int /\ Log[j].mDeliveryOrder \in Int
        /\ origin \in Int
    BY <1>9 DEF LinkInv, LogPlaced, EntryPlaced, Numbered, n
  <2>4. Delivered[j].place = Log[j].mDeliveryOrder + origin
    BY <1>3 DEF HandedOver
  <2> QED BY <1>9, <2>2, <2>3, <2>4
<1>11. DOMAIN Given = 1..Len(sent) /\ Given' = Given
       /\ \A f \in 1..Len(sent) : Given[f] = Content(f, sent[f])
  <2>1. Given = [i \in DOMAIN sent |-> Content(i, sent[i])]
    BY DEF Given
  <2>2. IsSeq(sent)
    BY DEF LinkInv, SenderOK, SentOK
  <2>3. Given' = Given
    BY DEF Given
  <2> QED BY <2>1, <2>2, <2>3, GivenFacts
<1>12. Promise!Places(pass) \subseteq DOMAIN Given \ Promise!Places(Delivered)
  BY <1>3, <1>8, <1>9, <1>10, <1>11 DEF Promise!Places
<1>13. ASSUME NEW i \in DOMAIN pass, NEW j \in DOMAIN pass, i < j
       PROVE  pass[i].place < pass[j].place
  <2>1. /\ i \in 1..k /\ j \in 1..k
        /\ new[i].mDeliveryOrder < new[j].mDeliveryOrder
    BY <1>1, <1>8, <1>13
  <2>2. /\ pass[i].place = new[i].mDeliveryOrder + origin
        /\ pass[j].place = new[j].mDeliveryOrder + origin
        /\ new[i].mDeliveryOrder \in Int /\ new[j].mDeliveryOrder \in Int
        /\ origin \in Int
    BY <1>9, <2>1 DEF LinkInv, Numbered
  <2> QED BY <2>1, <2>2
<1>14. ASSUME NEW i \in DOMAIN pass, ~pass[i].broken
       PROVE  pass[i].content = Given[pass[i].place]
  <2>1. i \in 1..k
    BY <1>8
  <2>2. /\ pass[i].broken = new[i].mBroken
        /\ pass[i].content = Received(new[i])
    BY <1>7, <2>1 DEF HandedOver
  <2> QED BY <1>9, <1>11, <1>14, <2>1, <2>2
<1>15. n = Len(Delivered)
  BY <1>3
<1> QED BY <1>6, <1>8, <1>11, <1>12, <1>13, <1>14, <1>15
        DEF Promise!Deliver, pass

\* Every step of the link is one of the abstract link, or leaves it alone.
LEMMA StepImplements ==
    ASSUME LinkInv, [LinkNext]_linkVars
    PROVE  [Promise!Next]_(Promise!vars)
<1>1. LinkInv'
  BY LinkSteps
<1>2. CASE Grows /\ UNCHANGED <<Log, origin>>
  <2>1. CASE UNCHANGED sent
    BY <1>2, <2>1 DEF Promise!vars, Given, Delivered, Place
  <2>2. CASE \E m \in Frames : Accepts(m)
    BY <1>1, <1>2, <2>2, AcceptsSends DEF Promise!Next
  <2> QED BY <1>2, <2>1, <2>2 DEF Grows
<1>3. CASE UNCHANGED sent /\ Logs
  <2>1. Given' = Given
    BY <1>3 DEF Given
  <2>2. CASE Log' = Log /\ (origin' = origin \/ rx.mFirstFrame)
    <3>1. Delivered' = Delivered
      <4>1. CASE origin' = origin
        BY <2>2, <4>1 DEF Delivered, Place
      <4>2. CASE rx.mFirstFrame
        <5>1. IsSeq(Log) /\ Len(Log) \in Nat
          BY LogIsSeq DEF LinkInv
        <5>2. \A i : i \notin 1..Len(Log)
          BY <4>2, LogStarted DEF LinkInv
        <5>3. DOMAIN Log = {}
          BY <5>1, <5>2 DEF IsSeq
        <5> QED BY <2>2, <5>3 DEF Delivered
      <4> QED BY <2>2, <4>1, <4>2
    <3> QED BY <2>1, <3>1 DEF Promise!vars
  <2>3. CASE \E new : Hands(new)
    <3>1. PICK new : Hands(new)
      BY <2>3
    <3>2. CASE new = <<>>
      <4>1. IsSeq(Log)
        BY LogIsSeq DEF LinkInv
      <4>2. Log' = Log /\ origin' = origin
        BY <3>1, <3>2, <4>1, ConcatEmpty DEF Hands
      <4> QED BY <2>1, <4>2 DEF Promise!vars, Delivered, Place
    <3>3. CASE new # <<>>
      BY <1>1, <1>3, <3>1, <3>3, HandsDelivers DEF Promise!Next
    <3> QED BY <3>2, <3>3
  <2> QED BY <1>3, <2>2, <2>3 DEF Logs
<1> QED BY <1>2, <1>3, LinkSteps

LEMMA InitImplements == LinkInit => Promise!Init
<1> SUFFICES ASSUME LinkInit
             PROVE  Given = <<>> /\ Delivered = <<>>
  BY DEF Promise!Init
<1>1. sent = <<>> /\ callbacks = <<>> /\ mDeliveryQueue = <<>>
  BY DEF LinkInit, S!InitAt, Init
<1>2. Log = <<>>
  BY <1>1, EmptyIsSeq, ConcatEmpty DEF Log
<1> QED BY <1>1, <1>2 DEF Given, Delivered

\* What is delivered as not broken was sent, byte for byte, at most once, and
\* within a pass in the order sent, whatever the network does within LinkNext.
THEOREM Delivers == LinkSpec => DeliversFrames
<1>1. LinkInv /\ [LinkNext]_linkVars => [Promise!Next]_(Promise!vars)
  BY StepImplements
<1> QED BY InitImplements, LinkInvariant, <1>1, PTL
        DEF LinkSpec, DeliversFrames, Promise!Spec
==============================================================================
