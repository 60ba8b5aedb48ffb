----------------------------- MODULE ThreadsProofs -----------------------------
(***************************************************************************)
(* Proofs about Threads.tla: the mutexes are released as often as they are *)
(* taken, stop leaves both threads ended, no frame is lost on its way to   *)
(* the application, no bucket is collected twice, and no thread is inside  *)
(* a deleted receiver.                                                     *)
(*                                                                         *)
(* What an instruction may leave to do, Expand, is described once, without *)
(* the state it is met in.  What is proved of those bodies serves every    *)
(* invariant.                                                              *)
(***************************************************************************)
EXTENDS Threads, DataLemmas

------------------------------------------------------------------------------
(***************************************************************************)
(* Sequences.                                                              *)
(***************************************************************************)

\* The recursion of FlattenSeq.
FlattenSteps(ss, g) ==
    g = [i \in 1..Len(ss) |-> IF i = 1 THEN ss[i] ELSE g[i - 1] \o ss[i]]

LEMMA FlattenStepsExist ==
    ASSUME NEW ss, IsSeq(ss), Len(ss) # 0
    PROVE  /\ \E g : FlattenSteps(ss, g)
           /\ \E g : FlattenSteps(ss, g) /\ FlattenSeq(ss) = g[Len(ss)]
<1> DEFINE Steps(n, g) == g = [i \in 1..n |-> IF i = 1 THEN ss[i]
                                                ELSE g[i - 1] \o ss[i]]
           Good == {n \in Nat : \E g : Steps(n, g)}
<1>1. 0 \in Good
  <2>1. Steps(0, [i \in 1..0 |-> 0])
    OBVIOUS
  <2> QED BY <2>1
<1>2. ASSUME NEW n \in Nat, n \in Good
      PROVE  n + 1 \in Good
  <2>1. PICK g : Steps(n, g)
    BY <1>2
  <2> DEFINE v == IF n + 1 = 1 THEN ss[n + 1] ELSE g[n] \o ss[n + 1]
             h == [i \in 1..(n + 1) |-> IF i = n + 1 THEN v ELSE g[i]]
  <2>2. \A i \in 1..n : h[i] = g[i]
    OBVIOUS
  <2>3. h[n + 1] = v
    OBVIOUS
  <2>4. ASSUME NEW i \in 1..(n + 1)
        PROVE  h[i] = IF i = 1 THEN ss[i] ELSE h[i - 1] \o ss[i]
    <3>1. CASE i = n + 1
      <4>1. CASE n = 0
        BY <3>1, <4>1
      <4>2. CASE n # 0
        <5>1. n \in 1..n /\ i - 1 = n /\ i # 1
          BY <3>1, <4>2
        <5>2. h[i - 1] = g[n]
          BY <5>1, <2>2
        <5> HIDE DEF h
        <5> QED BY <2>3, <3>1, <5>1, <5>2
      <4> QED BY <4>1, <4>2
    <3>2. CASE i # n + 1
      <4>1. i \in 1..n
        BY <3>2
      <4>2. g[i] = IF i = 1 THEN ss[i] ELSE g[i - 1] \o ss[i]
        BY <2>1, <4>1
      <4>3. i # 1 => i - 1 \in 1..n
        BY <4>1
      <4>4. i # 1 => h[i - 1] = g[i - 1]
        BY <2>2, <4>3
      <4>5. h[i] = g[i]
        BY <2>2, <4>1
      <4> HIDE DEF h
      <4> QED BY <4>2, <4>4, <4>5
    <3> QED BY <3>1, <3>2
  <2>5. h = [i \in 1..(n + 1) |-> h[i]]
    OBVIOUS
  <2> HIDE DEF h
  <2>6. Steps(n + 1, h)
    BY <2>4, <2>5
  <2> HIDE DEF Steps
  <2> QED BY <2>6
<1> HIDE DEF Good
<1>3. \A n \in Nat : n \in Good
  BY <1>1, <1>2, NatStepByStep
<1>4. Len(ss) \in Good
  BY <1>3, LenIsNat
<1>5. \E g : FlattenSteps(ss, g)
  BY <1>4 DEF Good, FlattenSteps
<1> DEFINE f == CHOOSE g : FlattenSteps(ss, g)
<1>6. FlattenSteps(ss, f)
  BY <1>5
<1>7. FlattenSeq(ss) = f[Len(ss)]
  BY DEF FlattenSeq, FlattenSteps
<1> QED BY <1>5, <1>6, <1>7

LEMMA FlattenStep ==
    ASSUME NEW ss, NEW g, FlattenSteps(ss, g), NEW i \in 1..Len(ss)
    PROVE  g[i] = IF i = 1 THEN ss[i] ELSE g[i - 1] \o ss[i]
<1> DEFINE v(k) == IF k = 1 THEN ss[k] ELSE g[k - 1] \o ss[k]
<1>1. g = [k \in 1..Len(ss) |-> v(k)]
  BY DEF FlattenSteps
<1> HIDE DEF v
<1>2. g[i] = v(i)
  BY <1>1
<1> QED BY <1>2 DEF v

\* A set of sequences closed under concatenation holds what is flattened.
LEMMA FlattenIn ==
    ASSUME NEW C, <<>> \in C, \A s, t \in C : s \o t \in C,
           NEW ss, IsSeq(ss), \A i \in 1..Len(ss) : ss[i] \in C
    PROVE  FlattenSeq(ss) \in C
<1>1. CASE Len(ss) = 0
  <2>1. ss = <<>>
    BY <1>1, EmptySeq DEF IsSeq
  <2>2. FlattenSeq(ss) = ss
    BY <1>1 DEF FlattenSeq
  <2> QED BY <2>1, <2>2
<1>2. CASE Len(ss) # 0
  <2>1. PICK g : FlattenSteps(ss, g) /\ FlattenSeq(ss) = g[Len(ss)]
    BY <1>2, FlattenStepsExist
  <2> DEFINE Good == {n \in Nat : n \in 1..Len(ss) => g[n] \in C}
  <2>2. 0 \in Good
    OBVIOUS
  <2>3. ASSUME NEW n \in Nat, n \in Good
        PROVE  n + 1 \in Good
    <3> SUFFICES ASSUME n + 1 \in 1..Len(ss)
                 PROVE  g[n + 1] \in C
      OBVIOUS
    <3>1. g[n + 1] = IF n + 1 = 1 THEN ss[n + 1] ELSE g[n + 1 - 1] \o ss[n + 1]
      BY <2>1, FlattenStep
    <3>2. CASE n = 0
      BY <3>1, <3>2
    <3>3. CASE n # 0
      <4>1. n \in 1..Len(ss) /\ n + 1 # 1 /\ n + 1 - 1 = n
        BY <3>3, LenIsNat
      <4>2. g[n] \in C
        BY <2>3, <4>1
      <4>3. g[n + 1] = g[n] \o ss[n + 1] /\ ss[n + 1] \in C
        BY <3>1, <4>1
      <4> QED BY <4>2, <4>3
    <3> QED BY <3>2, <3>3
  <2> HIDE DEF Good
  <2>4. \A n \in Nat : n \in Good
    BY <2>2, <2>3, NatStepByStep
  <2>5. Len(ss) \in Nat /\ Len(ss) \in 1..Len(ss)
    BY <1>2, LenIsNat
  <2>6. Len(ss) \in Good
    BY <2>4, <2>5
  <2>7. g[Len(ss)] \in C
    BY <2>5, <2>6 DEF Good
  <2> QED BY <2>1, <2>7
<1> QED BY <1>1, <1>2

\* When only the last of them is not empty, it is what is left.
LEMMA FlattenLast ==
    ASSUME NEW ss, IsSeq(ss), Len(ss) # 0, IsSeq(ss[Len(ss)]),
           \A i \in 1..(Len(ss) - 1) : ss[i] = <<>>
    PROVE  FlattenSeq(ss) = ss[Len(ss)]
<1>1. PICK g : FlattenSteps(ss, g) /\ FlattenSeq(ss) = g[Len(ss)]
  BY FlattenStepsExist
<1> DEFINE Good == {n \in Nat : n \in 1..(Len(ss) - 1) => g[n] = <<>>}
<1>2. Len(ss) \in Nat
  BY LenIsNat
<1>3. 0 \in Good
  OBVIOUS
<1>4. ASSUME NEW n \in Nat, n \in Good
      PROVE  n + 1 \in Good
  <2> SUFFICES ASSUME n + 1 \in 1..(Len(ss) - 1)
               PROVE  g[n + 1] = <<>>
    OBVIOUS
  <2>1. g[n + 1] = IF n + 1 = 1 THEN ss[n + 1] ELSE g[n + 1 - 1] \o ss[n + 1]
    <3>1. n + 1 \in 1..Len(ss)
      BY <1>2
    <3> HIDE DEF Good
    <3> QED BY <1>1, <3>1, FlattenStep
  <2>2. ss[n + 1] = <<>>
    OBVIOUS
  <2>3. CASE n = 0
    BY <2>1, <2>2, <2>3
  <2>4. CASE n # 0
    <3>1. n \in 1..(Len(ss) - 1) /\ n + 1 # 1 /\ n + 1 - 1 = n
      BY <2>4, <1>2
    <3>2. g[n + 1] = <<>> \o <<>>
      BY <1>4, <2>1, <2>2, <3>1
    <3> QED BY <3>2, ConcatEmpty, EmptyIsSeq
  <2> QED BY <2>3, <2>4
<1>5. \A n \in Nat : n \in Good
  <2> HIDE DEF Good
  <2> QED BY <1>3, <1>4, NatStepByStep
<1> DEFINE n == Len(ss)
<1>6. g[n] = IF n = 1 THEN ss[n] ELSE g[n - 1] \o ss[n]
  <2>1. n \in 1..Len(ss)
    BY <1>2
  <2> QED BY <1>1, <2>1, FlattenStep
<1>7. CASE n = 1
  BY <1>1, <1>6, <1>7
<1>8. CASE n # 1
  <2>1. n - 1 \in Nat /\ n - 1 \in 1..(n - 1)
    <3>1. n \in Nat /\ n # 0 /\ n # 1
      BY <1>2, <1>8
    <3> HIDE DEF n
    <3> QED BY ONLY <3>1
  <2>2. g[n - 1] = <<>>
    BY <1>5, <2>1
  <2>3. <<>> \o ss[n] = ss[n]
    <3>1. ss[n] \in Seq({ss[n][i] : i \in 1..Len(ss[n])})
      BY DEF IsSeq
    <3> HIDE DEF n
    <3> QED BY <3>1, ConcatEmptySeq
  <2> QED BY <1>1, <1>6, <1>8, <2>2, <2>3
<1> QED BY <1>7, <1>8

------------------------------------------------------------------------------
(***************************************************************************)
(* Instructions, and what is left to do when one is done.                  *)
(***************************************************************************)
Packets == [frame : Frames, whole : BOOLEAN]
Ended(f) == [frame |-> f, whole |-> TRUE]

Instr(ops, X) == [op : ops, on : X]

Instrs ==
    Instr({"lock", "unlock"}, Mutexes)
      \cup Instr({"fragment", "sendCallback", "findSender", "findReceiver"},
                 Packets)
      \cup Instr({"request", "nack", "sent", "deliver", "push", "erase",
                  "callback"}, Frames)
      \cup Instr({"join"}, {"worker", "delivery"})
      \cup Instr({"delete"}, {"sender", "receiver"})
      \cup Instr({"retransmit", "processNacks", "collect", "await", "sleep",
                  "wake", "take", "stop", "notifyAll", "endSend",
                  "endReceive"}, {0})

\* What a call may be about.
Suits(call, p) ==
    /\ call \in Calls
    /\ call \in Carrying => p \in Packets
    /\ call = "receiveNack" => p \in Frames

\* The instructions of a call, of a callback and of what an instruction leaves
\* to do.
Needs(call, p) ==
    CASE call = "send" ->
           {Do("lock", mMutex), Do("sendCallback", p), Do("unlock", mMutex)}
      [] call = "receiveNack" ->
           {Do("lock", mMutex), Do("request", p), Do("unlock", mMutex)}
      [] call = "processRetransmits" ->
           {Do("lock", mMutex), Do("retransmit", 0), Do("unlock", mMutex)}
      [] call = "receive" ->
           {Do("lock", mNetMutex), Do("fragment", p), Do("unlock", mNetMutex)}
             \cup (IF Threaded THEN {} ELSE {Do("processNacks", 0)})
      [] call = "poll" ->
           IF Threaded THEN {}
           ELSE {Do("lock", mNetMutex), Do("processNacks", 0),
                 Do("unlock", mNetMutex)}
      [] call = "stop" -> {Do("lock", mDeliveryMutex), Do("stop", 0)}
      [] call = "efp_send_data" ->
           {Do("lock", gHandlesMutex), Do("findSender", p),
            Do("unlock", gHandlesMutex)}
      [] call = "efp_receive_fragment" ->
           {Do("lock", gHandlesMutex), Do("findReceiver", p),
            Do("unlock", gHandlesMutex)}
      [] call = "efp_end_send" ->
           {Do("lock", gHandlesMutex), Do("endSend", 0),
            Do("unlock", gHandlesMutex)}
      [] call = "efp_end_receive" ->
           {Do("lock", gHandlesMutex), Do("endReceive", 0),
            Do("unlock", gHandlesMutex)}

CallsNeed(wired, p) == UNION {Needs(wired[i], p) : i \in DOMAIN wired}

Expand(x) ==
    CASE x.op = "sendCallback" -> {Callback(wiring.onSend, x.on)}
      [] x.op = "retransmit" ->
           {<<>>} \cup {<<Do("sendCallback", Ended(f)), Do("retransmit", 0)>> :
                          f \in Frames}
      [] x.op = "processNacks" ->
           {Each("nack", S) \o <<Do("collect", 0)>> : S \in SUBSET Frames}
      [] x.op = "nack" ->
           {<<>>, Callback(wiring.onNack, x.on) \o <<Do("sent", x.on)>>}
      [] x.op = "collect" -> {Each("deliver", S) : S \in SUBSET Frames}
      [] x.op = "deliver" ->
           IF Threaded
             THEN {Under(mDeliveryMutex, <<Do("push", x.on)>>)
                     \o <<Do("erase", x.on)>>}
             ELSE {<<Do("callback", x.on), Do("erase", x.on)>>}
      [] x.op = "callback" -> {Callback(wiring.onReceive, Ended(x.on))}
      [] x.op = "await" -> {<<Do("take", 0)>>, <<Do("sleep", 0)>>}
      [] x.op = "sleep" -> {<<Do("wake", 0)>>}
      [] x.op = "wake" -> {Awaiting}
      [] x.op = "take" ->
           {<<Do("unlock", mDeliveryMutex)>> \o <<>>}
             \cup {<<Do("unlock", mDeliveryMutex)>> \o <<Do("callback", f)>> :
                     f \in Frames}
      [] x.op = "stop" ->
           {<<Do("unlock", mDeliveryMutex)>> \o <<>>,
            <<Do("unlock", mDeliveryMutex)>> \o
              <<Do("notifyAll", 0), Do("join", "worker"),
                Do("join", "delivery")>>}
      [] x.op = "findSender" -> {<<>>, Body("send", x.on)}
      [] x.op = "findReceiver" -> {<<>>, Body("receive", x.on)}
      [] x.op = "endReceive" ->
           {<<>>, StopBody \o StopBody \o <<Do("delete", "receiver")>>}
      [] x.op = "endSend" -> {<<>>, <<Do("delete", "sender")>>}
      [] OTHER -> {<<>>}

Makes(x) ==
    CASE x.op = "sendCallback" -> CallsNeed(wiring.onSend, x.on)
      [] x.op = "retransmit" ->
           {Do("sendCallback", Ended(f)) : f \in Frames}
             \cup {Do("retransmit", 0)}
      [] x.op = "processNacks" ->
           {Do("nack", f) : f \in Frames} \cup {Do("collect", 0)}
      [] x.op = "nack" ->
           CallsNeed(wiring.onNack, x.on) \cup {Do("sent", x.on)}
      [] x.op = "collect" -> {Do("deliver", f) : f \in Frames}
      [] x.op = "deliver" ->
           IF Threaded
             THEN {Do("lock", mDeliveryMutex), Do("push", x.on),
                   Do("unlock", mDeliveryMutex), Do("erase", x.on)}
             ELSE {Do("callback", x.on), Do("erase", x.on)}
      [] x.op = "callback" -> CallsNeed(wiring.onReceive, Ended(x.on))
      [] x.op = "await" -> {Do("take", 0), Do("sleep", 0)}
      [] x.op = "sleep" -> {Do("wake", 0)}
      [] x.op = "wake" -> {Do("lock", mDeliveryMutex), Do("await", 0)}
      [] x.op = "take" ->
           {Do("unlock", mDeliveryMutex)}
             \cup {Do("callback", f) : f \in Frames}
      [] x.op = "stop" ->
           {Do("unlock", mDeliveryMutex), Do("notifyAll", 0),
            Do("join", "worker"), Do("join", "delivery")}
      [] x.op = "findSender" -> Needs("send", x.on)
      [] x.op = "findReceiver" -> Needs("receive", x.on)
      [] x.op = "endReceive" ->
           {Do("lock", mDeliveryMutex), Do("stop", 0), Do("delete", "receiver")}
      [] x.op = "endSend" -> {Do("delete", "sender")}
      [] OTHER -> {}

LEMMA InstrFacts ==
    ASSUME NEW x \in Instrs
    PROVE  /\ x = Do(x.op, x.on)
           /\ x.op \in {"lock", "unlock"} => x.on \in Mutexes
           /\ x.op \in {"fragment", "sendCallback", "findSender",
                        "findReceiver"} => x.on \in Packets
           /\ x.op \in {"request", "nack", "sent", "deliver", "push", "erase",
                        "callback"} => x.on \in Frames
           /\ x.op = "join" => x.on \in {"worker", "delivery"}
           /\ x.op = "delete" => x.on \in {"sender", "receiver"}
           /\ x.op \in {"retransmit", "processNacks", "collect", "await",
                        "sleep", "wake", "take", "stop", "notifyAll",
                        "endSend", "endReceive"} => x.on = 0
           /\ x.op \in {"lock", "unlock", "fragment", "sendCallback",
                        "findSender", "findReceiver", "request", "nack",
                        "sent", "deliver", "push", "erase", "callback",
                        "join", "delete", "retransmit", "processNacks",
                        "collect", "await", "sleep", "wake", "take", "stop",
                        "notifyAll", "endSend", "endReceive"}
  BY DEF Instrs, Instr, Do

LEMMA DoFacts ==
    ASSUME NEW op, NEW x
    PROVE  Do(op, x).op = op /\ Do(op, x).on = x
  BY DEF Do

LEMMA DoIsInstr ==
    ASSUME NEW op, NEW x,
           \/ op \in {"lock", "unlock"} /\ x \in Mutexes
           \/ op \in {"fragment", "sendCallback", "findSender",
                      "findReceiver"} /\ x \in Packets
           \/ op \in {"request", "nack", "sent", "deliver", "push", "erase",
                      "callback"} /\ x \in Frames
           \/ op = "join" /\ x \in {"worker", "delivery"}
           \/ op = "delete" /\ x \in {"sender", "receiver"}
           \/ op \in {"retransmit", "processNacks", "collect", "await",
                      "sleep", "wake", "take", "stop", "notifyAll",
                      "endSend", "endReceive"} /\ x = 0
    PROVE  Do(op, x) \in Instrs
  BY DEF Instrs, Instr, Do

LEMMA SmallSeqs ==
    ASSUME NEW S
    PROVE  /\ <<>> \in Seq(S)
           /\ \A x \in S : <<x>> \in Seq(S)
           /\ \A x, y \in S : <<x, y>> \in Seq(S)
           /\ \A x, y, z \in S : <<x, y, z>> \in Seq(S)
           /\ \A s, t \in Seq(S) : s \o t \in Seq(S)
  BY EmptySeq, ConcatProperties

LEMMA JoinOne ==
    ASSUME NEW a
    PROVE  /\ <<a>> \o <<>> = <<a>>
           /\ \A b : <<a>> \o <<b>> = <<a, b>>
           /\ \A b, c, d : <<a>> \o <<b, c, d>> = <<a, b, c, d>>
<1>1. <<a>> \in Seq({a})
  BY SmallSeqs
<1>2. IsSeq(<<a>>) /\ Len(<<a>>) = 1 /\ <<a>>[1] = a
  BY <1>1, SeqIsSeq
<1>3. <<a>> \o <<>> = <<a>>
  BY <1>2, ConcatEmpty
<1>4. ASSUME NEW b
      PROVE  <<a>> \o <<b>> = <<a, b>>
  <2> DEFINE s == <<a>>
             t == <<b>>
             u == <<a, b>>
  <2>1. t \in Seq({a, b}) /\ u \in Seq({a, b})
    BY SmallSeqs
  <2>2. /\ IsSeq(t) /\ Len(t) = 1 /\ t[1] = b
        /\ IsSeq(u) /\ Len(u) = 2 /\ u[1] = a /\ u[2] = b
    BY <2>1, SeqIsSeq
  <2>3. IsSeq(s) /\ Len(s) = 1 /\ s[1] = a
    BY <1>2
  <2> HIDE DEF s, t, u
  <2>4. /\ IsSeq(s \o t) /\ Len(s \o t) = Len(s) + Len(t)
        /\ \A i \in 1..Len(s) : (s \o t)[i] = s[i]
        /\ \A i \in 1..Len(t) : (s \o t)[Len(s) + i] = t[i]
    <3>1. IsSeq(s) /\ IsSeq(t)
      BY <2>2, <2>3
    <3> QED BY ONLY <3>1, ConcatFacts
  <2>5. Len(s \o t) = 2 /\ (s \o t)[1] = a /\ (s \o t)[1 + 1] = b
    BY <2>2, <2>3, <2>4
  <2>6. \A i \in 1..Len(s \o t) : (s \o t)[i] = u[i]
    BY <2>2, <2>5
  <2>7. s \o t = u
    BY <2>2, <2>4, <2>5, <2>6, SameSeq
  <2> QED BY <2>7 DEF s, t, u
<1>5. ASSUME NEW b, NEW c, NEW d
      PROVE  <<a>> \o <<b, c, d>> = <<a, b, c, d>>
  <2> DEFINE s == <<a>>
             t == <<b, c, d>>
             u == <<a, b, c, d>>
  <2>1. t \in Seq({a, b, c, d})
    BY SmallSeqs
  <2>2. IsSeq(t) /\ Len(t) = 3 /\ t[1] = b /\ t[2] = c /\ t[3] = d
    BY <2>1, SeqIsSeq
  <2>3. IsSeq(s) /\ Len(s) = 1 /\ s[1] = a
    BY <1>2
  <2>4. u = [i \in 1..4 |-> u[i]] /\ u[1] = a /\ u[2] = b /\ u[3] = c /\ u[4] = d
    OBVIOUS
  <2> HIDE DEF s, t, u
  <2>5. IsSeq(u) /\ Len(u) = 4
    BY <2>4, FunctionIsSeq
  <2>6. /\ IsSeq(s \o t) /\ Len(s \o t) = Len(s) + Len(t)
        /\ \A i \in 1..Len(s) : (s \o t)[i] = s[i]
        /\ \A i \in 1..Len(t) : (s \o t)[Len(s) + i] = t[i]
    <3>1. IsSeq(s) /\ IsSeq(t)
      BY <2>2, <2>3
    <3> QED BY ONLY <3>1, ConcatFacts
  <2>7. /\ Len(s \o t) = 4 /\ (s \o t)[1] = a
        /\ (s \o t)[1 + 1] = b /\ (s \o t)[1 + 2] = c /\ (s \o t)[1 + 3] = d
    BY <2>2, <2>3, <2>6
  <2>8. \A i \in 1..Len(s \o t) : (s \o t)[i] = u[i]
    BY <2>4, <2>7
  <2>9. s \o t = u
    BY <2>5, <2>6, <2>7, <2>8, SameSeq
  <2> QED BY <2>9 DEF s, t, u
<1> QED BY <1>3, <1>4, <1>5

\* A call is made of what it needs.
LEMMA BodyNeeds ==
    ASSUME NEW call \in Calls, NEW p, NEW S, Needs(call, p) \subseteq S
    PROVE  Body(call, p) \in Seq(S)
<1> USE SmallSeqs DEF Under, Round, StopBody, ByHandle
<1>1. CASE call = "send"
  BY <1>1 DEF Needs, Body
<1>2. CASE call = "receiveNack"
  BY <1>2 DEF Needs, Body
<1>3. CASE call = "processRetransmits"
  BY <1>3 DEF Needs, Body
<1>4. CASE call = "receive"
  BY <1>4 DEF Needs, Body
<1>5. CASE call = "poll"
  BY <1>5 DEF Needs, Body
<1>6. CASE call = "stop"
  BY <1>6 DEF Needs, Body
<1>7. CASE call = "efp_send_data"
  BY <1>7 DEF Needs, Body
<1>8. CASE call = "efp_receive_fragment"
  BY <1>8 DEF Needs, Body
<1>9. CASE call = "efp_end_send"
  BY <1>9 DEF Needs, Body
<1>10. CASE call = "efp_end_receive"
  BY <1>10 DEF Needs, Body
<1> QED BY <1>1, <1>2, <1>3, <1>4, <1>5, <1>6, <1>7, <1>8, <1>9, <1>10
        DEF Calls, Carrying

LEMMA CallbackIn ==
    ASSUME NEW C, <<>> \in C, \A s, t \in C : s \o t \in C,
           NEW wired \in Seq(Calls), NEW p,
           \A i \in 1..Len(wired) : Body(wired[i], p) \in C
    PROVE  Callback(wired, p) \in C
<1> DEFINE ss == [i \in 1..Len(wired) |-> Body(wired[i], p)]
<1>1. Len(wired) \in Nat /\ DOMAIN wired = 1..Len(wired)
  BY LenProperties
<1>2. ss = [i \in 1..Len(wired) |-> ss[i]]
  OBVIOUS
<1>3. \A i \in 1..Len(wired) : ss[i] = Body(wired[i], p)
  OBVIOUS
<1>4. Callback(wired, p) = FlattenSeq(ss)
  BY <1>1 DEF Callback
<1> HIDE DEF ss
<1>5. IsSeq(ss) /\ Len(ss) = Len(wired)
  BY <1>1, <1>2, FunctionIsSeq
<1>6. \A i \in 1..Len(ss) : ss[i] \in C
  BY <1>3, <1>5
<1>7. FlattenSeq(ss) \in C
  BY <1>5, <1>6, FlattenIn
<1> QED BY <1>4, <1>7

LEMMA CallbackNeeds ==
    ASSUME NEW wired \in Seq(Calls), NEW p, NEW S,
           CallsNeed(wired, p) \subseteq S
    PROVE  Callback(wired, p) \in Seq(S)
<1> DEFINE C == Seq(S)
<1>1. <<>> \in C /\ \A s, t \in C : s \o t \in C
  BY SmallSeqs
<1>2. ASSUME NEW i \in 1..Len(wired)
      PROVE  Body(wired[i], p) \in C
  <2>1. wired[i] \in Calls /\ i \in DOMAIN wired
    BY LenProperties
  <2>2. Needs(wired[i], p) \subseteq S
    BY <2>1 DEF CallsNeed
  <2> QED BY <2>1, <2>2, BodyNeeds
<1> HIDE DEF C
<1>3. Callback(wired, p) \in C
  BY <1>1, <1>2, CallbackIn
<1> QED BY <1>3 DEF C

\* Each frame of the set once.
LEMMA EachFacts ==
    ASSUME NEW op, NEW S \in SUBSET Frames
    PROVE  /\ Each(op, S) \in Seq({Do(op, f) : f \in S})
           /\ \A i \in 1..Len(Each(op, S)) :
                Each(op, S)[i].op = op /\ Each(op, S)[i].on \in S
           /\ \A i, j \in 1..Len(Each(op, S)) :
                Each(op, S)[i].on = Each(op, S)[j].on => i = j
           /\ \A f \in S : \E i \in 1..Len(Each(op, S)) :
                Each(op, S)[i] = Do(op, f)
<1> DEFINE n == Cardinality(S)
           s == InOrder(S)
           e == Each(op, S)
<1>1. IsFiniteSet(S) /\ S \in SUBSET Int
  <2>1. IsFiniteSet(1..MaxFrames)
    BY ThreadsAssumption, FS_Interval
  <2>2. Frames \in SUBSET Int /\ IsFiniteSet(Frames)
    BY <2>1 DEF Frames
  <2>3. IsFiniteSet(S)
    BY ONLY <2>2, S \in SUBSET Frames, FS_Subset
  <2> QED BY ONLY <2>2, <2>3, S \in SUBSET Frames
<1>2. /\ n \in Nat
      /\ s \in [1..n -> S]
      /\ \A i, j \in 1..n : i < j => s[i] < s[j]
  BY <1>1, IncreasingExists DEF InOrder
<1>3. e = [i \in 1..n |-> Do(op, s[i])]
  BY DEF Each
<1> HIDE DEF e
<1>4. e = [i \in 1..n |-> e[i]]
  BY <1>3
<1>5. IsSeq(e) /\ Len(e) = n
  <2> HIDE DEF n
  <2> QED BY <1>2, <1>4, FunctionIsSeq
<1> HIDE DEF n, s
<1>6. \A i \in 1..n : e[i] = Do(op, s[i]) /\ s[i] \in S
  BY <1>2, <1>3
<1>7. e \in Seq({Do(op, f) : f \in S})
  <2> DEFINE D == {Do(op, f) : f \in S}
  <2>1. e \in [1..n -> D]
    BY <1>3, <1>6
  <2> HIDE DEF D
  <2>2. e \in Seq(D)
    BY <1>2, <2>1, IsASeq
  <2> QED BY <2>2 DEF D
<1>8. \A i, j \in 1..n : s[i] = s[j] => i = j
  <2> SUFFICES ASSUME NEW i \in 1..n, NEW j \in 1..n, s[i] = s[j], i # j
               PROVE  FALSE
    OBVIOUS
  <2>1. s[i] \in Int /\ s[j] \in Int
    BY <1>1, <1>2
  <2>2. i < j \/ j < i
    BY <1>2
  <2>3. s[i] < s[j] \/ s[j] < s[i]
    BY <1>2, <2>2
  <2> QED BY <2>1, <2>3
<1>9. \A f \in S : \E i \in 1..n : s[i] = f
  <2>1. s \in Injection(1..n, S)
    BY <1>2, <1>8 DEF Injection, IsInjective
  <2>2. IsFiniteSet(1..n) /\ Cardinality(1..n) = n
    BY <1>2, FS_Interval
  <2>3. IsFiniteSet(S) /\ Cardinality(1..n) = Cardinality(S)
    BY <1>1, <2>2 DEF n
  <2>4. s \in Surjection(1..n, S)
    <3> DEFINE T == 1..n
    <3>1. s \in Injection(T, S) /\ Cardinality(T) = Cardinality(S)
      BY <2>1, <2>3
    <3> HIDE DEF T
    <3>2. s \in Surjection(T, S)
      BY <2>3, <3>1, FS_Injection
    <3> QED BY <3>2 DEF T
  <2> QED BY <2>4 DEF Surjection
<1>10. \A i \in 1..n : e[i].op = op /\ e[i].on = s[i]
  BY <1>6, DoFacts
<1>11. \A i \in 1..Len(e) : e[i].op = op /\ e[i].on \in S
  BY <1>5, <1>6, <1>10
<1>12. \A i, j \in 1..Len(e) : e[i].on = e[j].on => i = j
  BY <1>5, <1>8, <1>10
<1>13. \A f \in S : \E i \in 1..Len(e) : e[i] = Do(op, f)
  BY <1>5, <1>6, <1>9
<1> QED BY <1>7, <1>11, <1>12, <1>13 DEF e

LEMMA WiredCalls ==
    ASSUME NEW w \in Wirings
    PROVE  /\ w.onSend \in Seq(Calls) /\ w.onReceive \in Seq(Calls)
           /\ w.onNack \in Seq(Calls)
           /\ \A i \in DOMAIN w.onSend :
                w.onSend[i] \in Calls \ {"receiveNack"}
           /\ \A i \in DOMAIN w.onReceive :
                w.onReceive[i] \in Calls \ {"receiveNack"}
           /\ \A i \in DOMAIN w.onNack : w.onNack[i] \in Calls \ Carrying
<1>1. WiringOK(w)
  BY ThreadsAssumption
<1>2. /\ Calls \ {"receiveNack"} \subseteq Calls
      /\ Calls \ Carrying \subseteq Calls
  OBVIOUS
<1> QED BY <1>1, <1>2, SeqMonotonic, LenProperties DEF WiringOK

\* What an instruction leaves to do is made of what Makes says.
LEMMA ExpandMakes ==
    ASSUME wiring \in Wirings, NEW x \in Instrs, NEW b \in Expand(x)
    PROVE  b \in Seq(Makes(x))
<1>0. /\ wiring.onSend \in Seq(Calls) /\ wiring.onReceive \in Seq(Calls)
      /\ wiring.onNack \in Seq(Calls)
  BY WiredCalls
<1>1. CASE x.op = "sendCallback"
  <2>1. b = Callback(wiring.onSend, x.on)
    BY <1>1 DEF Expand
  <2>2. Makes(x) = CallsNeed(wiring.onSend, x.on)
    BY <1>1 DEF Makes
  <2> QED BY <1>0, <2>1, <2>2, CallbackNeeds
<1>2. CASE x.op = "retransmit"
  <2>1. \/ b = <<>>
        \/ \E f \in Frames :
             b = <<Do("sendCallback", Ended(f)), Do("retransmit", 0)>>
    BY <1>2 DEF Expand
  <2>2. Makes(x) = {Do("sendCallback", Ended(f)) : f \in Frames}
                     \cup {Do("retransmit", 0)}
    BY <1>2 DEF Makes
  <2>3. /\ \A f \in Frames : Do("sendCallback", Ended(f)) \in Makes(x)
        /\ Do("retransmit", 0) \in Makes(x)
    BY <2>2
  <2> QED BY <2>1, <2>3, SmallSeqs
<1>3. CASE x.op = "processNacks"
  <2>1. PICK T \in SUBSET Frames : b = Each("nack", T) \o <<Do("collect", 0)>>
    BY <1>3 DEF Expand
  <2>2. Makes(x) = {Do("nack", f) : f \in Frames} \cup {Do("collect", 0)}
    BY <1>3 DEF Makes
  <2>3. Each("nack", T) \in Seq({Do("nack", f) : f \in T})
    BY EachFacts
  <2>4. {Do("nack", f) : f \in T} \subseteq Makes(x)
    BY <2>2
  <2>5. Each("nack", T) \in Seq(Makes(x))
    BY <2>3, <2>4, SeqMonotonic
  <2> QED BY <2>1, <2>2, <2>5, SmallSeqs
<1>4. CASE x.op = "nack"
  <2>1. b = <<>> \/ b = Callback(wiring.onNack, x.on) \o <<Do("sent", x.on)>>
    BY <1>4 DEF Expand
  <2>2. Makes(x) = CallsNeed(wiring.onNack, x.on) \cup {Do("sent", x.on)}
    BY <1>4 DEF Makes
  <2>3. Callback(wiring.onNack, x.on) \in Seq(Makes(x))
    BY <1>0, <2>2, CallbackNeeds
  <2> QED BY <2>1, <2>2, <2>3, SmallSeqs
<1>5. CASE x.op = "collect"
  <2>1. PICK T \in SUBSET Frames : b = Each("deliver", T)
    BY <1>5 DEF Expand
  <2>2. Makes(x) = {Do("deliver", f) : f \in Frames}
    BY <1>5 DEF Makes
  <2>3. Each("deliver", T) \in Seq({Do("deliver", f) : f \in T})
    BY EachFacts
  <2>4. {Do("deliver", f) : f \in T} \subseteq Makes(x)
    BY <2>2
  <2> QED BY <2>1, <2>3, <2>4, SeqMonotonic
<1>6. CASE x.op = "deliver"
  <2>1. b = IF Threaded
              THEN Under(mDeliveryMutex, <<Do("push", x.on)>>)
                     \o <<Do("erase", x.on)>>
              ELSE <<Do("callback", x.on), Do("erase", x.on)>>
    BY <1>6 DEF Expand
  <2>2. Makes(x) = IF Threaded
             THEN {Do("lock", mDeliveryMutex), Do("push", x.on),
                   Do("unlock", mDeliveryMutex), Do("erase", x.on)}
             ELSE {Do("callback", x.on), Do("erase", x.on)}
    BY <1>6 DEF Makes
  <2> QED BY <2>1, <2>2, SmallSeqs DEF Under
<1>7. CASE x.op = "callback"
  <2>1. b = Callback(wiring.onReceive, Ended(x.on))
    BY <1>7 DEF Expand
  <2>2. Makes(x) = CallsNeed(wiring.onReceive, Ended(x.on))
    BY <1>7 DEF Makes
  <2> QED BY <1>0, <2>1, <2>2, CallbackNeeds
<1>8. CASE x.op = "await"
  BY <1>8, SmallSeqs DEF Expand, Makes
<1>9. CASE x.op = "sleep"
  BY <1>9, SmallSeqs DEF Expand, Makes
<1>10. CASE x.op = "wake"
  BY <1>10, SmallSeqs DEF Expand, Makes, Awaiting
<1>11. CASE x.op = "take"
  <2>1. \/ b = <<Do("unlock", mDeliveryMutex)>> \o <<>>
        \/ \E f \in Frames :
             b = <<Do("unlock", mDeliveryMutex)>> \o <<Do("callback", f)>>
    BY <1>11 DEF Expand
  <2>2. Makes(x) = {Do("unlock", mDeliveryMutex)}
                     \cup {Do("callback", f) : f \in Frames}
    BY <1>11 DEF Makes
  <2>3. /\ Do("unlock", mDeliveryMutex) \in Makes(x)
        /\ \A f \in Frames : Do("callback", f) \in Makes(x)
    BY <2>2
  <2>4. /\ <<Do("unlock", mDeliveryMutex)>> \in Seq(Makes(x))
        /\ <<>> \in Seq(Makes(x))
        /\ \A f \in Frames : <<Do("callback", f)>> \in Seq(Makes(x))
    BY ONLY <2>3, SmallSeqs
  <2>5. \A p, q \in Seq(Makes(x)) : p \o q \in Seq(Makes(x))
    BY ONLY SmallSeqs
  <2> QED BY ONLY <2>1, <2>4, <2>5
<1>12. CASE x.op = "stop"
  <2>1. \/ b = <<Do("unlock", mDeliveryMutex)>> \o <<>>
        \/ b = <<Do("unlock", mDeliveryMutex)>> \o
                 <<Do("notifyAll", 0), Do("join", "worker"),
                   Do("join", "delivery")>>
    BY <1>12 DEF Expand
  <2>2. Makes(x) = {Do("unlock", mDeliveryMutex), Do("notifyAll", 0),
                    Do("join", "worker"), Do("join", "delivery")}
    BY <1>12 DEF Makes
  <2>3. /\ Do("unlock", mDeliveryMutex) \in Makes(x)
        /\ Do("notifyAll", 0) \in Makes(x)
        /\ Do("join", "worker") \in Makes(x)
        /\ Do("join", "delivery") \in Makes(x)
    BY <2>2
  <2> DEFINE u == <<Do("unlock", mDeliveryMutex)>>
             v == <<Do("notifyAll", 0), Do("join", "worker"),
                    Do("join", "delivery")>>
  <2>4. u \in Seq(Makes(x)) /\ v \in Seq(Makes(x)) /\ <<>> \in Seq(Makes(x))
    BY <2>3, SmallSeqs
  <2>5. b = u \o <<>> \/ b = u \o v
    BY <2>1
  <2> HIDE DEF u, v
  <2> QED BY <2>4, <2>5, SmallSeqs
<1>13. CASE x.op = "findSender"
  <2>1. b = <<>> \/ b = Body("send", x.on)
    BY <1>13 DEF Expand
  <2>2. Makes(x) = Needs("send", x.on)
    BY <1>13 DEF Makes
  <2>3. "send" \in Calls /\ Needs("send", x.on) \subseteq Makes(x)
    BY <2>2 DEF Calls, Carrying
  <2>4. Body("send", x.on) \in Seq(Makes(x))
    BY <2>3, BodyNeeds
  <2> QED BY <2>1, <2>4, SmallSeqs
<1>14. CASE x.op = "findReceiver"
  <2>1. b = <<>> \/ b = Body("receive", x.on)
    BY <1>14 DEF Expand
  <2>2. Makes(x) = Needs("receive", x.on)
    BY <1>14 DEF Makes
  <2>3. "receive" \in Calls /\ Needs("receive", x.on) \subseteq Makes(x)
    BY <2>2 DEF Calls, Carrying
  <2>4. Body("receive", x.on) \in Seq(Makes(x))
    BY <2>3, BodyNeeds
  <2> QED BY <2>1, <2>4, SmallSeqs
<1>15. CASE x.op = "endReceive"
  <2>1. \/ b = <<>>
        \/ b = StopBody \o StopBody \o <<Do("delete", "receiver")>>
    BY <1>15 DEF Expand
  <2>2. Makes(x) = {Do("lock", mDeliveryMutex), Do("stop", 0),
                    Do("delete", "receiver")}
    BY <1>15 DEF Makes
  <2>3. /\ Do("lock", mDeliveryMutex) \in Makes(x)
        /\ Do("stop", 0) \in Makes(x) /\ Do("delete", "receiver") \in Makes(x)
    BY <2>2
  <2>4. /\ StopBody \in Seq(Makes(x)) /\ <<>> \in Seq(Makes(x))
        /\ <<Do("delete", "receiver")>> \in Seq(Makes(x))
    BY <2>3, SmallSeqs DEF StopBody
  <2> QED BY <2>1, <2>4, SmallSeqs
<1>16. CASE x.op = "endSend"
  BY <1>16, SmallSeqs DEF Expand, Makes
<1>17. CASE x.op \in {"lock", "unlock", "fragment", "request", "sent", "push",
                      "erase", "join", "delete", "notifyAll"}
  <2>1. b = <<>>
    BY <1>17 DEF Expand
  <2> QED BY <2>1, SmallSeqs
<1> QED BY <1>1, <1>2, <1>3, <1>4, <1>5, <1>6, <1>7, <1>8, <1>9, <1>10,
           <1>11, <1>12, <1>13, <1>14, <1>15, <1>16, <1>17, InstrFacts

LEMMA NeedsTyped ==
    ASSUME NEW call, NEW p, Suits(call, p)
    PROVE  Needs(call, p) \subseteq Instrs
<1>0. /\ call \in Carrying => p \in Packets
      /\ call = "receiveNack" => p \in Frames
  BY DEF Suits
<1>1. CASE call = "send"
  BY <1>0, <1>1, DoIsInstr DEF Needs, Carrying, Mutexes
<1>2. CASE call = "receiveNack"
  BY <1>0, <1>2, DoIsInstr DEF Needs, Carrying, Mutexes
<1>3. CASE call = "processRetransmits"
  BY <1>3, DoIsInstr DEF Needs, Mutexes
<1>4. CASE call = "receive"
  <2>1. /\ Do("lock", mNetMutex) \in Instrs /\ Do("fragment", p) \in Instrs
        /\ Do("unlock", mNetMutex) \in Instrs
        /\ Do("processNacks", 0) \in Instrs
    BY <1>0, <1>4, DoIsInstr DEF Carrying, Mutexes
  <2> QED BY <1>4, <2>1 DEF Needs
<1>5. CASE call = "poll"
  <2>1. /\ Do("lock", mNetMutex) \in Instrs
        /\ Do("unlock", mNetMutex) \in Instrs
        /\ Do("processNacks", 0) \in Instrs
    BY DoIsInstr DEF Mutexes
  <2> QED BY <1>5, <2>1 DEF Needs
<1>6. CASE call = "stop"
  BY <1>6, DoIsInstr DEF Needs, Mutexes
<1>7. CASE call = "efp_send_data"
  BY <1>0, <1>7, DoIsInstr DEF Needs, Carrying, Mutexes
<1>8. CASE call = "efp_receive_fragment"
  BY <1>0, <1>8, DoIsInstr DEF Needs, Carrying, Mutexes
<1>9. CASE call = "efp_end_send"
  BY <1>9, DoIsInstr DEF Needs, Mutexes
<1>10. CASE call = "efp_end_receive"
  BY <1>10, DoIsInstr DEF Needs, Mutexes
<1> QED BY <1>1, <1>2, <1>3, <1>4, <1>5, <1>6, <1>7, <1>8, <1>9, <1>10
        DEF Suits, Calls, Carrying

LEMMA CallsNeedTyped ==
    ASSUME NEW wired, NEW p, \A i \in DOMAIN wired : Suits(wired[i], p)
    PROVE  CallsNeed(wired, p) \subseteq Instrs
  BY NeedsTyped DEF CallsNeed

LEMMA EndedIsPacket == \A f \in Frames : Ended(f) \in Packets
  BY DEF Ended, Packets

\* What the callbacks of a wiring are made of.
LEMMA WiringNeedsTyped ==
    ASSUME wiring \in Wirings
    PROVE  /\ \A p \in Packets : CallsNeed(wiring.onSend, p) \subseteq Instrs
           /\ \A p \in Packets : CallsNeed(wiring.onReceive, p) \subseteq Instrs
           /\ \A f \in Frames : CallsNeed(wiring.onNack, f) \subseteq Instrs
  BY WiredCalls, CallsNeedTyped DEF Suits

LEMMA MakesTyped ==
    ASSUME wiring \in Wirings, NEW x \in Instrs
    PROVE  Makes(x) \subseteq Instrs
<1>1. CASE x.op = "sendCallback"
  BY <1>1, InstrFacts, WiringNeedsTyped DEF Makes
<1>2. CASE x.op = "retransmit"
  BY <1>2, EndedIsPacket, DoIsInstr DEF Makes
<1>3. CASE x.op = "processNacks"
  BY <1>3, DoIsInstr DEF Makes
<1>4. CASE x.op = "nack"
  BY <1>4, InstrFacts, WiringNeedsTyped, DoIsInstr DEF Makes
<1>5. CASE x.op = "collect"
  BY <1>5, DoIsInstr DEF Makes
<1>6. CASE x.op = "deliver"
  <2>1. x.on \in Frames
    BY <1>6, InstrFacts
  <2>2. /\ Do("lock", mDeliveryMutex) \in Instrs
        /\ Do("unlock", mDeliveryMutex) \in Instrs
        /\ Do("push", x.on) \in Instrs /\ Do("erase", x.on) \in Instrs
        /\ Do("callback", x.on) \in Instrs
    BY <2>1, DoIsInstr DEF Mutexes
  <2> QED BY <1>6, <2>2 DEF Makes
<1>7. CASE x.op = "callback"
  BY <1>7, InstrFacts, WiringNeedsTyped, EndedIsPacket DEF Makes
<1>8. CASE x.op = "await"
  BY <1>8, DoIsInstr DEF Makes
<1>9. CASE x.op = "sleep"
  BY <1>9, DoIsInstr DEF Makes
<1>10. CASE x.op = "wake"
  BY <1>10, DoIsInstr DEF Makes, Mutexes
<1>11. CASE x.op = "take"
  BY <1>11, DoIsInstr DEF Makes, Mutexes
<1>12. CASE x.op = "stop"
  BY <1>12, DoIsInstr DEF Makes, Mutexes
<1>13. CASE x.op = "findSender"
  <2>1. Suits("send", x.on)
    BY <1>13, InstrFacts DEF Suits, Calls, Carrying
  <2> QED BY <1>13, <2>1, NeedsTyped DEF Makes
<1>14. CASE x.op = "findReceiver"
  <2>1. Suits("receive", x.on)
    BY <1>14, InstrFacts DEF Suits, Calls, Carrying
  <2> QED BY <1>14, <2>1, NeedsTyped DEF Makes
<1>15. CASE x.op = "endReceive"
  BY <1>15, DoIsInstr DEF Makes, Mutexes
<1>16. CASE x.op = "endSend"
  BY <1>16, DoIsInstr DEF Makes
<1>17. CASE x.op \in {"lock", "unlock", "fragment", "request", "sent", "push",
                      "erase", "join", "delete", "notifyAll"}
  BY <1>17 DEF Makes
<1> QED BY <1>1, <1>2, <1>3, <1>4, <1>5, <1>6, <1>7, <1>8, <1>9, <1>10,
           <1>11, <1>12, <1>13, <1>14, <1>15, <1>16, <1>17, InstrFacts

------------------------------------------------------------------------------
(***************************************************************************)
(* What every variable is.                                                 *)
(***************************************************************************)
TodoOK == wiring \in Wirings /\ todo \in [Threads -> Seq(Instrs)]

MutexOK == mutex \in [Mutexes -> [owner : Threads \cup {Nobody}, depth : Int]]

RestOK ==
    /\ ended \subseteq {"worker", "delivery"}
    /\ asleep \in BOOLEAN /\ mRunning \in BOOLEAN
    /\ mDeliveryReady \in BOOLEAN
    /\ mDeliveryQueue \in Seq(Frames) /\ mRetransmitQueue \in Seq(Frames)
    /\ bucket \in [Frames -> {"absent", "partial", "whole", "moved",
                              "delivered"}]
    /\ nacked \subseteq Frames /\ handles \subseteq {"sender", "receiver"}
    /\ nextFrame \in 1..(MaxFrames + 1) /\ calls \in 0..MaxCalls
    /\ pushed \in Seq(Frames) /\ delivered \in Seq(Frames)

Typed == TodoOK /\ MutexOK /\ RestOK

\* One thread's instructions, from those it had and the body in front.
LEMMA ThenFacts ==
    ASSUME NEW td \in [Threads -> Seq(Instrs)], NEW t \in Threads,
           td[t] # <<>>, NEW b \in Seq(Instrs),
           NEW td2, td2 = [td EXCEPT ![t] = b \o Tail(td[t])]
    PROVE  /\ td2 \in [Threads -> Seq(Instrs)]
           /\ \A u \in Threads \ {t} : td2[u] = td[u]
           /\ td2[t] = b \o Tail(td[t])
           /\ Len(b) \in Nat /\ Len(td[t]) \in Nat \ {0}
           /\ Head(td[t]) = td[t][1] /\ td[t][1] \in Instrs
           /\ Len(td2[t]) = Len(b) + Len(td[t]) - 1
           /\ \A i \in 1..Len(b) : td2[t][i] = b[i]
           /\ \A i \in 2..Len(td[t]) : td2[t][Len(b) + i - 1] = td[t][i]
<1> DEFINE s == td[t]
           r == Tail(s)
<1>1. s \in Seq(Instrs) /\ IsSeq(s) /\ IsSeq(b)
  BY SeqIsSeq
<1>2. Len(s) \in Nat /\ Len(b) \in Nat
  BY <1>1, LenIsNat
<1>3. /\ IsSeq(r) /\ Len(s) >= 1 /\ Head(s) = s[1] /\ Len(r) = Len(s) - 1
      /\ \A i \in 1..(Len(s) - 1) : r[i] = s[i + 1]
  BY <1>1, TailFacts
<1>4. r \in Seq(Instrs) /\ s[1] \in Instrs
  BY <1>1, <1>2, <1>3, HeadTailProperties
<1>5. /\ IsSeq(b \o r) /\ Len(b \o r) = Len(b) + Len(r)
      /\ \A i \in 1..Len(b) : (b \o r)[i] = b[i]
      /\ \A i \in 1..Len(r) : (b \o r)[Len(b) + i] = r[i]
  BY <1>1, <1>3, ConcatFacts
<1>6. b \o r \in Seq(Instrs)
  BY <1>4, SmallSeqs
<1>7. /\ td2 \in [Threads -> Seq(Instrs)] /\ td2[t] = b \o r
      /\ \A u \in Threads \ {t} : td2[u] = td[u]
  <2> DEFINE v == b \o r
  <2>1. v \in Seq(Instrs) /\ td2 = [td EXCEPT ![t] = v]
    BY <1>6
  <2> HIDE DEF v
  <2>2. /\ td2 \in [Threads -> Seq(Instrs)] /\ td2[t] = v
        /\ \A u \in Threads \ {t} : td2[u] = td[u]
    BY <2>1
  <2> QED BY <2>2 DEF v
<1> HIDE DEF s, r
<1>8. ASSUME NEW i \in 2..Len(s)
      PROVE  td2[t][Len(b) + i - 1] = s[i]
  <2> DEFINE k == i - 1
  <2>1. /\ k \in 1..Len(r) /\ k \in 1..(Len(s) - 1) /\ k + 1 = i
        /\ Len(b) + i - 1 = Len(b) + k
    BY <1>2, <1>3
  <2> HIDE DEF k
  <2>2. (b \o r)[Len(b) + k] = r[k]
    BY <1>5, <2>1
  <2>3. r[k] = s[i]
    BY <1>3, <2>1
  <2> QED BY <1>7, <2>1, <2>2, <2>3
<1>9. Len(td2[t]) = Len(b) + Len(s) - 1
  BY <1>2, <1>3, <1>5, <1>7
<1>10. \A i \in 1..Len(b) : td2[t][i] = b[i]
  BY <1>5, <1>7
<1>11. Len(s) \in Nat \ {0}
  BY <1>2, <1>3
<1> QED BY <1>2, <1>3, <1>4, <1>7, <1>8, <1>9, <1>10, <1>11 DEF s, r

\* Each place after it comes from the body or from what was left.
LEMMA ThenPlaces ==
    ASSUME NEW td \in [Threads -> Seq(Instrs)], NEW t \in Threads,
           td[t] # <<>>, NEW b \in Seq(Instrs),
           NEW td2, td2 = [td EXCEPT ![t] = b \o Tail(td[t])],
           NEW j \in 1..Len(td2[t])
    PROVE  \/ j \in 1..Len(b) /\ td2[t][j] = b[j]
           \/ \E i \in 2..Len(td[t]) :
                j = Len(b) + i - 1 /\ td2[t][j] = td[t][i]
<1>1. /\ Len(b) \in Nat /\ Len(td[t]) \in Nat \ {0}
      /\ Len(td2[t]) = Len(b) + Len(td[t]) - 1
      /\ \A i \in 1..Len(b) : td2[t][i] = b[i]
      /\ \A i \in 2..Len(td[t]) : td2[t][Len(b) + i - 1] = td[t][i]
  BY ThenFacts
<1> DEFINE n == Len(b)
           m == Len(td[t])
           k == j - n + 1
<1>2. CASE j <= n
  BY <1>1, <1>2
<1>3. CASE j > n
  <2>1. n \in Nat /\ m \in Nat \ {0} /\ j \in 1..(n + m - 1)
    BY <1>1
  <2> HIDE DEF n, m
  <2>2. k \in 2..m /\ j = n + k - 1
    BY <1>3, <2>1
  <2>3. td2[t][n + k - 1] = td[t][k]
    <3> HIDE DEF k
    <3> QED BY <1>1, <2>2 DEF n, m
  <2> HIDE DEF k
  <2>4. \E i \in 2..m : j = n + i - 1 /\ td2[t][j] = td[t][i]
    BY <2>2, <2>3
  <2> QED BY <2>4 DEF n, m
<1>4. j <= n \/ j > n
  BY <1>1
<1> QED BY <1>2, <1>3, <1>4

LEMMA PlacesOfSeq ==
    ASSUME NEW S, NEW s \in Seq(S)
    PROVE  /\ Range(s) = {s[i] : i \in 1..Len(s)}
           /\ Range(s) \subseteq S
           /\ Len(s) \in Nat /\ DOMAIN s = 1..Len(s)
<1>1. s \in [1..Len(s) -> S] /\ Len(s) \in Nat
  BY LenProperties
<1>2. DOMAIN s = 1..Len(s)
  BY <1>1
<1>3. Range(s) = {s[i] : i \in 1..Len(s)}
  BY <1>2 DEF Range
<1>4. \A i \in 1..Len(s) : s[i] \in S
  BY <1>1
<1> QED BY <1>1, <1>2, <1>3, <1>4

\* Nothing is in the empty sequence.
LEMMA NoneInEmpty == Range(<<>>) = {}
<1> DEFINE e == <<>>
           None == {}
<1>1. e \in Seq(None) /\ Len(e) = 0
  OBVIOUS
<1> HIDE DEF e, None
<1>2. Range(e) \subseteq None
  BY <1>1, PlacesOfSeq
<1> QED BY <1>2 DEF e, None

------------------------------------------------------------------------------
(***************************************************************************)
(* How a step changes what a thread has left to do.                        *)
(***************************************************************************)
Goes(t, b) == todo' = [todo EXCEPT ![t] = b \o Tail(todo[t])]

Starts(t, b) == todo[t] = <<>> /\ todo' = [todo EXCEPT ![t] = b]

LEMMA GoesFacts ==
    ASSUME TodoOK, NEW t \in Threads, todo[t] # <<>>, NEW b \in Seq(Instrs),
           Goes(t, b)
    PROVE  /\ \A u \in Threads \ {t} : todo'[u] = todo[u]
           /\ todo'[t] = b \o Tail(todo[t])
           /\ Len(b) \in Nat /\ Len(todo[t]) \in Nat \ {0}
           /\ Len(todo'[t]) = Len(b) + Len(todo[t]) - 1
           /\ \A i \in 1..Len(b) : todo'[t][i] = b[i]
           /\ \A i \in 2..Len(todo[t]) :
                todo'[t][Len(b) + i - 1] = todo[t][i]
<1> DEFINE td == todo
           td2 == todo'
<1>1. /\ td \in [Threads -> Seq(Instrs)] /\ td[t] # <<>>
      /\ td2 = [td EXCEPT ![t] = b \o Tail(td[t])]
  BY DEF TodoOK, Goes
<1> HIDE DEF td, td2
<1>2. /\ \A u \in Threads \ {t} : td2[u] = td[u]
      /\ td2[t] = b \o Tail(td[t])
      /\ Len(b) \in Nat /\ Len(td[t]) \in Nat \ {0}
      /\ Len(td2[t]) = Len(b) + Len(td[t]) - 1
      /\ \A i \in 1..Len(b) : td2[t][i] = b[i]
      /\ \A i \in 2..Len(td[t]) : td2[t][Len(b) + i - 1] = td[t][i]
  BY <1>1, ThenFacts
<1> QED BY <1>2 DEF td, td2

LEMMA GoesPlaces ==
    ASSUME TodoOK, NEW t \in Threads, todo[t] # <<>>, NEW b \in Seq(Instrs),
           Goes(t, b), NEW j \in 1..Len(todo'[t])
    PROVE  \/ j \in 1..Len(b) /\ todo'[t][j] = b[j]
           \/ \E i \in 2..Len(todo[t]) :
                j = Len(b) + i - 1 /\ todo'[t][j] = todo[t][i]
<1> DEFINE td == todo
           td2 == todo'
<1>1. /\ td \in [Threads -> Seq(Instrs)] /\ td[t] # <<>>
      /\ td2 = [td EXCEPT ![t] = b \o Tail(td[t])]
      /\ j \in 1..Len(td2[t])
  BY DEF TodoOK, Goes
<1> HIDE DEF td, td2
<1>2. \/ j \in 1..Len(b) /\ td2[t][j] = b[j]
      \/ \E i \in 2..Len(td[t]) :
           j = Len(b) + i - 1 /\ td2[t][j] = td[t][i]
  BY <1>1, ThenPlaces
<1> QED BY <1>2 DEF td, td2

LEMMA GoesRanges ==
    ASSUME TodoOK, NEW t \in Threads, todo[t] # <<>>, NEW b \in Seq(Instrs),
           Goes(t, b)
    PROVE  /\ Range(todo'[t]) \subseteq Range(b) \cup Range(todo[t])
           /\ Range(b) \subseteq Range(todo'[t])
           /\ Range(todo[t]) \subseteq {todo[t][1]} \cup Range(todo'[t])
           /\ todo[t][1] \in Range(todo[t])
<1> DEFINE td == todo
           td2 == todo'
<1>0. /\ td \in [Threads -> Seq(Instrs)] /\ td[t] # <<>>
      /\ td2 = [td EXCEPT ![t] = b \o Tail(td[t])]
  BY DEF TodoOK, Goes
<1> HIDE DEF td, td2
<1>1. /\ td2 \in [Threads -> Seq(Instrs)]
      /\ Len(b) \in Nat /\ Len(td[t]) \in Nat \ {0}
      /\ Len(td2[t]) = Len(b) + Len(td[t]) - 1
      /\ \A i \in 1..Len(b) : td2[t][i] = b[i]
      /\ \A i \in 2..Len(td[t]) : td2[t][Len(b) + i - 1] = td[t][i]
  BY <1>0, ThenFacts
<1>2. /\ Range(td2[t]) = {td2[t][i] : i \in 1..Len(td2[t])}
      /\ Range(td[t]) = {td[t][i] : i \in 1..Len(td[t])}
      /\ Range(b) = {b[i] : i \in 1..Len(b)}
  <2>1. td2[t] \in Seq(Instrs) /\ td[t] \in Seq(Instrs)
    BY <1>0, <1>1
  <2> QED BY <2>1, PlacesOfSeq
<1>3. ASSUME NEW j \in 1..Len(td2[t])
      PROVE  td2[t][j] \in Range(b) \cup Range(td[t])
  <2>1. CASE j \in 1..Len(b) /\ td2[t][j] = b[j]
    BY <1>2, <2>1
  <2>2. CASE \E i \in 2..Len(td[t]) :
               j = Len(b) + i - 1 /\ td2[t][j] = td[t][i]
    BY <1>1, <1>2, <2>2
  <2> QED BY <2>1, <2>2, <1>0, ThenPlaces
<1>4. ASSUME NEW j \in 1..Len(b)
      PROVE  b[j] \in Range(td2[t])
  <2>1. j \in 1..Len(td2[t])
    BY <1>1
  <2> QED BY <1>1, <1>2, <2>1
<1>5. ASSUME NEW i \in 1..Len(td[t]), i # 1
      PROVE  td[t][i] \in Range(td2[t])
  <2>1. i \in 2..Len(td[t]) /\ Len(b) + i - 1 \in 1..Len(td2[t])
    BY <1>1, <1>5
  <2>2. td2[t][Len(b) + i - 1] = td[t][i]
    BY <1>1, <2>1
  <2> QED BY <1>2, <2>1, <2>2
<1>6. 1 \in 1..Len(td[t])
  BY <1>1
<1>7. /\ Range(td2[t]) \subseteq Range(b) \cup Range(td[t])
      /\ Range(b) \subseteq Range(td2[t])
      /\ Range(td[t]) \subseteq {td[t][1]} \cup Range(td2[t])
      /\ td[t][1] \in Range(td[t])
  BY <1>2, <1>3, <1>4, <1>5, <1>6
<1> QED BY <1>7 DEF td, td2

LEMMA AtFacts ==
    ASSUME TodoOK, NEW t \in Threads, NEW op, At(t, op)
    PROVE  /\ todo[t] # <<>> /\ todo[t][1] \in Instrs
           /\ todo[t][1].op = op /\ Arg(t) = todo[t][1].on
           /\ todo[t][1] = Do(op, Arg(t))
<1>1. todo[t] \in Seq(Instrs) /\ IsSeq(todo[t]) /\ todo[t] # <<>>
  BY SeqIsSeq DEF TodoOK, At
<1>2. Head(todo[t]) = todo[t][1] /\ Len(todo[t]) >= 1 /\ Len(todo[t]) \in Nat
  BY <1>1, TailFacts, LenIsNat
<1>3. todo[t][1] \in Instrs
  BY <1>1, <1>2
<1>4. todo[t][1].op = op /\ Arg(t) = todo[t][1].on
  BY <1>2 DEF At, Arg
<1> QED BY <1>1, <1>3, <1>4, InstrFacts

LEMMA ThenGoes ==
    ASSUME NEW t, NEW b, Then(t, b)
    PROVE  Goes(t, b)
  BY DEF Then, Goes

Known(op) == op \in {"sendCallback", "retransmit", "processNacks", "nack",
                     "collect", "deliver", "callback", "await", "sleep",
                     "wake", "take", "stop", "findSender", "findReceiver",
                     "endReceive", "endSend"}

LEMMA ExpandOther ==
    ASSUME NEW x \in Instrs, ~Known(x.op)
    PROVE  Expand(x) = {<<>>}
  BY DEF Expand, Known

\* Each step of a thread leaves to do what Expand says.
LEMMA StepExpands ==
    ASSUME Typed, NEW t \in Threads, Acquire(t) \/ Step(t)
    PROVE  /\ todo[t] # <<>> /\ todo[t][1] \in Instrs
           /\ \E b \in Expand(todo[t][1]) : Goes(t, b)
<1> DEFINE x == todo[t][1]
           Done == \E b \in Expand(x) : Goes(t, b)
           Here(op) == todo[t] # <<>> /\ x \in Instrs /\ x.op = op
                         /\ Arg(t) = x.on
<1> SUFFICES todo[t] # <<>> /\ x \in Instrs /\ Done
  OBVIOUS
<1>0. \A op : At(t, op) => Here(op)
  BY AtFacts DEF Typed
<1>a. ASSUME NEW op, At(t, op), ~Known(op), Then(t, <<>>)
      PROVE  todo[t] # <<>> /\ x \in Instrs /\ Done
  BY <1>a, <1>0, ExpandOther, ThenGoes
<1>b. ASSUME NEW op, At(t, op), NEW b, Then(t, b), Here(op) => b \in Expand(x)
      PROVE  todo[t] # <<>> /\ x \in Instrs /\ Done
  BY <1>b, <1>0, ThenGoes
<1> HIDE DEF Done, Here
<1>1. CASE Acquire(t)
  BY <1>1, <1>a DEF Acquire, Known
<1>2. CASE Unlock(t)
  BY <1>2, <1>a DEF Unlock, Known
<1>3. CASE SendCallback(t)
  <2>1. Here("sendCallback") => Callback(wiring.onSend, Arg(t)) \in Expand(x)
    BY DEF Here, Expand
  <2> QED BY <1>3, <2>1, <1>b DEF SendCallback
<1>4. CASE Request(t)
  BY <1>4, <1>a DEF Request, Known
<1>5. CASE Retransmit(t)
  <2>1. CASE mRetransmitQueue = <<>>
    <3>1. Here("retransmit") => <<>> \in Expand(x)
      BY DEF Here, Expand
    <3> QED BY <1>5, <2>1, <3>1, <1>b DEF Retransmit
  <2>2. CASE mRetransmitQueue # <<>>
    <3> DEFINE f == Head(mRetransmitQueue)
    <3>1. f \in Frames
      BY <2>2 DEF Typed, RestOK
    <3>2. Here("retransmit")
            => <<Do("sendCallback", Ended(f)), Do("retransmit", 0)>> \in Expand(x)
      <4> HIDE DEF f
      <4> QED BY <3>1 DEF Here, Expand
    <3>3. Then(t, <<Do("sendCallback", Ended(f)), Do("retransmit", 0)>>)
      BY <1>5, <2>2 DEF Retransmit, Ended
    <3> HIDE DEF f
    <3> QED BY <1>5, <3>2, <3>3, <1>b DEF Retransmit
  <2> QED BY <2>1, <2>2
<1>6. CASE Fragment(t)
  BY <1>6, <1>a DEF Fragment, Known
<1>7. CASE ProcessNacks(t)
  <2>1. PICK due \in SUBSET Frames : Then(t, Each("nack", due) \o <<Do("collect", 0)>>)
    BY <1>7 DEF ProcessNacks, Partial
  <2>2. Here("processNacks")
          => Each("nack", due) \o <<Do("collect", 0)>> \in Expand(x)
    BY DEF Here, Expand
  <2> QED BY <1>7, <2>1, <2>2, <1>b DEF ProcessNacks
<1>8. CASE Nack(t)
  <2> DEFINE c == Callback(wiring.onNack, Arg(t)) \o <<Do("sent", Arg(t))>>
  <2>1. Then(t, <<>>) \/ Then(t, c)
    BY <1>8 DEF Nack
  <2>2. Here("nack") => <<>> \in Expand(x) /\ c \in Expand(x)
    BY DEF Here, Expand
  <2> HIDE DEF c
  <2> QED BY <1>8, <2>1, <2>2, <1>b DEF Nack
<1>9. CASE NackSent(t)
  BY <1>9, <1>a DEF NackSent, Known
<1>10. CASE Collect(t)
  <2>1. PICK S \in SUBSET Frames : Then(t, Each("deliver", S))
    <3>1. PICK late \in SUBSET Partial :
            Then(t, Each("deliver",
                      late \cup {f \in Frames :
                                   bucket[f] \in {"whole", "moved"}}))
      BY <1>10 DEF Collect
    <3> DEFINE S == late \cup {f \in Frames : bucket[f] \in {"whole", "moved"}}
    <3>2. S \in SUBSET Frames
      BY <3>1 DEF Partial
    <3>3. Then(t, Each("deliver", S))
      BY <3>1
    <3> HIDE DEF S
    <3> QED BY <3>2, <3>3
  <2>2. Here("collect") => Each("deliver", S) \in Expand(x)
    BY DEF Here, Expand
  <2> QED BY <1>10, <2>1, <2>2, <1>b DEF Collect
<1>11. CASE Deliver(t)
  <2> DEFINE c == Under(mDeliveryMutex, <<Do("push", Arg(t))>>)
                     \o <<Do("erase", Arg(t))>>
             d == <<Do("callback", Arg(t)), Do("erase", Arg(t))>>
  <2>1. Then(t, IF Threaded THEN c ELSE d)
    BY <1>11 DEF Deliver
  <2>2. Here("deliver") => (IF Threaded THEN c ELSE d) \in Expand(x)
    BY DEF Here, Expand
  <2> HIDE DEF c, d
  <2> QED BY <1>11, <2>1, <2>2, <1>b DEF Deliver
<1>12. CASE Push(t)
  BY <1>12, <1>a DEF Push, Known
<1>13. CASE Erase(t)
  BY <1>13, <1>a DEF Erase, Known
<1>14. CASE ReceiveCallback(t)
  <2>1. Here("callback")
          => Callback(wiring.onReceive, [frame |-> Arg(t), whole |-> TRUE])
               \in Expand(x)
    BY DEF Here, Expand, Ended
  <2> QED BY <1>14, <2>1, <1>b DEF ReceiveCallback
<1>15. CASE Await(t)
  <2>1. Then(t, <<Do("take", 0)>>) \/ Then(t, <<Do("sleep", 0)>>)
    BY <1>15 DEF Await
  <2>2. Here("await") => <<Do("take", 0)>> \in Expand(x)
                           /\ <<Do("sleep", 0)>> \in Expand(x)
    BY DEF Here, Expand
  <2> QED BY <1>15, <2>1, <2>2, <1>b DEF Await
<1>16. CASE Sleep(t)
  <2>1. Here("sleep") => <<Do("wake", 0)>> \in Expand(x)
    BY DEF Here, Expand
  <2> QED BY <1>16, <2>1, <1>b DEF Sleep
<1>17. CASE Wake(t)
  <2>1. Here("wake") => Awaiting \in Expand(x)
    BY DEF Here, Expand
  <2> QED BY <1>17, <2>1, <1>b DEF Wake
<1>18. CASE Take(t)
  <2> DEFINE u == <<Do("unlock", mDeliveryMutex)>>
             f == Head(mDeliveryQueue)
  <2>1. \/ Then(t, u \o <<>>)
        \/ mDeliveryQueue # <<>> /\ Then(t, u \o <<Do("callback", f)>>)
    BY <1>18 DEF Take
  <2>2. mDeliveryQueue # <<>> => f \in Frames
    BY DEF Typed, RestOK
  <2>3. Here("take") => u \o <<>> \in Expand(x)
    BY DEF Here, Expand
  <2>4. f \in Frames /\ Here("take") => u \o <<Do("callback", f)>> \in Expand(x)
    <3> HIDE DEF f
    <3> QED BY DEF Here, Expand
  <2> HIDE DEF u, f
  <2> QED BY <1>18, <2>1, <2>2, <2>3, <2>4, <1>b DEF Take
<1>19. CASE Stop(t)
  <2> DEFINE u == <<Do("unlock", mDeliveryMutex)>>
             j == <<Do("notifyAll", 0), Do("join", "worker"),
                         Do("join", "delivery")>>
  <2>1. Then(t, u \o <<>>) \/ Then(t, u \o j)
    BY <1>19 DEF Stop
  <2>2. Here("stop") => u \o <<>> \in Expand(x) /\ u \o j \in Expand(x)
    BY DEF Here, Expand
  <2> HIDE DEF u, j
  <2> QED BY <1>19, <2>1, <2>2, <1>b DEF Stop
<1>20. CASE NotifyAll(t)
  BY <1>20, <1>a DEF NotifyAll, Known
<1>21. CASE Join(t)
  BY <1>21, <1>a DEF Join, Known
<1>22. CASE Find(t)
  <2>1. CASE At(t, "findSender") /\ Then(t, IF "sender" \in handles
                                    THEN Body("send", Arg(t)) ELSE <<>>)
    <3>1. Here("findSender") => <<>> \in Expand(x) /\ Body("send", Arg(t)) \in Expand(x)
      BY DEF Here, Expand
    <3>2. Then(t, <<>>) \/ Then(t, Body("send", Arg(t)))
      BY <2>1
    <3> QED BY <2>1, <3>1, <3>2, <1>b
  <2>2. CASE At(t, "findReceiver") /\ Then(t, IF "receiver" \in handles
                                    THEN Body("receive", Arg(t)) ELSE <<>>)
    <3>1. Here("findReceiver") => <<>> \in Expand(x) /\ Body("receive", Arg(t)) \in Expand(x)
      BY DEF Here, Expand
    <3>2. Then(t, <<>>) \/ Then(t, Body("receive", Arg(t)))
      BY <2>2
    <3> QED BY <2>2, <3>1, <3>2, <1>b
  <2>3. CASE At(t, "endReceive") /\ Then(t, IF "receiver" \in handles
                       THEN StopBody \o StopBody \o <<Do("delete", "receiver")>>
                     ELSE <<>>)
    <3> DEFINE c == StopBody \o StopBody \o <<Do("delete", "receiver")>>
    <3>1. Here("endReceive") => <<>> \in Expand(x) /\ c \in Expand(x)
      BY DEF Here, Expand
    <3>2. Then(t, <<>>) \/ Then(t, c)
      BY <2>3
    <3> HIDE DEF c
    <3> QED BY <2>3, <3>1, <3>2, <1>b
  <2>4. CASE At(t, "endSend") /\ Then(t, IF "sender" \in handles
                                THEN <<Do("delete", "sender")>> ELSE <<>>)
    <3> DEFINE c == <<Do("delete", "sender")>>
    <3>1. Here("endSend") => <<>> \in Expand(x) /\ c \in Expand(x)
      BY DEF Here, Expand
    <3>2. Then(t, <<>>) \/ Then(t, c)
      BY <2>4
    <3> HIDE DEF c
    <3> QED BY <2>4, <3>1, <3>2, <1>b
  <2> QED BY <1>22, <2>1, <2>2, <2>3, <2>4 DEF Find
<1>23. CASE Delete(t)
  BY <1>23, <1>a DEF Delete, Known
<1> QED
  BY <1>1, <1>2, <1>3, <1>4, <1>5, <1>6, <1>7, <1>8, <1>9, <1>10, <1>11,
     <1>12, <1>13, <1>14, <1>15, <1>16, <1>17, <1>18, <1>19, <1>20, <1>21,
     <1>22, <1>23 DEF Step

LEMMA ExpandTyped ==
    ASSUME wiring \in Wirings, NEW x \in Instrs, NEW b \in Expand(x)
    PROVE  b \in Seq(Instrs)
  BY ExpandMakes, MakesTyped, SeqMonotonic

LEMMA BodyTyped ==
    ASSUME NEW call, NEW p, Suits(call, p)
    PROVE  Body(call, p) \in Seq(Instrs)
<1>1. call \in Calls
  BY DEF Suits
<1> QED BY <1>1, BodyNeeds, NeedsTyped

\* A call of the application.
Begins(t) ==
    \E call \in wiring.menu[t] : \E p :
      Suits(call, p) /\ Starts(t, Body(call, p))

LEMMA CallBegins ==
    ASSUME Typed, NEW t \in Apps, Call(t)
    PROVE  Begins(t)
<1>1. wiring.menu[t] \subseteq Calls
  <2>1. WiringOK(wiring)
    BY ThreadsAssumption DEF Typed, TodoOK
  <2> QED BY <2>1 DEF WiringOK
<1>2. todo[t] = <<>>
  BY DEF Call
<1>3. PICK call \in wiring.menu[t] :
         \/ /\ call \in Carrying /\ nextFrame <= MaxFrames
            /\ \E whole \in BOOLEAN :
                 todo' = [todo EXCEPT ![t] =
                   Body(call, [frame |-> nextFrame, whole |-> whole])]
         \/ /\ call = "receiveNack"
            /\ \E f \in nacked : todo' = [todo EXCEPT ![t] = Body(call, f)]
         \/ /\ call \notin Carrying \cup {"receiveNack"}
            /\ todo' = [todo EXCEPT ![t] = Body(call, 0)]
  BY DEF Call
<1>4. CASE /\ call \in Carrying /\ nextFrame <= MaxFrames
           /\ \E whole \in BOOLEAN :
                todo' = [todo EXCEPT ![t] =
                  Body(call, [frame |-> nextFrame, whole |-> whole])]
  <2>1. nextFrame \in Frames
    BY <1>4, ThreadsAssumption DEF Typed, RestOK, Frames
  <2>2. PICK whole \in BOOLEAN :
           todo' = [todo EXCEPT ![t] =
                      Body(call, [frame |-> nextFrame, whole |-> whole])]
    BY <1>4
  <2>3. [frame |-> nextFrame, whole |-> whole] \in Packets
    BY <2>1 DEF Packets
  <2>4. Suits(call, [frame |-> nextFrame, whole |-> whole])
    BY <1>1, <1>4, <2>3 DEF Suits, Carrying
  <2> QED BY <1>2, <2>2, <2>4 DEF Begins, Starts
<1>5. CASE /\ call = "receiveNack"
           /\ \E f \in nacked : todo' = [todo EXCEPT ![t] = Body(call, f)]
  <2>1. PICK f \in nacked : todo' = [todo EXCEPT ![t] = Body(call, f)]
    BY <1>5
  <2>2. Suits(call, f)
    BY <1>1, <1>5, <2>1 DEF Suits, Carrying, Typed, RestOK
  <2> QED BY <1>2, <2>1, <2>2 DEF Begins, Starts
<1>6. CASE /\ call \notin Carrying \cup {"receiveNack"}
           /\ todo' = [todo EXCEPT ![t] = Body(call, 0)]
  <2>1. Suits(call, 0)
    BY <1>1, <1>6 DEF Suits
  <2> QED BY <1>2, <1>6, <2>1 DEF Begins, Starts
<1> QED BY <1>3, <1>4, <1>5, <1>6

LEMMA LoopsTyped == Round \in Seq(Instrs) /\ Awaiting \in Seq(Instrs)
<1>1. /\ Do("lock", mNetMutex) \in Instrs
      /\ Do("processNacks", 0) \in Instrs
      /\ Do("unlock", mNetMutex) \in Instrs
      /\ Do("lock", mDeliveryMutex) \in Instrs
      /\ Do("await", 0) \in Instrs
  BY DoIsInstr DEF Mutexes
<1> QED BY <1>1, SmallSeqs DEF Round, Under, Awaiting

\* What a thread that starts anew has to do, and where.
StartsFacts(td, t, b, td2) ==
    /\ td2 \in [Threads -> Seq(Instrs)]
    /\ td2[t] = b
    /\ \A u \in Threads \ {t} : td2[u] = td[u]

LEMMA StartsGives ==
    ASSUME TodoOK, NEW t \in Threads, NEW b \in Seq(Instrs), Starts(t, b)
    PROVE  StartsFacts(todo, t, b, todo')
  BY DEF StartsFacts, Starts, TodoOK

\* Every step, as far as instructions go.
Moves ==
    \/ \E t \in Threads : \E b \in Expand(todo[t][1]) :
         todo[t] # <<>> /\ todo[t][1] \in Instrs /\ Goes(t, b)
    \/ \E t \in Apps : Begins(t)
    \/ Starts("worker", Round)
    \/ Starts("delivery", Awaiting)
    \/ todo' = todo

LEMMA NextMoves ==
    ASSUME Typed, [Next]_vars
    PROVE  Moves
<1>1. CASE \E t \in Apps : Call(t)
  BY <1>1, CallBegins DEF Moves
<1>2. CASE \E t \in Threads : Acquire(t) \/ Step(t)
  BY <1>2, StepExpands DEF Moves
<1>3. CASE WorkerLoop
  BY <1>3 DEF WorkerLoop, Moves, Starts
<1>4. CASE DeliveryLoop
  BY <1>4 DEF DeliveryLoop, Moves, Starts
<1>5. CASE WakeSpuriously
  BY <1>5 DEF WakeSpuriously, Moves
<1>6. CASE UNCHANGED vars
  BY <1>6 DEF vars, Moves
<1> QED BY <1>1, <1>2, <1>3, <1>4, <1>5, <1>6 DEF Next

LEMMA WiringStays ==
    ASSUME [Next]_vars
    PROVE  wiring' = wiring
  BY DEF Next, vars, Call, Acquire, Step, WorkerLoop, DeliveryLoop,
         WakeSpuriously, app, Unlock, SendCallback, Request, Retransmit,
         Fragment, ProcessNacks, Nack, NackSent, Collect, Deliver, Push,
         Erase, ReceiveCallback, Await, Sleep, Wake, Take, Stop, NotifyAll,
         Join, Find, Delete

LEMMA TodoInvariance ==
    ASSUME Typed, [Next]_vars
    PROVE  TodoOK'
<1>0. wiring' = wiring
  BY WiringStays
<1>1. wiring' \in Wirings
  BY <1>0 DEF Typed, TodoOK
<1>2. CASE \E t \in Threads : \E b \in Expand(todo[t][1]) :
             todo[t] # <<>> /\ todo[t][1] \in Instrs /\ Goes(t, b)
  <2>0. PICK t \in Threads : \E b \in Expand(todo[t][1]) :
             todo[t] # <<>> /\ todo[t][1] \in Instrs /\ Goes(t, b)
    BY <1>2
  <2>1. PICK b \in Expand(todo[t][1]) :
             todo[t] # <<>> /\ todo[t][1] \in Instrs /\ Goes(t, b)
    BY <2>0
  <2>2. b \in Seq(Instrs)
    BY <2>1, ExpandTyped DEF Typed, TodoOK
  <2>3. todo' \in [Threads -> Seq(Instrs)]
    BY <2>1, <2>2, ThenFacts DEF Typed, TodoOK, Goes
  <2> QED BY <1>1, <2>3 DEF TodoOK
<1>3. CASE \E t \in Apps : Begins(t)
  BY <1>1, <1>3, BodyTyped, StartsGives
     DEF Begins, StartsFacts, TodoOK, Typed, Threads
<1>4. CASE Starts("worker", Round)
  BY <1>1, <1>4, LoopsTyped, StartsGives
     DEF StartsFacts, TodoOK, Typed, Threads
<1>5. CASE Starts("delivery", Awaiting)
  BY <1>1, <1>5, LoopsTyped, StartsGives
     DEF StartsFacts, TodoOK, Typed, Threads
<1>6. CASE todo' = todo
  BY <1>1, <1>6 DEF TodoOK, Typed
<1> QED BY <1>2, <1>3, <1>4, <1>5, <1>6, NextMoves DEF Moves

LEMMA MutexInvariance ==
    ASSUME Typed, [Next]_vars
    PROVE  MutexOK'
<1> USE DEF Typed, MutexOK
<1>1. ASSUME NEW t \in Threads, Acquire(t)
      PROVE  MutexOK'
  <2>1. Arg(t) \in Mutexes
    BY <1>1, AtFacts, InstrFacts DEF Acquire
  <2> QED BY <1>1, <2>1 DEF Acquire
<1>2. ASSUME NEW l \in Mutexes, mutex' = Released(l)
      PROVE  MutexOK'
  BY <1>2 DEF Released
<1>3. ASSUME NEW t \in Threads, Unlock(t)
      PROVE  MutexOK'
  <2>1. Arg(t) \in Mutexes
    BY <1>3, AtFacts, InstrFacts DEF Unlock
  <2> QED BY <1>2, <1>3, <2>1 DEF Unlock
<1>4. ASSUME NEW t \in Threads, Sleep(t)
      PROVE  MutexOK'
  BY <1>2, <1>4 DEF Sleep, Mutexes
<1>5. ASSUME NEW t \in Threads, Step(t), ~Unlock(t), ~Sleep(t)
      PROVE  mutex' = mutex
  BY <1>5 DEF Step, SendCallback, Request, Retransmit,
         Fragment, ProcessNacks, Nack, NackSent, Collect, Deliver, Push,
         Erase, ReceiveCallback, Await, Wake, Take, Stop, NotifyAll,
         Join, Find, Delete
<1>6. ASSUME NEW t \in Apps, Call(t)
      PROVE  mutex' = mutex
  BY <1>6 DEF Call
<1>7. WorkerLoop \/ DeliveryLoop \/ WakeSpuriously \/ UNCHANGED vars
        => mutex' = mutex
  BY DEF WorkerLoop, DeliveryLoop, WakeSpuriously, vars
<1>8. mutex' = mutex => MutexOK'
  OBVIOUS
<1> QED BY <1>1, <1>3, <1>4, <1>5, <1>6, <1>7, <1>8 DEF Next

LEMMA SeqFacts ==
    ASSUME NEW S, NEW q \in Seq(S)
    PROVE  /\ \A x \in S : Append(q, x) \in Seq(S)
           /\ q # <<>> => Head(q) \in S /\ Tail(q) \in Seq(S)
  BY AppendProperties, HeadTailProperties

\* What the next instruction of a thread is about, by its name.
LEMMA ArgFacts ==
    ASSUME TodoOK, NEW t \in Threads
    PROVE  /\ \A op \in {"request", "nack", "sent", "deliver", "push", "erase",
                        "callback"} : At(t, op) => Arg(t) \in Frames
           /\ At(t, "fragment") => Arg(t) \in Packets
<1>1. ASSUME NEW op, At(t, op)
      PROVE  todo[t][1] \in Instrs /\ todo[t][1].op = op /\ todo[t][1].on = Arg(t)
  BY ONLY <1>1, TodoOK, AtFacts
<1>2. ASSUME NEW op \in {"request", "nack", "sent", "deliver", "push", "erase",
                        "callback"}, At(t, op)
      PROVE  Arg(t) \in Frames
  <2>1. todo[t][1] \in Instrs /\ todo[t][1].op = op /\ todo[t][1].on = Arg(t)
    BY ONLY <1>1, <1>2
  <2> QED BY ONLY <1>2, <2>1, InstrFacts
<1>3. ASSUME At(t, "fragment")
      PROVE  Arg(t) \in Packets
  <2>1. /\ todo[t][1] \in Instrs /\ todo[t][1].op = "fragment"
        /\ todo[t][1].on = Arg(t)
    BY ONLY <1>1, <1>3
  <2> QED BY ONLY <2>1, InstrFacts
<1> QED BY <1>2, <1>3

LEMMA RestInvariance ==
    ASSUME Typed, [Next]_vars
    PROVE  RestOK'
<1>0. ASSUME NEW t \in Threads
      PROVE  /\ \A op \in {"request", "nack", "sent", "deliver", "push", "erase",
                        "callback"} : At(t, op) => Arg(t) \in Frames
             /\ At(t, "fragment") => Arg(t) \in Packets
  BY ArgFacts DEF Typed
<1> USE DEF Typed, RestOK
<1>1. ASSUME NEW t \in Apps, Call(t)
      PROVE  RestOK'
  <2>1. /\ nextFrame' \in {nextFrame, nextFrame + 1}
        /\ nextFrame' # nextFrame => nextFrame <= MaxFrames
        /\ calls' = calls + 1 /\ calls < MaxCalls
        /\ UNCHANGED <<handles, life, line, fragments>>
    BY <1>1 DEF Call
  <2>2. nextFrame' \in 1..(MaxFrames + 1) /\ calls' \in 0..MaxCalls
    BY <2>1, ThreadsAssumption
  <2> QED BY <2>1, <2>2 DEF life, line, fragments
<1>2. ASSUME NEW t \in Threads, Request(t)
      PROVE  RestOK'
  <2>1. Arg(t) \in Frames
    BY ONLY <1>2, <1>0 DEF Request
  <2>2. mRetransmitQueue' \in Seq(Frames)
    BY <1>2, <2>1, SeqFacts DEF Request
  <2> QED BY <1>2, <2>2 DEF Request, app, life, line
<1>3. ASSUME NEW t \in Threads, Retransmit(t)
      PROVE  RestOK'
  <2>1. mRetransmitQueue' \in Seq(Frames)
    <3>1. \/ mRetransmitQueue' = mRetransmitQueue
          \/ mRetransmitQueue # <<>> /\ mRetransmitQueue' = Tail(mRetransmitQueue)
      BY <1>3 DEF Retransmit
    <3>2. mRetransmitQueue \in Seq(Frames)
      OBVIOUS
    <3> QED BY ONLY <3>1, <3>2, SeqFacts
  <2> QED BY <1>3, <2>1 DEF Retransmit, app, life, line
<1>4. ASSUME NEW t \in Threads, Fragment(t)
      PROVE  RestOK'
  <2>1. Arg(t) \in Packets
    BY ONLY <1>4, <1>0 DEF Fragment
  <2>2. Arg(t).frame \in Frames
    BY <2>1 DEF Packets
  <2>3. bucket' \in [Frames -> {"absent", "partial", "whole", "moved",
                              "delivered"}]
    BY <1>4, <2>2 DEF Fragment
  <2> QED BY <1>4, <2>3 DEF Fragment, app, life, line
<1>5. ASSUME NEW t \in Threads, NackSent(t)
      PROVE  RestOK'
  <2>1. Arg(t) \in Frames
    BY ONLY <1>5, <1>0 DEF NackSent
  <2> QED BY <1>5, <2>1 DEF NackSent, app, life, line
<1>6. ASSUME NEW t \in Threads, Deliver(t)
      PROVE  RestOK'
  <2>1. Arg(t) \in Frames
    BY ONLY <1>6, <1>0 DEF Deliver
  <2>2. bucket' \in [Frames -> {"absent", "partial", "whole", "moved",
                              "delivered"}]
    <3>1. bucket' = bucket \/ bucket' = [bucket EXCEPT ![Arg(t)] = "moved"]
      BY ONLY <1>6 DEF Deliver
    <3> QED BY <2>1, <3>1
  <2>3. UNCHANGED <<app, life, line, nacked, mRetransmitQueue>>
    BY ONLY <1>6 DEF Deliver
  <2> QED BY <2>2, <2>3 DEF app, life, line
<1>7. ASSUME NEW t \in Threads, Push(t)
      PROVE  RestOK'
  <2>0. At(t, "push")
    BY ONLY <1>7 DEF Push
  <2>1. Arg(t) \in Frames
    BY ONLY <1>7, <2>0, <1>0
  <2>2. mDeliveryQueue' \in Seq(Frames) /\ pushed' \in Seq(Frames)
    <3>1. /\ mDeliveryQueue' = Append(mDeliveryQueue, Arg(t))
          /\ pushed' = Append(pushed, Arg(t))
      BY ONLY <1>7 DEF Push
    <3>2. mDeliveryQueue \in Seq(Frames) /\ pushed \in Seq(Frames)
      OBVIOUS
    <3> QED BY ONLY <2>1, <3>1, <3>2, SeqFacts
  <2>3. bucket' \in [Frames -> {"absent", "partial", "whole", "moved",
                              "delivered"}]
    BY <1>7, <2>1 DEF Push
  <2>4. asleep' \in BOOLEAN /\ mDeliveryReady' \in BOOLEAN
    BY <1>7 DEF Push
  <2>5. UNCHANGED <<handles, nextFrame, calls, ended, mRunning, nacked,
                    mRetransmitQueue, delivered>>
    BY <1>7 DEF Push, app
  <2> QED BY <2>2, <2>3, <2>4, <2>5
<1>8. ASSUME NEW t \in Threads, Erase(t)
      PROVE  RestOK'
  <2>1. Arg(t) \in Frames
    BY ONLY <1>8, <1>0 DEF Erase
  <2> QED BY <1>8, <2>1 DEF Erase, app, life, line
<1>9. ASSUME NEW t \in Threads, ReceiveCallback(t)
      PROVE  RestOK'
  <2>1. Arg(t) \in Frames
    BY ONLY <1>9, <1>0 DEF ReceiveCallback
  <2>2. delivered' \in Seq(Frames)
    <3>1. delivered' = Append(delivered, Arg(t))
      BY ONLY <1>9 DEF ReceiveCallback
    <3>2. delivered \in Seq(Frames)
      OBVIOUS
    <3> QED BY ONLY <2>1, <3>1, <3>2, SeqFacts
  <2>3. UNCHANGED <<app, life, fragments, mDeliveryReady, mDeliveryQueue,
                    pushed>>
    BY ONLY <1>9 DEF ReceiveCallback
  <2> QED BY <2>2, <2>3 DEF app, life, fragments
<1>10. ASSUME NEW t \in Threads, Take(t)
       PROVE  RestOK'
  <2>1. mDeliveryQueue' \in Seq(Frames)
    BY <1>10, SeqFacts DEF Take
  <2>2. mDeliveryReady' \in BOOLEAN
    BY <1>10 DEF Take
  <2> QED BY <1>10, <2>1, <2>2 DEF Take, app, life, fragments
<1>11. ASSUME NEW t \in Threads,
              Acquire(t) \/ Unlock(t) \/ SendCallback(t) \/ ProcessNacks(t)
              \/ Nack(t) \/ Collect(t) \/ Await(t) \/ Wake(t)
              \/ Join(t) \/ Find(t)
       PROVE  RestOK'
  <2>1. UNCHANGED <<handles, nextFrame, calls, life, line, fragments>>
    BY <1>11 DEF Acquire, Unlock, SendCallback, ProcessNacks,
              Nack, Collect, Await, Wake, Join, Find, app
  <2> QED BY <2>1 DEF life, line, fragments
<1>12. ASSUME NEW t \in Threads, Sleep(t) \/ Stop(t) \/ NotifyAll(t)
       PROVE  RestOK'
  <2>1. /\ UNCHANGED <<handles, nextFrame, calls, line, fragments, ended>>
        /\ asleep' \in BOOLEAN /\ mRunning' \in BOOLEAN
    BY <1>12 DEF Sleep, Stop, NotifyAll, app
  <2> QED BY <2>1 DEF line, fragments
<1>13. ASSUME NEW t \in Threads, Delete(t)
       PROVE  RestOK'
  <2>1. /\ handles' \subseteq handles
        /\ UNCHANGED <<nextFrame, calls, life, line, fragments>>
    BY ONLY <1>13 DEF Delete
  <2> QED BY <2>1 DEF life, line, fragments
<1>14. CASE WorkerLoop \/ DeliveryLoop
  <2>1. /\ ended' \subseteq ended \cup {"worker", "delivery"}
        /\ UNCHANGED <<app, line, fragments, asleep, mRunning>>
    BY ONLY <1>14 DEF WorkerLoop, DeliveryLoop
  <2> QED BY <2>1 DEF app, line, fragments
<1>15. CASE WakeSpuriously
  BY <1>15 DEF WakeSpuriously, app, line, fragments
<1>16. CASE UNCHANGED vars
  BY <1>16 DEF vars
<1> HIDE DEF Typed, RestOK
<1>17. ASSUME NEW t \in Threads, Acquire(t) \/ Step(t)
       PROVE  RestOK'
  BY ONLY <1>2, <1>3, <1>4, <1>5, <1>6, <1>7, <1>8, <1>9, <1>10, <1>11, <1>12,
          <1>13, <1>17 DEF Step
<1> QED BY ONLY [Next]_vars, <1>1, <1>14, <1>15, <1>16, <1>17 DEF Next

\* Every instruction has the argument it needs, and every variable is in its
\* range, whatever the callbacks call.
THEOREM TypedInvariance == Spec => []Typed
<1>1. Init => Typed
  <2> SUFFICES ASSUME Init PROVE Typed
    OBVIOUS
  <2>1. TodoOK
    BY SmallSeqs DEF Init, TodoOK
  <2>2. MutexOK
    BY DEF Init, MutexOK
  <2>3. RestOK
    <3>1. /\ nextFrame \in 1..(MaxFrames + 1) /\ calls \in 0..MaxCalls
      BY ThreadsAssumption DEF Init
    <3>2. mRunning \in BOOLEAN
      BY DEF Init, Threaded
    <3>3. /\ mDeliveryQueue \in Seq(Frames) /\ mRetransmitQueue \in Seq(Frames)
          /\ pushed \in Seq(Frames) /\ delivered \in Seq(Frames)
      BY SmallSeqs DEF Init
    <3> QED BY <3>1, <3>2, <3>3 DEF Init, RestOK
  <2> QED BY <2>1, <2>2, <2>3 DEF Typed
<1>2. Typed /\ [Next]_vars => Typed'
  BY TodoInvariance, MutexInvariance, RestInvariance DEF Typed
<1> QED BY <1>1, <1>2, PTL DEF Spec

------------------------------------------------------------------------------
(***************************************************************************)
(* stop.                                                                   *)
(***************************************************************************)

\* A receiver that does not run has no threads any more, or the thread that
\* stopped it is still going to join them.
StopJoins ==
    ~mRunning =>
      \A w \in {"worker", "delivery"} :
        w \in ended \/ \E t \in Threads : Do("join", w) \in Range(todo[t])

\* An instruction stays until it is done.
LEMMA InstructionStays ==
    ASSUME Typed, [Next]_vars, NEW t \in Threads, NEW y \in Range(todo[t])
    PROVE  \/ y \in Range(todo'[t])
           \/ y = todo[t][1] /\ (Acquire(t) \/ Step(t))
<1>0. todo \in [Threads -> Seq(Instrs)] /\ wiring \in Wirings
  BY DEF Typed, TodoOK
<1>1. todo[t] # <<>>
  BY <1>0, PlacesOfSeq, SmallSeqs, EmptySeq
<1>2. ASSUME NEW u \in Threads, NEW b \in Expand(todo[u][1]),
             todo[u] # <<>>, todo[u][1] \in Instrs, Goes(u, b)
      PROVE  /\ u # t => todo'[t] = todo[t]
             /\ y \in Range(todo'[t]) \/ y = todo[t][1]
  <2>1. b \in Seq(Instrs)
    BY <1>0, <1>2, ExpandTyped
  <2>2. u # t => todo'[t] = todo[t]
    BY <1>2, <2>1, GoesFacts DEF Typed
  <2>3. Range(todo[u]) \subseteq {todo[u][1]} \cup Range(todo'[u])
    BY <1>2, <2>1, GoesRanges DEF Typed
  <2> QED BY <2>2, <2>3
<1>3. ASSUME NEW u \in Threads, Acquire(u) \/ Step(u)
      PROVE  \/ y \in Range(todo'[t])
             \/ y = todo[t][1] /\ (Acquire(t) \/ Step(t))
  <2>1. PICK b \in Expand(todo[u][1]) :
          todo[u] # <<>> /\ todo[u][1] \in Instrs /\ Goes(u, b)
    BY <1>3, StepExpands
  <2>2. /\ u # t => todo'[t] = todo[t]
        /\ y \in Range(todo'[t]) \/ y = todo[t][1]
    BY <1>2, <2>1
  <2> QED BY <1>3, <2>2
<1>4. ASSUME NEW u \in Threads, NEW b \in Seq(Instrs), Starts(u, b)
      PROVE  todo'[t] = todo[t]
  <2>1. u # t
    BY <1>1, <1>4 DEF Starts
  <2> QED BY <1>4, <2>1, StartsGives DEF StartsFacts, Typed
<1>5. ASSUME NEW u \in Apps, Call(u)
      PROVE  todo'[t] = todo[t]
  <2>1. Begins(u)
    BY <1>5, CallBegins
  <2>2. PICK call, p : Suits(call, p) /\ Starts(u, Body(call, p))
    BY <2>1 DEF Begins
  <2> QED BY <1>4, <2>2, BodyTyped DEF Threads
<1>6. CASE WorkerLoop \/ DeliveryLoop
  <2>1. \/ Starts("worker", Round) \/ Starts("delivery", Awaiting)
        \/ todo' = todo
    BY <1>6 DEF WorkerLoop, DeliveryLoop, Starts
  <2> QED BY <1>4, <2>1, LoopsTyped DEF Threads
<1>7. CASE WakeSpuriously \/ UNCHANGED vars
  BY <1>7 DEF WakeSpuriously, vars
<1> QED BY <1>3, <1>5, <1>6, <1>7 DEF Next

LEMMA StopJoinsInvariance ==
    ASSUME Typed, StopJoins, [Next]_vars
    PROVE  StopJoins'
<1> SUFFICES ASSUME ~mRunning', NEW w \in {"worker", "delivery"}
             PROVE  \/ w \in ended'
                    \/ \E t \in Threads : Do("join", w) \in Range(todo'[t])
  BY DEF StopJoins
<1>1. ended \subseteq ended'
  BY DEF Next, vars, Call, Acquire, Step, WorkerLoop, DeliveryLoop,
         WakeSpuriously, life, Unlock, SendCallback, Request, Retransmit,
         Fragment, ProcessNacks, Nack, NackSent, Collect, Deliver, Push,
         Erase, ReceiveCallback, Await, Sleep, Wake, Take, Stop, NotifyAll,
         Join, Find, Delete
<1>2. CASE mRunning
  <2>1. PICK t \in Threads : Stop(t)
    BY <1>2 DEF Next, vars, Call, Acquire, Step, WorkerLoop, DeliveryLoop,
         WakeSpuriously, life, Unlock, SendCallback, Request, Retransmit,
         Fragment, ProcessNacks, Nack, NackSent, Collect, Deliver, Push,
         Erase, ReceiveCallback, Await, Sleep, Wake, Take, NotifyAll,
         Join, Find, Delete
  <2> DEFINE u == <<Do("unlock", mDeliveryMutex)>>
             j == <<Do("notifyAll", 0), Do("join", "worker"),
                    Do("join", "delivery")>>
             b == u \o j
  <2>2. At(t, "stop") /\ Then(t, b)
    BY <1>2, <2>1 DEF Stop
  <2>3. todo[t] # <<>> /\ todo[t][1] \in Instrs /\ todo[t][1].op = "stop"
    BY <2>2, AtFacts DEF Typed
  <2>4. b \in Expand(todo[t][1])
    BY <2>3 DEF Expand
  <2>5. b \in Seq(Instrs)
    <3> HIDE DEF b
    <3> QED BY <2>3, <2>4, ExpandTyped DEF Typed, TodoOK
  <2>6. Goes(t, b)
    <3> HIDE DEF b
    <3> QED BY <2>2, ThenGoes
  <2>7. Do("join", w) \in Range(b)
    <3>1. /\ Do("unlock", mDeliveryMutex) \in Instrs
          /\ Do("notifyAll", 0) \in Instrs /\ Do("join", "worker") \in Instrs
          /\ Do("join", "delivery") \in Instrs
      BY DoIsInstr DEF Mutexes
    <3>2. u \in Seq(Instrs) /\ j \in Seq(Instrs) /\ Len(u) = 1 /\ Len(j) = 3
      BY <3>1, SmallSeqs
    <3>3. IsSeq(u) /\ IsSeq(j)
      BY <3>2, SeqIsSeq
    <3>4. j[2] = Do("join", "worker") /\ j[3] = Do("join", "delivery")
      OBVIOUS
    <3> HIDE DEF u, j
    <3>5. /\ Len(b) = Len(u) + Len(j)
          /\ \A i \in 1..Len(j) : b[Len(u) + i] = j[i]
      BY <3>3, ConcatFacts
    <3> HIDE DEF b
    <3>6. Range(b) = {b[i] : i \in 1..Len(b)}
      BY <2>5, PlacesOfSeq
    <3>7. Len(b) = 4 /\ b[1 + 2] = j[2] /\ b[1 + 3] = j[3]
      BY <3>2, <3>5
    <3> QED BY <3>4, <3>6, <3>7
  <2> HIDE DEF b
  <2>8. Range(b) \subseteq Range(todo'[t])
    BY <2>3, <2>5, <2>6, GoesRanges DEF Typed
  <2> QED BY <2>7, <2>8
<1>3. CASE ~mRunning /\ w \in ended
  BY <1>1, <1>3
<1>4. CASE ~mRunning /\ w \notin ended
  <2>1. PICK t \in Threads : Do("join", w) \in Range(todo[t])
    BY <1>4 DEF StopJoins
  <2>2. CASE Do("join", w) \in Range(todo'[t])
    BY <2>2
  <2>3. CASE Do("join", w) = todo[t][1] /\ (Acquire(t) \/ Step(t))
    <3>1. Join(t) /\ Arg(t) = w
      <4>1. todo[t] # <<>> /\ todo[t][1].op = "join" /\ todo[t][1].on = w
        BY <2>3, StepExpands, DoFacts
      <4>2. \A op : At(t, op) => op = "join" /\ Arg(t) = w
        BY <4>1, AtFacts DEF Typed
      <4> QED BY <2>3, <4>2 DEF Acquire, Step, Unlock, SendCallback, Request,
           Retransmit, Fragment, ProcessNacks, Nack, NackSent, Collect,
           Deliver, Push, Erase, ReceiveCallback, Await, Sleep, Wake, Take,
           Stop, NotifyAll, Join, Find, Delete
    <3> QED BY <1>4, <3>1 DEF Join
  <2> QED BY <2>1, <2>2, <2>3, InstructionStays
<1> QED BY <1>2, <1>3, <1>4

\* When the call of stop that stopped the receiver has returned, both threads
\* have ended: whoever called it, with whatever racing.
THEOREM QuietWhenStopped == Spec => []QuietAfterStop
<1>1. Init => StopJoins
  BY DEF Init, StopJoins, Threaded
<1>2. Typed /\ StopJoins /\ [Next]_vars => StopJoins'
  BY StopJoinsInvariance
<1>3. Typed /\ StopJoins => QuietAfterStop
  <2> SUFFICES ASSUME Typed, StopJoins, ~mRunning,
                      \A t \in Threads : Ops(t) \cap {"notifyAll", "join"} = {},
                      NEW w \in {"worker", "delivery"}
               PROVE  w \in ended
    BY DEF QuietAfterStop
  <2>1. ASSUME NEW t \in Threads, Do("join", w) \in Range(todo[t])
        PROVE  FALSE
    <3>1. PICK i \in DOMAIN todo[t] : todo[t][i] = Do("join", w)
      BY <2>1 DEF Range
    <3>2. "join" \in Ops(t)
      BY <3>1, DoFacts DEF Ops
    <3> QED BY <3>2
  <2> QED BY <2>1 DEF StopJoins
<1> QED BY <1>1, <1>2, <1>3, TypedInvariance, PTL DEF Spec

------------------------------------------------------------------------------
(***************************************************************************)
(* The delivery line.                                                      *)
(***************************************************************************)
LineOps == {"await", "sleep", "wake", "take", "callback"}

CallOps == {"lock", "unlock", "sendCallback", "request", "retransmit",
            "fragment", "processNacks", "stop", "findSender", "findReceiver",
            "endSend", "endReceive"}

\* With its threads running, only the delivery thread waits, takes frames and
\* hands them to the application, each of these the last thing it has to do.
LineAtEnd ==
    \A t \in Threads : \A i \in 1..Len(todo[t]) :
      todo[t][i].op \in LineOps => t = "delivery" /\ i = Len(todo[t])

LineInv ==
    Threaded => LineAtEnd /\ pushed = delivered \o InHand \o mDeliveryQueue

LEMMA NeedsOps ==
    ASSUME NEW call \in Calls, NEW p, NEW y \in Needs(call, p)
    PROVE  y.op \in CallOps
<1> USE DoFacts DEF CallOps
<1>1. CASE call = "send"
  BY <1>1 DEF Needs
<1>2. CASE call = "receiveNack"
  BY <1>2 DEF Needs
<1>3. CASE call = "processRetransmits"
  BY <1>3 DEF Needs
<1>4. CASE call = "receive"
  BY <1>4 DEF Needs
<1>5. CASE call = "poll"
  BY <1>5 DEF Needs
<1>6. CASE call = "stop"
  BY <1>6 DEF Needs
<1>7. CASE call = "efp_send_data"
  BY <1>7 DEF Needs
<1>8. CASE call = "efp_receive_fragment"
  BY <1>8 DEF Needs
<1>9. CASE call = "efp_end_send"
  BY <1>9 DEF Needs
<1>10. CASE call = "efp_end_receive"
  BY <1>10 DEF Needs
<1> QED BY <1>1, <1>2, <1>3, <1>4, <1>5, <1>6, <1>7, <1>8, <1>9, <1>10
        DEF Calls, Carrying

LEMMA WiringNeedsOps ==
    ASSUME wiring \in Wirings, NEW p
    PROVE  /\ \A y \in CallsNeed(wiring.onSend, p) : y.op \in CallOps
           /\ \A y \in CallsNeed(wiring.onReceive, p) : y.op \in CallOps
           /\ \A y \in CallsNeed(wiring.onNack, p) : y.op \in CallOps
  BY WiredCalls, NeedsOps DEF CallsNeed

\* The operations an instruction leaves to do.
MadeOps(op) ==
    CASE op = "retransmit" -> {"sendCallback", "retransmit"}
      [] op = "processNacks" -> {"nack", "collect"}
      [] op = "nack" -> CallOps \cup {"sent"}
      [] op = "collect" -> {"deliver"}
      [] op = "deliver" -> IF Threaded THEN {"lock", "push", "unlock", "erase"}
                           ELSE {"callback", "erase"}
      [] op = "await" -> {"take", "sleep"}
      [] op = "sleep" -> {"wake"}
      [] op = "wake" -> {"lock", "await"}
      [] op = "take" -> {"unlock", "callback"}
      [] op = "stop" -> {"unlock", "notifyAll", "join"}
      [] op = "endReceive" -> {"lock", "stop", "delete"}
      [] op = "endSend" -> {"delete"}
      [] op \in {"sendCallback", "callback", "findSender", "findReceiver"} ->
           CallOps
      [] OTHER -> {}

LEMMA MakesOps ==
    ASSUME wiring \in Wirings, NEW x \in Instrs, NEW y \in Makes(x)
    PROVE  y.op \in MadeOps(x.op)
<1> USE DoFacts
<1>1. CASE x.op = "sendCallback"
  BY <1>1, WiringNeedsOps DEF Makes, MadeOps
<1>2. CASE x.op = "retransmit"
  BY <1>2 DEF Makes, MadeOps
<1>3. CASE x.op = "processNacks"
  BY <1>3 DEF Makes, MadeOps
<1>4. CASE x.op = "nack"
  BY <1>4, WiringNeedsOps DEF Makes, MadeOps
<1>5. CASE x.op = "collect"
  BY <1>5 DEF Makes, MadeOps
<1>6. CASE x.op = "deliver"
  <2>1. CASE Threaded
    <3>1. y \in {Do("lock", mDeliveryMutex), Do("push", x.on),
                 Do("unlock", mDeliveryMutex), Do("erase", x.on)}
      BY <1>6, <2>1 DEF Makes
    <3>2. MadeOps(x.op) = {"lock", "push", "unlock", "erase"}
      BY <1>6, <2>1 DEF MadeOps
    <3> QED BY <3>1, <3>2
  <2>2. CASE ~Threaded
    <3>1. y \in {Do("callback", x.on), Do("erase", x.on)}
      BY <1>6, <2>2 DEF Makes
    <3>2. MadeOps(x.op) = {"callback", "erase"}
      BY <1>6, <2>2 DEF MadeOps
    <3> QED BY <3>1, <3>2
  <2> QED BY <2>1, <2>2
<1>7. CASE x.op = "callback"
  BY <1>7, WiringNeedsOps DEF Makes, MadeOps
<1>8. CASE x.op = "await"
  BY <1>8 DEF Makes, MadeOps
<1>9. CASE x.op = "sleep"
  BY <1>9 DEF Makes, MadeOps
<1>10. CASE x.op = "wake"
  BY <1>10 DEF Makes, MadeOps
<1>11. CASE x.op = "take"
  BY <1>11 DEF Makes, MadeOps
<1>12. CASE x.op = "stop"
  BY <1>12 DEF Makes, MadeOps
<1>13. CASE x.op = "findSender"
  <2>1. "send" \in Calls /\ y \in Needs("send", x.on)
    BY <1>13 DEF Makes, Calls, Carrying
  <2> QED BY <1>13, <2>1, NeedsOps DEF MadeOps
<1>14. CASE x.op = "findReceiver"
  <2>1. "receive" \in Calls /\ y \in Needs("receive", x.on)
    BY <1>14 DEF Makes, Calls, Carrying
  <2> QED BY <1>14, <2>1, NeedsOps DEF MadeOps
<1>15. CASE x.op = "endReceive"
  BY <1>15 DEF Makes, MadeOps
<1>16. CASE x.op = "endSend"
  BY <1>16 DEF Makes, MadeOps
<1>17. CASE x.op \in {"lock", "unlock", "fragment", "request", "sent", "push",
                      "erase", "join", "delete", "notifyAll"}
  BY <1>17 DEF Makes
<1> QED BY <1>1, <1>2, <1>3, <1>4, <1>5, <1>6, <1>7, <1>8, <1>9, <1>10,
           <1>11, <1>12, <1>13, <1>14, <1>15, <1>16, <1>17, InstrFacts

LEMMA ExpandOps ==
    ASSUME wiring \in Wirings, NEW x \in Instrs, NEW b \in Expand(x)
    PROVE  /\ b \in Seq(Instrs)
           /\ \A y \in Range(b) : y.op \in MadeOps(x.op)
           /\ \A i \in 1..Len(b) : b[i] \in Range(b)
<1>1. b \in Seq(Makes(x)) /\ b \in Seq(Instrs)
  BY ExpandMakes, ExpandTyped
<1>2. Range(b) \subseteq Makes(x)
  BY <1>1, PlacesOfSeq
<1>3. \A i \in 1..Len(b) : b[i] \in Range(b)
  BY <1>1, PlacesOfSeq
<1> QED BY <1>1, <1>2, <1>3, MakesOps

LEMMA BodyOps ==
    ASSUME NEW call, NEW p, Suits(call, p)
    PROVE  /\ Body(call, p) \in Seq(Instrs)
           /\ \A y \in Range(Body(call, p)) :
                y \in Needs(call, p) /\ y.op \in CallOps
           /\ \A i \in 1..Len(Body(call, p)) :
                Body(call, p)[i] \in Range(Body(call, p))
<1>1. /\ Body(call, p) \in Seq(Needs(call, p)) /\ Body(call, p) \in Seq(Instrs)
      /\ call \in Calls
  BY BodyNeeds, BodyTyped DEF Suits
<1>2. Range(Body(call, p)) \subseteq Needs(call, p)
  BY <1>1, PlacesOfSeq
<1>3. \A i \in 1..Len(Body(call, p)) : Body(call, p)[i] \in Range(Body(call, p))
  BY <1>1, PlacesOfSeq
<1> QED BY <1>1, <1>2, <1>3, NeedsOps

LEMMA ExpandLine ==
    ASSUME wiring \in Wirings, NEW x \in Instrs, NEW b \in Expand(x),
           x.op \in LineOps, NEW i \in 1..Len(b), b[i].op \in LineOps
    PROVE  i = Len(b)
<1> USE DoFacts
<1>1. CASE x.op = "callback"
  <2>1. b[i].op \in CallOps
    BY <1>1, ExpandOps DEF MadeOps
  <2> QED BY <2>1 DEF CallOps, LineOps
<1>2. CASE x.op \in {"await", "sleep"}
  <2>1. \E y : b = <<y>>
    BY <1>2 DEF Expand
  <2> QED BY <2>1
<1>3. CASE x.op = "wake"
  <2>1. b = <<Do("lock", mDeliveryMutex), Do("await", 0)>>
    BY <1>3 DEF Expand, Awaiting
  <2>2. i \in 1..2 /\ Len(b) = 2 /\ b[1].op = "lock"
    BY <2>1
  <2> QED BY <2>2 DEF LineOps
<1>4. CASE x.op = "take"
  <2>1. \/ b = <<Do("unlock", mDeliveryMutex)>> \o <<>>
        \/ \E f \in Frames :
             b = <<Do("unlock", mDeliveryMutex)>> \o <<Do("callback", f)>>
    BY <1>4 DEF Expand
  <2>2. \/ b = <<Do("unlock", mDeliveryMutex)>>
        \/ \E f \in Frames : b = <<Do("unlock", mDeliveryMutex), Do("callback", f)>>
    BY <2>1, JoinOne
  <2>3. b[1].op = "unlock" /\ (Len(b) = 1 \/ Len(b) = 2)
    BY <2>2
  <2>4. i # 1
    BY <2>3 DEF LineOps
  <2>5. CASE Len(b) = 1
    <3>1. i \in 1..1
      BY <2>5
    <3> QED BY <2>5, <3>1
  <2>6. CASE Len(b) = 2
    <3>1. i \in 1..2
      BY <2>6
    <3> QED BY <2>4, <2>6, <3>1
  <2> QED BY <2>3, <2>5, <2>6
<1> QED BY <1>1, <1>2, <1>3, <1>4 DEF LineOps

LEMMA MadeNoLine ==
    ASSUME Threaded, NEW op, op \notin LineOps
    PROVE  MadeOps(op) \cap LineOps = {}
  BY DEF MadeOps, LineOps, CallOps

LEMMA LineAtEndKept ==
    ASSUME Typed, [Next]_vars, Threaded, LineAtEnd
    PROVE  LineAtEnd'
<1>0. TodoOK /\ wiring \in Wirings
  BY DEF Typed, TodoOK
<1>1. ASSUME NEW t \in Threads, NEW b \in Expand(todo[t][1]),
             todo[t] # <<>>, todo[t][1] \in Instrs, Goes(t, b)
      PROVE  LineAtEnd'
  <2> DEFINE x == todo[t][1]
  <2>1. b \in Seq(Instrs) /\ \A i \in 1..Len(b) : b[i].op \in MadeOps(x.op)
    BY <1>0, <1>1, ExpandOps
  <2>2. /\ \A u \in Threads \ {t} : todo'[u] = todo[u]
        /\ Len(b) \in Nat /\ Len(todo[t]) \in Nat \ {0}
        /\ Len(todo'[t]) = Len(b) + Len(todo[t]) - 1
    BY <1>0, <1>1, <2>1, GoesFacts
  <2>3. x.op \in LineOps => t = "delivery" /\ Len(todo[t]) = 1
    <3>1. 1 \in 1..Len(todo[t])
      BY <2>2
    <3> QED BY <3>1 DEF LineAtEnd
  <2>4. ASSUME NEW j \in 1..Len(todo'[t]), todo'[t][j].op \in LineOps
        PROVE  t = "delivery" /\ j = Len(todo'[t])
    <3>1. CASE j \in 1..Len(b) /\ todo'[t][j] = b[j]
      <4>1. x.op \in LineOps
        BY <2>1, <2>4, <3>1, MadeNoLine
      <4>2. j = Len(b)
        BY <1>0, <1>1, <2>4, <3>1, <4>1, ExpandLine
      <4>3. Len(b) = Len(todo'[t])
        <5> DEFINE n == Len(b)
                   m == Len(todo[t])
                   k == Len(todo'[t])
        <5>1. n \in Nat /\ m = 1 /\ k = n + m - 1
          BY <2>2, <2>3, <4>1
        <5> HIDE DEF n, m, k
        <5>2. n = k
          BY <5>1
        <5> QED BY <5>2 DEF n, k
      <4> QED BY <2>3, <4>1, <4>2, <4>3
    <3>2. CASE \E i \in 2..Len(todo[t]) :
                 j = Len(b) + i - 1 /\ todo'[t][j] = todo[t][i]
      <4>1. PICK i \in 2..Len(todo[t]) :
                 j = Len(b) + i - 1 /\ todo'[t][j] = todo[t][i]
        BY <3>2
      <4>2. i \in 1..Len(todo[t]) /\ todo[t][i].op \in LineOps
        BY <2>2, <2>4, <4>1
      <4>3. t = "delivery" /\ i = Len(todo[t])
        BY <4>2 DEF LineAtEnd
      <4> QED BY <2>2, <4>1, <4>3
    <3> QED BY <1>0, <1>1, <2>1, <3>1, <3>2, GoesPlaces
  <2> QED BY <2>2, <2>4 DEF LineAtEnd
<1>2. ASSUME NEW t \in Threads, NEW b \in Seq(Instrs), Starts(t, b),
             \A i \in 1..Len(b) : b[i].op \in LineOps
                                    => t = "delivery" /\ i = Len(b)
      PROVE  LineAtEnd'
  <2>1. todo'[t] = b /\ \A u \in Threads \ {t} : todo'[u] = todo[u]
    BY <1>0, <1>2, StartsGives DEF StartsFacts
  <2> QED BY <1>2, <2>1 DEF LineAtEnd
<1>3. ASSUME NEW t \in Apps, Begins(t)
      PROVE  LineAtEnd'
  <2>1. PICK call, p : Suits(call, p) /\ Starts(t, Body(call, p))
    BY <1>3 DEF Begins
  <2>2. /\ Body(call, p) \in Seq(Instrs)
        /\ \A i \in 1..Len(Body(call, p)) : Body(call, p)[i].op \in CallOps
    BY <2>1, BodyOps
  <2>3. t \in Threads
    BY DEF Threads
  <2> QED BY <1>2, <2>1, <2>2, <2>3 DEF CallOps, LineOps
<1>4. ASSUME Starts("worker", Round)
      PROVE  LineAtEnd'
  <2>1. \A i \in 1..Len(Round) : Round[i].op \in {"lock", "processNacks", "unlock"}
    <3> DEFINE S == {Do("lock", mNetMutex), Do("processNacks", 0),
                     Do("unlock", mNetMutex)}
    <3>1. Round \in Seq(S)
      BY SmallSeqs DEF Round, Under
    <3>2. \A y \in S : y.op \in {"lock", "processNacks", "unlock"}
      BY DoFacts
    <3> HIDE DEF S
    <3> QED BY <3>1, <3>2, PlacesOfSeq
  <2>2. "worker" \in Threads
    BY DEF Threads
  <2> QED BY <1>2, <1>4, <2>1, <2>2, LoopsTyped DEF LineOps
<1>5. ASSUME Starts("delivery", Awaiting)
      PROVE  LineAtEnd'
  <2>1. Awaiting[1].op = "lock" /\ Len(Awaiting) = 2
    BY DoFacts DEF Awaiting
  <2>2. "delivery" \in Threads
    BY DEF Threads
  <2>3. \A i \in 1..Len(Awaiting) : Awaiting[i].op \in LineOps => i = Len(Awaiting)
    <3> SUFFICES ASSUME NEW i \in 1..2, Awaiting[i].op \in LineOps
                 PROVE  i = 2
      BY <2>1
    <3>1. i # 1
      BY <2>1 DEF LineOps
    <3> QED BY <3>1
  <2> QED BY <1>2, <1>5, <2>2, <2>3, LoopsTyped
<1>6. CASE todo' = todo
  BY <1>6 DEF LineAtEnd
<1> QED BY <1>1, <1>3, <1>4, <1>5, <1>6, NextMoves DEF Moves

\* What is in hand is the frame of the callback at the end, if there is one.
CallbacksOf(s) == {y \in Range(s) : y.op = "callback"}

FramesOf(s) ==
    FlattenSeq([i \in DOMAIN s |->
                  IF s[i].op = "callback" THEN <<s[i].on>> ELSE <<>>])

LEMMA HandFacts ==
    ASSUME NEW s \in Seq(Instrs),
           \A i \in 1..Len(s) : s[i].op = "callback" => i = Len(s)
    PROVE  \/ CallbacksOf(s) = {} /\ FramesOf(s) = <<>>
           \/ \E y \in Instrs : CallbacksOf(s) = {y} /\ FramesOf(s) = <<y.on>>
<1> DEFINE hand(i) == IF s[i].op = "callback" THEN <<s[i].on>> ELSE <<>>
           ss == [i \in DOMAIN s |-> hand(i)]
           n == Len(s)
<1>2. FramesOf(s) = FlattenSeq(ss)
  BY DEF FramesOf
<1>3. /\ n \in Nat /\ DOMAIN s = 1..n
      /\ Range(s) = {s[i] : i \in 1..n}
      /\ \A i \in 1..n : s[i] \in Instrs
  BY PlacesOfSeq
<1>4. \A i \in 1..n : s[i].op = "callback" => i = n
  OBVIOUS
<1>5. CallbacksOf(s) = {y \in Range(s) : y.op = "callback"}
  BY DEF CallbacksOf
<1>6. ss = [i \in 1..n |-> hand(i)]
  BY <1>3
<1>7. \A i \in 1..n : ss[i] = hand(i)
  BY <1>6
<1>8. IsSeq(ss) /\ Len(ss) = n
  <2>1. ss = [i \in 1..n |-> ss[i]]
    BY <1>6
  <2> HIDE DEF ss, n
  <2> QED BY <1>3, <2>1, FunctionIsSeq
<1> HIDE DEF ss, n
<1>9. CASE n = 0
  <2>1. ss = <<>>
    BY <1>8, <1>9, EmptySeq DEF IsSeq
  <2>2. FramesOf(s) = <<>>
    BY <1>2, <1>8, <1>9, <2>1 DEF FlattenSeq
  <2>3. CallbacksOf(s) = {}
    BY <1>3, <1>5, <1>9
  <2> QED BY <2>2, <2>3
<1>10. CASE n # 0
  <2>1. n \in 1..n
    BY <1>3, <1>10
  <2>2. ss[n] = hand(n)
    BY <1>7, <2>1
  <2>3. ASSUME NEW i \in 1..(n - 1)
        PROVE  ss[i] = <<>>
    <3>1. i \in 1..n /\ i # n
      BY <1>3
    <3>2. s[i].op # "callback"
      BY <1>4, <3>1
    <3> QED BY <1>7, <3>1, <3>2
  <2>4. IsSeq(ss[n])
    <3>1. hand(n) = <<s[n].on>> \/ hand(n) = <<>>
      OBVIOUS
    <3>2. <<s[n].on>> \in Seq({s[n].on}) /\ <<>> \in Seq({s[n].on})
      BY SmallSeqs
    <3> QED BY <2>2, <3>1, <3>2, SeqIsSeq
  <2>5. FramesOf(s) = hand(n)
    BY <1>2, <1>8, <1>10, <2>2, <2>3, <2>4, FlattenLast
  <2>6. CASE s[n].op = "callback"
    <3>1. CallbacksOf(s) = {s[n]}
      BY <1>3, <1>4, <1>5, <2>1, <2>6
    <3> QED BY <1>3, <2>1, <2>5, <2>6, <3>1
  <2>7. CASE s[n].op # "callback"
    <3>1. CallbacksOf(s) = {}
      BY <1>3, <1>4, <1>5, <2>7
    <3> QED BY <2>5, <2>7, <3>1
  <2> QED BY <2>6, <2>7
<1> QED BY <1>9, <1>10

LEMMA InHandFacts ==
    ASSUME TodoOK, LineAtEnd
    PROVE  \/ CallbacksOf(todo["delivery"]) = {} /\ InHand = <<>>
           \/ \E y \in Instrs : /\ CallbacksOf(todo["delivery"]) = {y}
                               /\ InHand = <<y.on>>
<1> DEFINE s == todo["delivery"]
<1>1. s \in Seq(Instrs) /\ \A i \in 1..Len(s) : s[i].op = "callback" => i = Len(s)
  BY DEF TodoOK, LineAtEnd, LineOps, Threads
<1>2. InHand = FramesOf(s)
  BY DEF InHand, FramesOf
<1> HIDE DEF s
<1>3. \/ CallbacksOf(s) = {} /\ FramesOf(s) = <<>>
      \/ \E y \in Instrs : CallbacksOf(s) = {y} /\ FramesOf(s) = <<y.on>>
  BY <1>1, HandFacts
<1> QED BY <1>2, <1>3 DEF s

LEMMA InHandNext ==
    ASSUME TodoOK', LineAtEnd'
    PROVE  \/ CallbacksOf(todo'["delivery"]) = {} /\ InHand' = <<>>
           \/ \E y \in Instrs : /\ CallbacksOf(todo'["delivery"]) = {y}
                               /\ InHand' = <<y.on>>
<1> DEFINE s == todo'["delivery"]
<1>1. s \in Seq(Instrs) /\ \A i \in 1..Len(s) : s[i].op = "callback" => i = Len(s)
  BY DEF TodoOK, LineAtEnd, LineOps, Threads
<1>2. InHand' = FramesOf(s)
  BY DEF InHand, FramesOf
<1> HIDE DEF s
<1>3. \/ CallbacksOf(s) = {} /\ FramesOf(s) = <<>>
      \/ \E y \in Instrs : CallbacksOf(s) = {y} /\ FramesOf(s) = <<y.on>>
  BY <1>1, HandFacts
<1> QED BY <1>2, <1>3 DEF s

LEMMA InHandSame ==
    ASSUME TodoOK, LineAtEnd, TodoOK', LineAtEnd',
           CallbacksOf(todo'["delivery"]) = CallbacksOf(todo["delivery"])
    PROVE  InHand' = InHand
  BY InHandFacts, InHandNext

LEMMA CallbacksKept ==
    ASSUME Typed, Threaded, NEW t \in Threads, NEW b \in Expand(todo[t][1]),
           todo[t] # <<>>, todo[t][1] \in Instrs, Goes(t, b),
           todo[t][1].op \notin {"callback", "take"}
    PROVE  CallbacksOf(todo'["delivery"]) = CallbacksOf(todo["delivery"])
<1> DEFINE x == todo[t][1]
<1>0. TodoOK /\ wiring \in Wirings
  BY DEF Typed, TodoOK
<1>1. b \in Seq(Instrs) /\ \A y \in Range(b) : y.op \in MadeOps(x.op)
  BY <1>0, ExpandOps
<1>2. "callback" \notin MadeOps(x.op)
  BY DEF MadeOps, CallOps
<1>3. CASE t = "delivery"
  <2>1. /\ Range(todo'[t]) \subseteq Range(b) \cup Range(todo[t])
        /\ Range(todo[t]) \subseteq {x} \cup Range(todo'[t])
    BY <1>0, <1>1, GoesRanges
  <2> QED BY <1>1, <1>2, <1>3, <2>1 DEF CallbacksOf
<1>4. CASE t # "delivery"
  <2>1. todo'["delivery"] = todo["delivery"]
    BY <1>0, <1>1, <1>4, GoesFacts DEF Threads
  <2> QED BY <2>1
<1> QED BY <1>3, <1>4

\* The queue and the two logs, where nothing is queued, taken or handed on.
LineSame == UNCHANGED <<pushed, delivered, mDeliveryQueue>>

LEMMA LineQuiet ==
    ASSUME Typed, Typed', Threaded, LineAtEnd, LineAtEnd', LineSame,
           CallbacksOf(todo'["delivery"]) = CallbacksOf(todo["delivery"]),
           pushed = delivered \o InHand \o mDeliveryQueue
    PROVE  pushed' = delivered' \o InHand' \o mDeliveryQueue'
<1>1. InHand' = InHand
  BY InHandSame DEF Typed
<1> QED BY <1>1 DEF LineSame

LEMMA LineInvariance ==
    ASSUME Typed, LineInv, [Next]_vars
    PROVE  LineInv'
<1>0. wiring' = wiring
  BY WiringStays
<1> SUFFICES ASSUME Threaded
             PROVE  LineAtEnd' /\ pushed' = delivered' \o InHand' \o mDeliveryQueue'
  BY <1>0 DEF LineInv, Threaded
<1>1. LineAtEnd /\ pushed = delivered \o InHand \o mDeliveryQueue
  BY DEF LineInv
<1>2. LineAtEnd'
  BY <1>1, LineAtEndKept
<1>3. Typed'
  BY TodoInvariance, MutexInvariance, RestInvariance DEF Typed
<1>4. /\ IsSeq(pushed) /\ IsSeq(delivered) /\ IsSeq(mDeliveryQueue)
      /\ pushed \in Seq(Frames) /\ delivered \in Seq(Frames)
      /\ mDeliveryQueue \in Seq(Frames)
  BY SeqIsSeq DEF Typed, RestOK
<1>5. ASSUME NEW t \in Threads, Acquire(t) \/ Step(t), LineSame,
             todo[t][1].op \notin {"callback", "take"}
      PROVE  pushed' = delivered' \o InHand' \o mDeliveryQueue'
  <2>1. PICK b \in Expand(todo[t][1]) :
          todo[t] # <<>> /\ todo[t][1] \in Instrs /\ Goes(t, b)
    BY <1>5, StepExpands
  <2>2. CallbacksOf(todo'["delivery"]) = CallbacksOf(todo["delivery"])
    BY <1>5, <2>1, CallbacksKept
  <2> QED BY <1>1, <1>2, <1>3, <1>5, <2>2, LineQuiet
<1>6. ASSUME NEW t \in Threads, NEW op, At(t, op), Acquire(t) \/ Step(t),
             op \notin {"callback", "take"}, LineSame
      PROVE  pushed' = delivered' \o InHand' \o mDeliveryQueue'
  BY <1>5, <1>6, AtFacts DEF Typed
<1>h. IsSeq(InHand)
  BY <1>1, InHandFacts, SmallSeqs, SeqIsSeq DEF Typed
<1>7. ASSUME NEW t \in Threads, Push(t)
      PROVE  pushed' = delivered' \o InHand' \o mDeliveryQueue'
  <2>1. At(t, "push")
    BY <1>7 DEF Push
  <2>2. todo[t][1].op = "push"
    BY <2>1, AtFacts DEF Typed
  <2>3. PICK b \in Expand(todo[t][1]) :
          todo[t] # <<>> /\ todo[t][1] \in Instrs /\ Goes(t, b)
    BY <1>7, StepExpands DEF Step
  <2>4. CallbacksOf(todo'["delivery"]) = CallbacksOf(todo["delivery"])
    BY <2>2, <2>3, CallbacksKept
  <2>5. InHand' = InHand
    BY <1>1, <1>2, <1>3, <2>4, InHandSame DEF Typed
  <2> DEFINE f == Arg(t)
             q == mDeliveryQueue
             dh == delivered \o InHand
  <2>6. /\ pushed' = Append(pushed, f) /\ mDeliveryQueue' = Append(q, f)
        /\ delivered' = delivered
    BY <1>7 DEF Push
  <2>7. IsSeq(dh)
    BY <1>4, <1>h, ConcatFacts
  <2>8. pushed = dh \o q /\ IsSeq(q)
    BY <1>1, <1>4
  <2> HIDE DEF f, q, dh
  <2>9. Append(dh \o q, f) = dh \o Append(q, f)
    BY <2>7, <2>8, AppendConcat
  <2>10. delivered' \o InHand' = dh
    BY <2>5, <2>6 DEF dh
  <2> QED BY <2>6, <2>8, <2>9, <2>10
<1>8. ASSUME NEW t \in Threads, ReceiveCallback(t)
      PROVE  pushed' = delivered' \o InHand' \o mDeliveryQueue'
  <2>1. At(t, "callback")
    BY <1>8 DEF ReceiveCallback
  <2> DEFINE x == todo[t][1]
             s == todo["delivery"]
  <2>2. x.op = "callback" /\ x \in Instrs /\ todo[t] # <<>> /\ Arg(t) = x.on
    BY <2>1, AtFacts DEF Typed
  <2>3. PICK b \in Expand(todo[t][1]) : Goes(t, b)
    BY <1>8, StepExpands DEF Step
  <2>4. b \in Seq(Instrs) /\ \A y \in Range(b) : y.op \in CallOps
    BY <2>2, <2>3, ExpandOps DEF Typed, TodoOK, MadeOps
  <2>5. Len(todo[t]) \in Nat \ {0} /\ todo'[t] = b \o Tail(todo[t])
    BY <2>2, <2>3, <2>4, GoesFacts DEF Typed
  <2>6. t = "delivery" /\ Len(todo[t]) = 1
    <3>1. 1 \in 1..Len(todo[t])
      BY <2>5
    <3> QED BY <1>1, <2>2, <3>1 DEF LineAtEnd, LineOps
  <2>7. CallbacksOf(s) = {x}
    <3>1. s \in Seq(Instrs) /\ Len(s) = 1
      BY <2>6 DEF Typed, TodoOK, Threads
    <3>2. Range(s) = {s[i] : i \in 1..1}
      BY <3>1, PlacesOfSeq
    <3> QED BY <2>2, <2>6, <3>2 DEF CallbacksOf
  <2>8. InHand = <<x.on>>
    BY <1>1, <2>7, InHandFacts DEF Typed
  <2>9. CallbacksOf(todo'["delivery"]) = {}
    <3>1. Range(todo'[t]) \subseteq Range(b) \cup Range(todo[t])
      BY <2>2, <2>3, <2>4, GoesRanges DEF Typed
    <3>2. todo'[t] = b
      <4>1. Len(Tail(todo[t])) = 0 /\ IsSeq(Tail(todo[t]))
        <5>1. IsSeq(todo[t])
          BY SeqIsSeq DEF Typed, TodoOK
        <5> QED BY <2>2, <2>6, <5>1, TailFacts
      <4>2. Tail(todo[t]) = <<>>
        BY <4>1, EmptySeq DEF IsSeq
      <4> QED BY <2>4, <2>5, <4>2, ConcatEmpty, SeqIsSeq
    <3> QED BY <2>4, <2>6, <3>2 DEF CallbacksOf, CallOps
  <2>10. InHand' = <<>>
    BY <1>2, <1>3, <2>9, InHandNext DEF Typed
  <2>11. /\ delivered' = Append(delivered, x.on)
         /\ UNCHANGED <<pushed, mDeliveryQueue>>
    BY <1>8, <2>2 DEF ReceiveCallback
  <2>12. delivered \o <<x.on>> = Append(delivered, x.on)
    BY <1>4, AppendAsConcat
  <2>13. Append(delivered, x.on) \o <<>> = Append(delivered, x.on)
    BY <1>4, AppendFacts, ConcatEmpty
  <2> HIDE DEF x
  <2> QED BY <1>1, <2>8, <2>10, <2>11, <2>12, <2>13
<1>9. ASSUME NEW t \in Threads, Take(t)
      PROVE  pushed' = delivered' \o InHand' \o mDeliveryQueue'
  <2>1. At(t, "take")
    BY <1>9 DEF Take
  <2> DEFINE x == todo[t][1]
             s == todo["delivery"]
             q == mDeliveryQueue
  <2>2. x.op = "take" /\ x \in Instrs /\ todo[t] # <<>>
    BY <2>1, AtFacts DEF Typed
  <2>3. Len(todo[t]) \in Nat \ {0} /\ IsSeq(todo[t])
    <3>1. todo[t] \in Seq(Instrs) /\ IsSeq(todo[t])
      BY SeqIsSeq DEF Typed, TodoOK
    <3> QED BY <2>2, <3>1, TailFacts, LenIsNat
  <2>4. t = "delivery" /\ Len(todo[t]) = 1
    <3>1. 1 \in 1..Len(todo[t])
      BY <2>3
    <3> QED BY <1>1, <2>2, <3>1 DEF LineAtEnd, LineOps
  <2>5. Tail(todo[t]) = <<>>
    <3>1. Len(Tail(todo[t])) = 0 /\ IsSeq(Tail(todo[t]))
      BY <2>2, <2>3, <2>4, TailFacts
    <3> QED BY <3>1, EmptySeq DEF IsSeq
  <2>6. CallbacksOf(s) = {}
    <3>1. s \in Seq(Instrs) /\ Len(s) = 1
      BY <2>4 DEF Typed, TodoOK, Threads
    <3>2. Range(s) = {s[i] : i \in 1..1}
      BY <3>1, PlacesOfSeq
    <3> QED BY <2>2, <2>4, <3>2 DEF CallbacksOf
  <2>7. InHand = <<>>
    BY <1>1, <2>6, InHandFacts DEF Typed
  <2>8. pushed = delivered \o q
    BY <1>1, <1>4, <2>7, ConcatEmpty
  <2>9. UNCHANGED <<pushed, delivered>>
    BY <1>9 DEF Take
  <2> DEFINE u == Do("unlock", mDeliveryMutex)
             c == Do("callback", Head(q))
             b == <<u>> \o IF q = <<>> THEN <<>> ELSE <<c>>
  <2>10. Goes(t, b)
    BY <1>9, ThenGoes DEF Take
  <2>11. todo' = [todo EXCEPT ![t] = b \o <<>>]
    BY <2>5, <2>10 DEF Goes
  <2>12. b = IF q = <<>> THEN <<u>> ELSE <<u, c>>
    BY JoinOne
  <2>13. IsSeq(b)
    <3>1. <<u>> \in Seq({u, c}) /\ <<u, c>> \in Seq({u, c})
      BY SmallSeqs
    <3> HIDE DEF b
    <3> QED BY <2>12, <3>1, SeqIsSeq
  <2> HIDE DEF b
  <2>14. todo'["delivery"] = b
    BY <2>4, <2>11, <2>13, ConcatEmpty DEF Typed, TodoOK, Threads
  <2>15. CASE q = <<>>
    <3>1. b \in Seq({u}) /\ u.op # "callback"
      BY <2>12, <2>15, SmallSeqs, DoFacts
    <3> HIDE DEF u
    <3>2. CallbacksOf(b) = {}
      BY <3>1, PlacesOfSeq DEF CallbacksOf
    <3>3. InHand' = <<>>
      BY <1>2, <1>3, <2>14, <3>2, InHandNext DEF Typed
    <3>4. mDeliveryQueue' = <<>>
      BY <1>9, <2>15 DEF Take
    <3> QED BY <1>4, <2>8, <2>9, <2>15, <3>3, <3>4, ConcatEmpty
  <2>16. CASE q # <<>>
    <3>1. c \in CallbacksOf(b) /\ c.on = Head(q) /\ c.op = "callback"
      <4>1. c.on = Head(q) /\ c.op = "callback"
        BY DoFacts
      <4>2. b = <<u, c>> /\ b \in Seq({u, c})
        BY <2>12, <2>16, SmallSeqs
      <4> HIDE DEF u, c
      <4>3. Len(b) = 2 /\ b[2] = c
        BY <4>2
      <4> DEFINE S == {u, c}
      <4>7. b \in Seq(S)
        BY <4>2
      <4> HIDE DEF S
      <4>4. Range(b) = {b[i] : i \in 1..Len(b)}
        BY <4>7, PlacesOfSeq
      <4>5. 2 \in 1..Len(b)
        BY <4>3
      <4>6. c \in Range(b)
        BY <4>3, <4>4, <4>5
      <4> QED BY <4>1, <4>6 DEF CallbacksOf
    <3> HIDE DEF u, c
    <3>2. InHand' = <<Head(q)>>
      <4>1. \/ CallbacksOf(b) = {} /\ InHand' = <<>>
            \/ \E y \in Instrs : CallbacksOf(b) = {y} /\ InHand' = <<y.on>>
        BY <1>2, <1>3, <2>14, InHandNext DEF Typed
      <4>2. PICK y \in Instrs : CallbacksOf(b) = {y} /\ InHand' = <<y.on>>
        BY <3>1, <4>1
      <4>3. y = c
        BY <3>1, <4>2
      <4> QED BY <3>1, <4>2, <4>3
    <3>3. mDeliveryQueue' = Tail(q)
      BY <1>9, <2>16 DEF Take
    <3>4. Append(delivered, Head(q)) \o Tail(q) = delivered \o q
      BY <1>4, <2>16, HeadMoves
    <3>5. delivered \o <<Head(q)>> = Append(delivered, Head(q))
      BY <1>4, AppendAsConcat
    <3> QED BY <2>8, <2>9, <3>2, <3>3, <3>4, <3>5
  <2> QED BY <2>15, <2>16
<1>10. ASSUME NEW t \in Threads, Acquire(t) \/ Step(t),
              ~Push(t), ~ReceiveCallback(t), ~Take(t)
       PROVE  pushed' = delivered' \o InHand' \o mDeliveryQueue'
  <2>1. LineSame
    BY <1>10 DEF LineSame, line, Acquire, Step, Unlock, SendCallback, Request,
         Retransmit, Fragment, ProcessNacks, Nack, NackSent, Collect, Deliver,
         Erase, Await, Sleep, Wake, Stop, NotifyAll, Join, Find, Delete
  <2>2. \E op : At(t, op) /\ op \notin {"callback", "take"}
    BY <1>10 DEF Acquire, Step, Unlock, SendCallback, Request,
         Retransmit, Fragment, ProcessNacks, Nack, NackSent, Collect, Deliver,
         Erase, Await, Sleep, Wake, Stop, NotifyAll, Join, Find, Delete
  <2> QED BY <1>6, <1>10, <2>1, <2>2
<1>11. ASSUME NEW t \in Threads, NEW b \in Seq(Instrs), Starts(t, b), LineSame,
              \A y \in Range(b) : y.op # "callback"
       PROVE  pushed' = delivered' \o InHand' \o mDeliveryQueue'
  <2>1. CallbacksOf(todo'["delivery"]) = CallbacksOf(todo["delivery"])
    <3>1. todo'[t] = b /\ \A u \in Threads \ {t} : todo'[u] = todo[u]
      BY <1>11, StartsGives DEF StartsFacts, Typed
    <3>2. CASE t = "delivery"
      <4>1. todo["delivery"] = <<>>
        BY <1>11, <3>2 DEF Starts
      <4> QED BY <1>11, <3>1, <3>2, <4>1, NoneInEmpty DEF CallbacksOf
    <3>3. CASE t # "delivery"
      BY <3>1, <3>3 DEF Threads
    <3> QED BY <3>2, <3>3
  <2> QED BY <1>1, <1>2, <1>3, <1>11, <2>1, LineQuiet
<1>12. ASSUME NEW t \in Apps, Call(t)
       PROVE  pushed' = delivered' \o InHand' \o mDeliveryQueue'
  <2>1. PICK call, p : Suits(call, p) /\ Starts(t, Body(call, p))
    BY <1>12, CallBegins DEF Begins
  <2>2. /\ Body(call, p) \in Seq(Instrs)
        /\ \A y \in Range(Body(call, p)) : y.op \in CallOps
    BY <2>1, BodyOps
  <2>3. LineSame /\ t \in Threads
    BY <1>12 DEF Call, LineSame, line, Threads
  <2> QED BY <1>11, <2>1, <2>2, <2>3 DEF CallOps
<1>13. CASE WorkerLoop \/ DeliveryLoop
  <2>1. \/ Starts("worker", Round) \/ Starts("delivery", Awaiting)
        \/ todo' = todo
    BY <1>13 DEF WorkerLoop, DeliveryLoop, Starts
  <2>2. LineSame
    BY <1>13 DEF WorkerLoop, DeliveryLoop, LineSame, line
  <2>3. \A y \in Range(Round) : y.op # "callback"
    <3> DEFINE S == {Do("lock", mNetMutex), Do("processNacks", 0),
                     Do("unlock", mNetMutex)}
    <3>1. Round \in Seq(S)
      BY SmallSeqs DEF Round, Under
    <3>2. \A y \in S : y.op # "callback"
      BY DoFacts
    <3> HIDE DEF S
    <3> QED BY <3>1, <3>2, PlacesOfSeq
  <2>4. \A y \in Range(Awaiting) : y.op # "callback"
    <3> DEFINE S == {Do("lock", mDeliveryMutex), Do("await", 0)}
    <3>1. Awaiting \in Seq(S)
      BY SmallSeqs DEF Awaiting
    <3>2. \A y \in S : y.op # "callback"
      BY DoFacts
    <3> HIDE DEF S
    <3> QED BY <3>1, <3>2, PlacesOfSeq
  <2>5. todo' = todo => pushed' = delivered' \o InHand' \o mDeliveryQueue'
    BY <1>1, <1>2, <1>3, <2>2, LineQuiet
  <2> QED BY <1>2, <1>11, <2>1, <2>2, <2>3, <2>4, <2>5, LoopsTyped DEF Threads
<1>14. CASE WakeSpuriously \/ UNCHANGED vars
  <2>1. LineSame /\ todo' = todo
    BY <1>14 DEF WakeSpuriously, vars, LineSame, line
  <2> QED BY <1>1, <1>2, <1>3, <2>1, LineQuiet
<1>15. pushed' = delivered' \o InHand' \o mDeliveryQueue'
  BY <1>7, <1>8, <1>9, <1>10, <1>12, <1>13, <1>14 DEF Next
<1> QED BY <1>2, <1>15

\* No frame is lost, doubled or reordered between the worker and the
\* application, whatever wake-ups, stop and new frames race.
THEOREM NoFrameLost == Spec => []FramesConserved
<1>1. Init => LineInv
  <2> SUFFICES ASSUME Init PROVE LineInv
    OBVIOUS
  <2>1. todo["delivery"] = <<>> /\ \A t \in Threads : todo[t] = <<>>
    BY DEF Init, Threads
  <2>2. InHand = FramesOf(<<>>)
    BY <2>1 DEF InHand, FramesOf
  <2>3. \A i \in 1..Len(<<>>) : FALSE
    OBVIOUS
  <2>4. <<>> \in Seq(Instrs)
    BY SmallSeqs
  <2>5. \/ CallbacksOf(<<>>) = {} /\ FramesOf(<<>>) = <<>>
        \/ \E y \in Instrs : CallbacksOf(<<>>) = {y} /\ FramesOf(<<>>) = <<y.on>>
    BY <2>3, <2>4, HandFacts
  <2>6. Range(<<>>) = {}
    BY NoneInEmpty
  <2>7. InHand = <<>>
    BY <2>2, <2>5, <2>6 DEF CallbacksOf
  <2>8. <<>> \o <<>> = <<>>
    BY ConcatEmpty, EmptyIsSeq
  <2>9. LineAtEnd
    BY <2>1, <2>3 DEF LineAtEnd
  <2> QED BY <2>7, <2>8, <2>9 DEF Init, LineInv
<1>2. Typed /\ LineInv /\ [Next]_vars => LineInv'
  BY LineInvariance
<1>3. LineInv => FramesConserved
  BY DEF LineInv, FramesConserved
<1> QED BY <1>1, <1>2, <1>3, TypedInvariance, PTL DEF Spec

------------------------------------------------------------------------------
(***************************************************************************)
(* Locks.                                                                  *)
(***************************************************************************)

\* A count that each instruction moves by c goes from a to b, and is one that P
\* allows when the instruction is done.
Walk(s, c, a, b, P) ==
    /\ s \in Seq(Instrs)
    /\ \E h \in [1..(Len(s) + 1) -> Nat] :
         /\ h[1] = a /\ h[Len(s) + 1] = b
         /\ \A i \in 1..Len(s) : h[i + 1] = h[i] + c[s[i]] /\ h[i] \in P[s[i]]

LEMMA WalkEmpty ==
    ASSUME NEW c, NEW a \in Nat, NEW P
    PROVE  Walk(<<>>, c, a, a, P)
<1> DEFINE s == <<>>
           h == [i \in 1..1 |-> a]
<1>1. s \in Seq(Instrs) /\ Len(s) = 0
  OBVIOUS
<1>2. h \in [1..1 -> Nat] /\ h[1] = a
  OBVIOUS
<1> HIDE DEF s, h
<1>3. Walk(s, c, a, a, P)
  BY <1>1, <1>2 DEF Walk
<1> QED BY <1>3 DEF s

LEMMA WalkOne ==
    ASSUME NEW y \in Instrs, NEW c, NEW a \in Nat, NEW P,
           a + c[y] \in Nat, a \in P[y]
    PROVE  Walk(<<y>>, c, a, a + c[y], P)
<1> DEFINE s == <<y>>
           b == a + c[y]
           h == [i \in 1..2 |-> IF i = 1 THEN a ELSE b]
<1>1. s \in Seq(Instrs) /\ Len(s) = 1 /\ s[1] = y
  BY SmallSeqs
<1>2. h \in [1..2 -> Nat] /\ h[1] = a /\ h[2] = b
  OBVIOUS
<1> HIDE DEF s, h
<1>3. h \in [1..(Len(s) + 1) -> Nat] /\ h[Len(s) + 1] = b
  BY <1>1, <1>2
<1>4. ASSUME NEW i \in 1..Len(s)
      PROVE  h[i + 1] = h[i] + c[s[i]] /\ h[i] \in P[s[i]]
  <2>1. i = 1
    BY <1>1
  <2> QED BY <1>1, <1>2, <2>1
<1> HIDE DEF b
<1>5. Walk(s, c, a, b, P)
  BY <1>1, <1>2, <1>3, <1>4 DEF Walk
<1> QED BY <1>5 DEF s, b

LEMMA WalkEnds ==
    ASSUME NEW s, NEW c, NEW a, NEW b, NEW P, Walk(s, c, a, b, P)
    PROVE  a \in Nat /\ b \in Nat /\ s \in Seq(Instrs)
<1>1. PICK h \in [1..(Len(s) + 1) -> Nat] : h[1] = a /\ h[Len(s) + 1] = b
  BY DEF Walk
<1>2. s \in Seq(Instrs) /\ Len(s) \in Nat
  BY PlacesOfSeq DEF Walk
<1>3. 1 \in 1..(Len(s) + 1) /\ Len(s) + 1 \in 1..(Len(s) + 1)
  BY <1>2
<1> QED BY <1>1, <1>2, <1>3

\* The same instructions from d higher up, moving another count likewise.
LEMMA WalkMove ==
    ASSUME NEW s, NEW c, NEW a, NEW b, NEW P, Walk(s, c, a, b, P),
           NEW d \in Nat, NEW e, NEW Q,
           \A y \in Range(s) : /\ e[y] = c[y] /\ c[y] \in Int
                               /\ \A n \in Nat : n \in P[y] => n + d \in Q[y]
    PROVE  Walk(s, e, a + d, b + d, Q)
<1>1. PICK h \in [1..(Len(s) + 1) -> Nat] :
         /\ h[1] = a /\ h[Len(s) + 1] = b
         /\ \A i \in 1..Len(s) : h[i + 1] = h[i] + c[s[i]] /\ h[i] \in P[s[i]]
  BY DEF Walk
<1>2. /\ s \in Seq(Instrs) /\ Len(s) \in Nat
      /\ \A i \in 1..Len(s) : s[i] \in Range(s)
  BY PlacesOfSeq DEF Walk
<1> DEFINE g == [i \in 1..(Len(s) + 1) |-> h[i] + d]
<1>3. g \in [1..(Len(s) + 1) -> Nat]
  OBVIOUS
<1>4. \A i \in 1..(Len(s) + 1) : g[i] = h[i] + d /\ h[i] \in Nat
  OBVIOUS
<1> HIDE DEF g
<1>5. g[1] = a + d /\ g[Len(s) + 1] = b + d
  BY <1>1, <1>2, <1>4
<1>6. ASSUME NEW i \in 1..Len(s)
      PROVE  g[i + 1] = g[i] + e[s[i]] /\ g[i] \in Q[s[i]]
  <2>1. i \in 1..(Len(s) + 1) /\ i + 1 \in 1..(Len(s) + 1)
    BY <1>2
  <2>2. /\ g[i] = h[i] + d /\ g[i + 1] = h[i + 1] + d
        /\ h[i] \in Nat /\ h[i + 1] \in Nat
    BY <1>4, <2>1
  <2>3. h[i + 1] = h[i] + c[s[i]] /\ h[i] \in P[s[i]]
    BY <1>1
  <2>4. e[s[i]] = c[s[i]] /\ c[s[i]] \in Int /\ h[i] + d \in Q[s[i]]
    BY <1>2, <2>2, <2>3
  <2> QED BY <2>2, <2>3, <2>4
<1> QED BY <1>2, <1>3, <1>5, <1>6 DEF Walk

LEMMA WalkCat ==
    ASSUME NEW s, NEW t, NEW c, NEW a, NEW b, NEW z, NEW P,
           Walk(s, c, a, b, P), Walk(t, c, b, z, P)
    PROVE  Walk(s \o t, c, a, z, P)
<1>1. PICK h \in [1..(Len(s) + 1) -> Nat] :
         /\ h[1] = a /\ h[Len(s) + 1] = b
         /\ \A i \in 1..Len(s) : h[i + 1] = h[i] + c[s[i]] /\ h[i] \in P[s[i]]
  BY DEF Walk
<1>2. PICK g \in [1..(Len(t) + 1) -> Nat] :
         /\ g[1] = b /\ g[Len(t) + 1] = z
         /\ \A i \in 1..Len(t) : g[i + 1] = g[i] + c[t[i]] /\ g[i] \in P[t[i]]
  BY DEF Walk
<1>3. s \in Seq(Instrs) /\ t \in Seq(Instrs)
  BY DEF Walk
<1> DEFINE r == s \o t
           m == Len(s)
           n == Len(t)
           k == [i \in 1..(m + n + 1) |-> IF i <= m THEN h[i] ELSE g[i - m]]
<1>4. m \in Nat /\ n \in Nat
  BY <1>3, PlacesOfSeq
<1>5. r \in Seq(Instrs) /\ Len(r) = m + n
      /\ (\A i \in 1..m : r[i] = s[i]) /\ (\A i \in 1..n : r[m + i] = t[i])
  <2>1. IsSeq(s) /\ IsSeq(t)
    BY <1>3, SeqIsSeq
  <2> QED BY <1>3, <2>1, ConcatFacts, SmallSeqs
<1>6. ASSUME NEW i \in 1..m
      PROVE  k[i] = h[i]
  BY <1>4
<1>7. ASSUME NEW i \in 1..(n + 1)
      PROVE  k[m + i] = g[i]
  <2>1. m + i \in 1..(m + n + 1) /\ ~(m + i <= m) /\ (m + i) - m = i
    BY <1>4
  <2> QED BY <2>1
<1>8. k \in [1..(m + n + 1) -> Nat]
  <2> SUFFICES ASSUME NEW i \in 1..(m + n + 1)
               PROVE  (IF i <= m THEN h[i] ELSE g[i - m]) \in Nat
    OBVIOUS
  <2>1. CASE i <= m
    <3>1. i \in 1..(m + 1)
      BY <1>4, <2>1
    <3> QED BY <2>1, <3>1
  <2>2. CASE ~(i <= m)
    <3>1. i - m \in 1..(n + 1)
      BY <1>4, <2>2
    <3> QED BY <2>2, <3>1
  <2> QED BY <2>1, <2>2
<1> HIDE DEF k, r
<1>9. k[m + 1] = b /\ h[m + 1] = b
  <2>1. 1 \in 1..(n + 1)
    BY <1>4
  <2> QED BY <1>1, <1>2, <1>7, <2>1
<1>10. k[1] = a
  <2>1. CASE m = 0
    BY <1>1, <1>9, <2>1
  <2>2. CASE m # 0
    <3>1. 1 \in 1..m
      BY <1>4, <2>2
    <3> QED BY <1>1, <1>6, <3>1
  <2> QED BY <2>1, <2>2
<1>11. k[m + n + 1] = z
  <2>1. n + 1 \in 1..(n + 1) /\ m + (n + 1) = m + n + 1
    BY <1>4
  <2> QED BY <1>2, <1>7, <2>1
<1>12. ASSUME NEW i \in 1..(m + n)
       PROVE  k[i + 1] = k[i] + c[r[i]] /\ k[i] \in P[r[i]]
  <2>1. CASE i \in 1..m
    <3>1. k[i] = h[i] /\ r[i] = s[i]
      BY <1>5, <1>6, <2>1
    <3>2. k[i + 1] = h[i + 1]
      <4>1. CASE i = m
        BY <1>9, <4>1
      <4>2. CASE i # m
        <5>1. i + 1 \in 1..m
          BY <1>4, <2>1, <4>2
        <5> QED BY <1>6, <5>1
      <4> QED BY <4>1, <4>2
    <3> QED BY <1>1, <2>1, <3>1, <3>2
  <2>2. CASE i \notin 1..m
    <3> DEFINE j == i - m
    <3>1. /\ j \in 1..n /\ j + 1 \in 1..(n + 1) /\ j \in 1..(n + 1)
          /\ i = m + j /\ i + 1 = m + (j + 1)
      BY <1>4, <2>2
    <3> HIDE DEF j
    <3>2. k[i] = g[j] /\ k[i + 1] = g[j + 1] /\ r[i] = t[j]
      BY <1>5, <1>7, <3>1
    <3> QED BY <1>2, <3>1, <3>2
  <2> QED BY <2>1, <2>2
<1>13. k \in [1..(Len(r) + 1) -> Nat] /\ k[Len(r) + 1] = z
  BY <1>5, <1>8, <1>11
<1>14. \A i \in 1..Len(r) : k[i + 1] = k[i] + c[r[i]] /\ k[i] \in P[r[i]]
  BY <1>5, <1>12
<1>15. Walk(r, c, a, z, P)
  BY <1>5, <1>10, <1>13, <1>14 DEF Walk
<1> QED BY <1>15 DEF r

\* The first instruction, and the rest.
LEMMA WalkTail ==
    ASSUME NEW s, NEW c, NEW a, NEW b, NEW P, Walk(s, c, a, b, P), s # <<>>
    PROVE  /\ a + c[s[1]] \in Nat
           /\ a \in P[s[1]]
           /\ Walk(Tail(s), c, a + c[s[1]], b, P)
<1>1. PICK h \in [1..(Len(s) + 1) -> Nat] :
         /\ h[1] = a /\ h[Len(s) + 1] = b
         /\ \A i \in 1..Len(s) : h[i + 1] = h[i] + c[s[i]] /\ h[i] \in P[s[i]]
  BY DEF Walk
<1>2. s \in Seq(Instrs) /\ IsSeq(s)
  BY SeqIsSeq DEF Walk
<1> DEFINE r == Tail(s)
           n == Len(r)
           g == [i \in 1..(n + 1) |-> h[i + 1]]
<1>3. /\ r \in Seq(Instrs) /\ Len(s) = n + 1 /\ n \in Nat
      /\ \A i \in 1..n : r[i] = s[i + 1]
  <2>1. r \in Seq(Instrs)
    BY <1>2, HeadTailProperties
  <2>2. /\ Len(s) >= 1 /\ Len(r) = Len(s) - 1
        /\ \A i \in 1..(Len(s) - 1) : r[i] = s[i + 1]
    BY <1>2, TailFacts
  <2>3. Len(s) \in Nat
    BY <1>2, LenIsNat
  <2> QED BY <2>1, <2>2, <2>3
<1> HIDE DEF r
<1>4. g \in [1..(n + 1) -> Nat]
  <2> SUFFICES ASSUME NEW i \in 1..(n + 1)
               PROVE  h[i + 1] \in Nat
    OBVIOUS
  <2>1. i + 1 \in 1..(Len(s) + 1)
    BY <1>3
  <2> QED BY <2>1
<1>5. \A i \in 1..(n + 1) : g[i] = h[i + 1]
  OBVIOUS
<1> HIDE DEF g
<1>6. 1 \in 1..(n + 1) /\ n + 1 \in 1..(n + 1) /\ 1 \in 1..Len(s)
  BY <1>3
<1>7. g[1] = a + c[s[1]] /\ g[n + 1] = b
  BY <1>1, <1>3, <1>5, <1>6
<1>8. ASSUME NEW i \in 1..n
      PROVE  g[i + 1] = g[i] + c[r[i]] /\ g[i] \in P[r[i]]
  <2> DEFINE j == i + 1
  <2>1. j \in 1..Len(s) /\ i \in 1..(n + 1) /\ j \in 1..(n + 1)
    BY <1>3
  <2>2. r[i] = s[j] /\ g[i] = h[j]
    BY <1>3, <1>5, <2>1
  <2>3. g[i + 1] = h[j + 1]
    BY <1>5, <2>1
  <2> HIDE DEF j
  <2> QED BY <1>1, <2>1, <2>2, <2>3
<1>9. Walk(r, c, a + c[s[1]], b, P)
  BY <1>3, <1>4, <1>7, <1>8 DEF Walk
<1>10. g[1] \in Nat
  BY <1>4, <1>6
<1> QED BY <1>1, <1>6, <1>7, <1>9, <1>10 DEF r

\* Instructions that leave the count alone.
LEMMA WalkStill ==
    ASSUME NEW s \in Seq(Instrs), NEW c, NEW a \in Nat, NEW P,
           \A y \in Range(s) : c[y] = 0 /\ a \in P[y]
    PROVE  Walk(s, c, a, a, P)
<1>1. /\ Len(s) \in Nat
      /\ \A i \in 1..Len(s) : s[i] \in Range(s)
  BY PlacesOfSeq
<1> DEFINE h == [i \in 1..(Len(s) + 1) |-> a]
<1>2. h \in [1..(Len(s) + 1) -> Nat] /\ \A i \in 1..(Len(s) + 1) : h[i] = a
  OBVIOUS
<1> HIDE DEF h
<1>3. h[1] = a /\ h[Len(s) + 1] = a
  BY <1>1, <1>2
<1>4. ASSUME NEW i \in 1..Len(s)
      PROVE  h[i + 1] = h[i] + c[s[i]] /\ h[i] \in P[s[i]]
  <2>1. i \in 1..(Len(s) + 1) /\ i + 1 \in 1..(Len(s) + 1)
    BY <1>1
  <2>2. h[i] = a /\ h[i + 1] = a /\ c[s[i]] = 0 /\ a \in P[s[i]]
    BY <1>1, <1>2, <2>1
  <2> QED BY <2>2
<1> QED BY <1>2, <1>3, <1>4 DEF Walk

LEMMA WalkNone ==
    ASSUME NEW c, NEW a, NEW b, NEW P, Walk(<<>>, c, a, b, P)
    PROVE  a = b
<1> DEFINE s == <<>>
<1>1. Walk(s, c, a, b, P) /\ Len(s) = 0
  OBVIOUS
<1> HIDE DEF s
<1> QED BY <1>1 DEF Walk

\* What an instruction, with all that comes of it, does to the depth at which
\* its thread holds l.
Change(x, l) ==
    IF x = Do("lock", l) THEN 1
    ELSE IF \/ x = Do("unlock", l)
            \/ l = mDeliveryMutex /\ x.op \in {"await", "take", "sleep", "stop"}
      THEN -1
    ELSE 0

Turns(l) == [x \in Instrs |-> Change(x, l)]

Finding(K) == [x \in Instrs |-> {n \in Nat : x.op \in K => n >= 1}]

\* The instructions take a thread that holds l at depth a to depth b, and those
\* of the kinds K find it held.
Frag(s, l, a, b, K) == Walk(s, Turns(l), a, b, Finding(K))

LEMMA ChangeIsInt ==
    ASSUME NEW x, NEW l
    PROVE  Change(x, l) \in {-1, 0, 1}
  BY DEF Change

LEMMA TurnsFacts ==
    ASSUME NEW x \in Instrs, NEW l
    PROVE  Turns(l)[x] = Change(x, l) /\ Turns(l)[x] \in Int
<1>1. Turns(l)[x] = Change(x, l)
  BY DEF Turns
<1> QED BY <1>1, ChangeIsInt

LEMMA FindingFacts ==
    ASSUME NEW x \in Instrs, NEW K, NEW n
    PROVE  n \in Finding(K)[x] <=> n \in Nat /\ (x.op \in K => n >= 1)
  BY DEF Finding

LEMMA FragEmpty ==
    ASSUME NEW l, NEW a \in Nat, NEW K
    PROVE  Frag(<<>>, l, a, a, K)
  BY WalkEmpty DEF Frag

LEMMA FragOne ==
    ASSUME NEW y \in Instrs, NEW l, NEW a \in Nat, NEW K,
           a + Change(y, l) \in Nat, y.op \in K => a >= 1
    PROVE  Frag(<<y>>, l, a, a + Change(y, l), K)
<1>1. Turns(l)[y] = Change(y, l) /\ a \in Finding(K)[y]
  BY TurnsFacts, FindingFacts
<1>2. Walk(<<y>>, Turns(l), a, a + Turns(l)[y], Finding(K))
  BY <1>1, WalkOne
<1> QED BY <1>1, <1>2 DEF Frag

LEMMA FragEnds ==
    ASSUME NEW s, NEW l, NEW a, NEW b, NEW K, Frag(s, l, a, b, K)
    PROVE  a \in Nat /\ b \in Nat /\ s \in Seq(Instrs)
  BY WalkEnds DEF Frag

LEMMA FragInstrs ==
    ASSUME NEW s, NEW l, NEW a, NEW b, NEW K, Frag(s, l, a, b, K),
           NEW y \in Range(s)
    PROVE  y \in Instrs
  BY FragEnds, PlacesOfSeq

LEMMA FragLift ==
    ASSUME NEW s, NEW l, NEW a, NEW b, NEW K, Frag(s, l, a, b, K),
           NEW d \in Nat
    PROVE  Frag(s, l, a + d, b + d, K)
<1> DEFINE c == Turns(l)
           P == Finding(K)
<1>1. Walk(s, c, a, b, P)
  BY DEF Frag
<1>2. ASSUME NEW y \in Range(s)
      PROVE  c[y] \in Int /\ \A n \in Nat : n \in P[y] => n + d \in P[y]
  <2>1. y \in Instrs
    BY FragInstrs
  <2>2. \A n : n \in P[y] <=> n \in Nat /\ (y.op \in K => n >= 1)
    BY <2>1, FindingFacts
  <2>3. c[y] \in Int
    BY <2>1, TurnsFacts
  <2> HIDE DEF P, c
  <2> QED BY <2>2, <2>3
<1> HIDE DEF P, c
<1>3. Walk(s, c, a + d, b + d, P)
  BY <1>1, <1>2, WalkMove
<1> QED BY <1>3 DEF Frag, c, P

LEMMA FragCat ==
    ASSUME NEW s, NEW t, NEW l, NEW a, NEW b, NEW c, NEW K,
           Frag(s, l, a, b, K), Frag(t, l, b, c, K)
    PROVE  Frag(s \o t, l, a, c, K)
  BY WalkCat DEF Frag

LEMMA FragTail ==
    ASSUME NEW s, NEW l, NEW a, NEW b, NEW K, Frag(s, l, a, b, K), s # <<>>
    PROVE  /\ a + Change(s[1], l) \in Nat
           /\ s[1].op \in K => a >= 1
           /\ Frag(Tail(s), l, a + Change(s[1], l), b, K)
<1> DEFINE c == Turns(l)
           P == Finding(K)
<1>1. /\ a + c[s[1]] \in Nat /\ a \in P[s[1]]
      /\ Walk(Tail(s), c, a + c[s[1]], b, P)
  <2>1. Walk(s, c, a, b, P)
    BY DEF Frag
  <2> HIDE DEF c, P
  <2> QED BY <2>1, WalkTail
<1>2. s[1] \in Instrs
  BY FragEnds, HeadTailProperties
<1>3. c[s[1]] = Change(s[1], l) /\ (a \in P[s[1]] => (s[1].op \in K => a >= 1))
  BY <1>2, TurnsFacts, FindingFacts
<1> QED BY <1>1, <1>3 DEF Frag

LEMMA FragWeaken ==
    ASSUME NEW s, NEW l, NEW a, NEW b, NEW K, Frag(s, l, a, b, K)
    PROVE  Frag(s, l, a, b, {})
<1> DEFINE c == Turns(l)
           P == Finding(K)
           Q == Finding({})
<1>1. Walk(s, c, a, b, P)
  BY DEF Frag
<1>2. ASSUME NEW y \in Range(s)
      PROVE  c[y] \in Int /\ \A n \in Nat : n \in P[y] => n + 0 \in Q[y]
  <2>1. y \in Instrs
    BY FragInstrs
  <2>2. \A n \in Nat : n \in Q[y]
    BY <2>1, FindingFacts
  <2>3. c[y] \in Int
    BY <2>1, TurnsFacts
  <2> HIDE DEF P, Q, c
  <2> QED BY <2>2, <2>3
<1> HIDE DEF P, Q, c
<1>3. Walk(s, c, a + 0, b + 0, Q)
  BY <1>1, <1>2, WalkMove
<1>4. a + 0 = a /\ b + 0 = b
  BY <1>1, WalkEnds
<1> QED BY <1>3, <1>4 DEF Frag, c, Q

\* Instructions that leave l alone.
LEMMA FragStill ==
    ASSUME NEW s \in Seq(Instrs), NEW l, NEW a \in Nat, NEW K,
           \A y \in Range(s) : Change(y, l) = 0 /\ (y.op \in K => a >= 1)
    PROVE  Frag(s, l, a, a, K)
<1> DEFINE c == Turns(l)
           P == Finding(K)
<1>1. ASSUME NEW y \in Range(s)
      PROVE  c[y] = 0 /\ a \in P[y]
  <2>1. y \in Instrs
    BY PlacesOfSeq
  <2> QED BY <2>1, TurnsFacts, FindingFacts
<1> HIDE DEF c, P
<1>2. Walk(s, c, a, a, P)
  BY <1>1, WalkStill
<1> QED BY <1>2 DEF Frag, c, P

LEMMA ChangePlain ==
    ASSUME NEW x, NEW l,
           x.op \notin {"lock", "unlock", "await", "take", "sleep", "stop"}
    PROVE  Change(x, l) = 0
<1>1. x # Do("lock", l) /\ x # Do("unlock", l)
  BY DoFacts
<1> QED BY <1>1 DEF Change

LEMMA ChangeHanded ==
    ASSUME NEW x, NEW l, x.op \in {"await", "take", "sleep", "stop"}
    PROVE  Change(x, l) = IF l = mDeliveryMutex THEN -1 ELSE 0
<1>1. x # Do("lock", l) /\ x # Do("unlock", l)
  BY DoFacts
<1> QED BY <1>1 DEF Change

LEMMA ChangeLock ==
    ASSUME NEW m, NEW l
    PROVE  /\ Change(Do("lock", m), l) = IF m = l THEN 1 ELSE 0
           /\ Change(Do("unlock", m), l) = IF m = l THEN -1 ELSE 0
<1>1. /\ Do("lock", m) # Do("unlock", l) /\ Do("unlock", m) # Do("lock", l)
      /\ Do("lock", m) = Do("lock", l) <=> m = l
      /\ Do("unlock", m) = Do("unlock", l) <=> m = l
      /\ Do("lock", m).op = "lock" /\ Do("unlock", m).op = "unlock"
  BY DoFacts
<1> QED BY <1>1 DEF Change

\* The mutex each operation is done under.
Guarded(l) ==
    CASE l = mNetMutex -> {"fragment", "processNacks", "nack", "sent", "collect",
                           "deliver", "push", "erase"}
      [] l = mDeliveryMutex -> {"push", "await", "take", "sleep", "stop"}
      [] l = mMutex -> {"sendCallback", "request", "retransmit"}
      [] l = gHandlesMutex -> {"findSender", "findReceiver", "endSend",
                               "endReceive", "delete"}

LEMMA GuardedFacts ==
    ASSUME NEW l \in Mutexes
    PROVE  /\ l = mNetMutex => Guarded(l) = {"fragment", "processNacks", "nack",
                "sent", "collect", "deliver", "push", "erase"}
           /\ l = mDeliveryMutex => Guarded(l) = {"push", "await", "take",
                "sleep", "stop"}
           /\ l = mMutex => Guarded(l) = {"sendCallback", "request",
                "retransmit"}
           /\ l = gHandlesMutex => Guarded(l) = {"findSender", "findReceiver",
                "endSend", "endReceive", "delete"}
           /\ Guarded(l) \cap {"lock", "unlock"} = {}
           /\ l \in {mNetMutex, mDeliveryMutex, mMutex, gHandlesMutex}
  BY DEF Guarded, Mutexes, mNetMutex, mDeliveryMutex, mMutex, gHandlesMutex

\* What is brief takes l only for what is done under l.
Sparing(l) == [x \in Instrs |-> {n \in Nat :
                 /\ x.op \in Guarded(l) => n >= 1
                 /\ n >= 1 => x.op \in Guarded(l) \cup {"unlock"}}]

Brief(s, l) == Walk(s, Turns(l), 0, 0, Sparing(l))

LEMMA SparingFacts ==
    ASSUME NEW x \in Instrs, NEW l, NEW n
    PROVE  n \in Sparing(l)[x] <=>
             /\ n \in Nat
             /\ x.op \in Guarded(l) => n >= 1
             /\ n >= 1 => x.op \in Guarded(l) \cup {"unlock"}
  BY DEF Sparing

LEMMA BriefFrag ==
    ASSUME NEW s, NEW l, Brief(s, l)
    PROVE  Frag(s, l, 0, 0, Guarded(l)) /\ s \in Seq(Instrs)
<1> DEFINE c == Turns(l)
           P == Sparing(l)
           Q == Finding(Guarded(l))
<1>1. Walk(s, c, 0, 0, P)
  BY DEF Brief
<1>2. s \in Seq(Instrs)
  BY <1>1, WalkEnds
<1>3. ASSUME NEW y \in Range(s)
      PROVE  c[y] \in Int /\ \A n \in Nat : n \in P[y] => n + 0 \in Q[y]
  <2>1. y \in Instrs
    BY <1>2, PlacesOfSeq
  <2>2. \A n \in Nat : n \in P[y] => n \in Q[y]
    BY <2>1, SparingFacts, FindingFacts
  <2>3. c[y] \in Int
    BY <2>1, TurnsFacts
  <2> HIDE DEF P, Q, c
  <2> QED BY <2>2, <2>3
<1> HIDE DEF P, Q, c
<1>4. Walk(s, c, 0 + 0, 0 + 0, Q)
  BY <1>1, <1>3, WalkMove
<1> QED BY <1>2, <1>4 DEF Frag, c, Q

LEMMA BriefEmpty ==
    ASSUME NEW l
    PROVE  Brief(<<>>, l)
  BY WalkEmpty DEF Brief

LEMMA BriefCat ==
    ASSUME NEW s, NEW t, NEW l, Brief(s, l), Brief(t, l)
    PROVE  Brief(s \o t, l)
  BY WalkCat DEF Brief

LEMMA BriefUnder ==
    ASSUME NEW m \in Mutexes, NEW y \in Instrs, NEW l \in Mutexes,
           y.op \notin {"lock", "unlock", "await", "take", "sleep", "stop"},
           y.op \in Guarded(l) <=> m = l
    PROVE  Brief(Under(m, <<y>>), l)
<1> DEFINE p == Do("lock", m)
           v == Do("unlock", m)
           d == IF m = l THEN 1 ELSE 0
           c == Turns(l)
           P == Sparing(l)
<1>1. p \in Instrs /\ v \in Instrs
  BY DoIsInstr
<1>2. /\ p.op = "lock" /\ v.op = "unlock"
      /\ p.op \notin Guarded(l) /\ v.op \notin Guarded(l)
  BY DoFacts, GuardedFacts
<1>3. c[p] = d /\ c[v] = 0 - d
  BY <1>1, TurnsFacts, ChangeLock
<1>4. c[y] = 0
  BY TurnsFacts, ChangePlain
<1>5. 0 \in P[p]
  BY <1>1, <1>2, SparingFacts
<1>6. d \in P[v]
  BY <1>1, <1>2, SparingFacts
<1>7. d \in P[y]
  BY SparingFacts
<1>8. d \in Nat /\ 0 + d = d /\ d + (0 - d) = 0 /\ d + 0 = d
  OBVIOUS
<1> HIDE DEF p, v, d, c, P
<1>9. Walk(<<p>>, c, 0, d, P)
  <2>1. Walk(<<p>>, c, 0, 0 + c[p], P)
    BY <1>1, <1>3, <1>5, <1>8, WalkOne
  <2> QED BY <1>3, <1>8, <2>1
<1>10. Walk(<<y>>, c, d, d, P)
  <2>1. Walk(<<y>>, c, d, d + c[y], P)
    BY <1>4, <1>7, <1>8, WalkOne
  <2> QED BY <1>4, <1>8, <2>1
<1>11. Walk(<<v>>, c, d, 0, P)
  <2>1. Walk(<<v>>, c, d, d + c[v], P)
    BY <1>1, <1>3, <1>6, <1>8, WalkOne
  <2> QED BY <1>3, <1>8, <2>1
<1>12. Walk((<<p>> \o <<y>>) \o <<v>>, c, 0, 0, P)
  <2>1. Walk(<<p>> \o <<y>>, c, 0, d, P)
    BY ONLY <1>9, <1>10, WalkCat
  <2> QED BY ONLY <1>11, <2>1, WalkCat
<1> QED BY <1>12 DEF Under, Brief, p, v, c, P

LEMMA BriefRound ==
    ASSUME NEW l \in Mutexes
    PROVE  Brief(Round, l)
<1> DEFINE y == Do("processNacks", 0)
<1>1. y \in Instrs /\ y.op = "processNacks"
  BY DoIsInstr, DoFacts
<1>2. y.op \in Guarded(l) <=> mNetMutex = l
  BY <1>1, GuardedFacts
<1> HIDE DEF y
<1>3. Brief(Under(mNetMutex, <<y>>), l)
  BY <1>1, <1>2, BriefUnder DEF Mutexes
<1> QED BY <1>3 DEF Round, y

\* Locked, the mutex is given back by what follows.
LEMMA BriefHanded ==
    ASSUME NEW l \in Mutexes, NEW op \in {"await", "stop"}
    PROVE  Brief(<<Do("lock", mDeliveryMutex), Do(op, 0)>>, l)
<1> DEFINE p == Do("lock", mDeliveryMutex)
           v == Do(op, 0)
           d == IF mDeliveryMutex = l THEN 1 ELSE 0
           c == Turns(l)
           P == Sparing(l)
<1>1. p \in Instrs /\ v \in Instrs
  BY DoIsInstr DEF Mutexes
<1>2. /\ p.op = "lock" /\ v.op = op
      /\ p.op \notin Guarded(l) /\ (v.op \in Guarded(l) <=> mDeliveryMutex = l)
  BY DoFacts, GuardedFacts
<1>3. c[p] = d /\ c[v] = 0 - d
  BY <1>1, <1>2, TurnsFacts, ChangeLock, ChangeHanded
<1>4. 0 \in P[p]
  BY <1>1, <1>2, SparingFacts
<1>5. d \in P[v]
  BY <1>1, <1>2, SparingFacts
<1>6. d \in Nat /\ 0 + d = d /\ d + (0 - d) = 0
  OBVIOUS
<1> HIDE DEF p, v, d, c, P
<1>7. Walk(<<p>>, c, 0, d, P)
  <2>1. Walk(<<p>>, c, 0, 0 + c[p], P)
    BY <1>1, <1>3, <1>4, <1>6, WalkOne
  <2> QED BY <1>3, <1>6, <2>1
<1>8. Walk(<<v>>, c, d, 0, P)
  <2>1. Walk(<<v>>, c, d, d + c[v], P)
    BY <1>1, <1>3, <1>5, <1>6, WalkOne
  <2> QED BY <1>3, <1>6, <2>1
<1>9. Walk(<<p>> \o <<v>>, c, 0, 0, P)
  BY ONLY <1>7, <1>8, WalkCat
<1> QED BY <1>9, JoinOne DEF Brief, p, v, c, P

\* Every call gives back what it takes.
LEMMA BriefBody ==
    ASSUME NEW call, NEW p, Suits(call, p), NEW l \in Mutexes
    PROVE  Brief(Body(call, p), l)
<1> DEFINE Plain(y, m) == /\ y \in Instrs
                          /\ y.op \notin {"lock", "unlock", "await", "take",
                                          "sleep", "stop"}
                          /\ y.op \in Guarded(l) <=> m = l
<1>0. /\ call \in Carrying => p \in Packets
      /\ call = "receiveNack" => p \in Frames
  BY DEF Suits
<1>a. ASSUME NEW m \in Mutexes, NEW y, Plain(y, m)
      PROVE  Brief(Under(m, <<y>>), l)
  BY <1>a, GuardedFacts, BriefUnder
<1>b. Brief(<<>>, l)
  BY BriefEmpty
<1>1. CASE call = "send"
  <2>1. Plain(Do("sendCallback", p), mMutex)
    BY <1>0, <1>1, DoIsInstr, DoFacts, GuardedFacts DEF Carrying
  <2> HIDE DEF Plain
  <2> QED BY <1>1, <1>a, <2>1 DEF Body, Mutexes
<1>2. CASE call = "receiveNack"
  <2>1. Plain(Do("request", p), mMutex)
    BY <1>0, <1>2, DoIsInstr, DoFacts, GuardedFacts
  <2> HIDE DEF Plain
  <2> QED BY <1>2, <1>a, <2>1 DEF Body, Mutexes
<1>3. CASE call = "processRetransmits"
  <2>1. Plain(Do("retransmit", 0), mMutex)
    BY DoIsInstr, DoFacts, GuardedFacts
  <2> HIDE DEF Plain
  <2> QED BY <1>3, <1>a, <2>1 DEF Body, Mutexes
<1>4. CASE call = "receive"
  <2>1. Plain(Do("fragment", p), mNetMutex)
    BY <1>0, <1>4, DoIsInstr, DoFacts, GuardedFacts DEF Carrying
  <2>2. Brief(Under(mNetMutex, <<Do("fragment", p)>>), l)
    <3> HIDE DEF Plain
    <3> QED BY <1>a, <2>1 DEF Mutexes
  <2>3. Brief(IF Threaded THEN <<>> ELSE Round, l)
    BY <1>b, BriefRound
  <2>4. Body(call, p) = Under(mNetMutex, <<Do("fragment", p)>>)
                          \o (IF Threaded THEN <<>> ELSE Round)
    BY <1>4 DEF Body
  <2> QED BY <2>2, <2>3, <2>4, BriefCat
<1>5. CASE call = "poll"
  <2>1. Body(call, p) = IF Threaded THEN <<>> ELSE Round
    BY <1>5 DEF Body
  <2> QED BY <1>b, <2>1, BriefRound
<1>6. CASE call = "stop"
  BY <1>6, BriefHanded DEF Body, StopBody
<1>7. CASE call = "efp_send_data"
  <2>1. Plain(Do("findSender", p), gHandlesMutex)
    BY <1>0, <1>7, DoIsInstr, DoFacts, GuardedFacts DEF Carrying
  <2> HIDE DEF Plain
  <2> QED BY <1>7, <1>a, <2>1 DEF Body, Mutexes, ByHandle
<1>8. CASE call = "efp_receive_fragment"
  <2>1. Plain(Do("findReceiver", p), gHandlesMutex)
    BY <1>0, <1>8, DoIsInstr, DoFacts, GuardedFacts DEF Carrying
  <2> HIDE DEF Plain
  <2> QED BY <1>8, <1>a, <2>1 DEF Body, Mutexes, ByHandle
<1>9. CASE call = "efp_end_send"
  <2>1. Plain(Do("endSend", 0), gHandlesMutex)
    BY DoIsInstr, DoFacts, GuardedFacts
  <2> HIDE DEF Plain
  <2> QED BY <1>9, <1>a, <2>1 DEF Body, Mutexes, ByHandle
<1>10. CASE call = "efp_end_receive"
  <2>1. Plain(Do("endReceive", 0), gHandlesMutex)
    BY DoIsInstr, DoFacts, GuardedFacts
  <2> HIDE DEF Plain
  <2> QED BY <1>10, <1>a, <2>1 DEF Body, Mutexes, ByHandle
<1> QED BY <1>1, <1>2, <1>3, <1>4, <1>5, <1>6, <1>7, <1>8, <1>9, <1>10
        DEF Suits, Calls, Carrying

LEMMA BriefCallback ==
    ASSUME NEW wired \in Seq(Calls), NEW p,
           \A i \in DOMAIN wired : Suits(wired[i], p), NEW l \in Mutexes
    PROVE  Brief(Callback(wired, p), l)
<1> DEFINE C == {s \in Seq(Instrs) : Brief(s, l)}
<1>1. <<>> \in C
  BY BriefEmpty, SmallSeqs
<1>2. ASSUME NEW s \in C, NEW t \in C
      PROVE  s \o t \in C
  <2>1. Brief(s \o t, l)
    BY BriefCat
  <2> QED BY <2>1, BriefFrag
<1>3. ASSUME NEW i \in 1..Len(wired)
      PROVE  Body(wired[i], p) \in C
  <2>1. Suits(wired[i], p)
    BY LenProperties
  <2> QED BY <2>1, BriefBody, BodyTyped
<1> HIDE DEF C
<1>4. Callback(wired, p) \in C
  BY <1>1, <1>2, <1>3, CallbackIn
<1> QED BY <1>4 DEF C

LEMMA FragRound ==
    ASSUME NEW l \in Mutexes
    PROVE  Frag(Round, l, 0, 0, Guarded(l))
  BY BriefRound, BriefFrag

LEMMA FragHanded ==
    ASSUME NEW l \in Mutexes, NEW op \in {"await", "stop"}
    PROVE  Frag(<<Do("lock", mDeliveryMutex), Do(op, 0)>>, l, 0, 0, Guarded(l))
  BY BriefHanded, BriefFrag

LEMMA FragBody ==
    ASSUME NEW call, NEW p, Suits(call, p), NEW l \in Mutexes
    PROVE  Frag(Body(call, p), l, 0, 0, Guarded(l))
  BY BriefBody, BriefFrag

LEMMA FragCallback ==
    ASSUME NEW wired \in Seq(Calls), NEW p,
           \A i \in DOMAIN wired : Suits(wired[i], p), NEW l \in Mutexes
    PROVE  Frag(Callback(wired, p), l, 0, 0, Guarded(l))
  BY BriefCallback, BriefFrag

\* take and stop give mDeliveryMutex back before anything else.
LEMMA HandsOver ==
    ASSUME NEW x \in Instrs, x.op \in {"take", "stop"}, NEW b \in Expand(x)
    PROVE  \E s \in Seq(Instrs) :
             /\ b = <<Do("unlock", mDeliveryMutex)>> \o s
             /\ \A y \in Range(s) : y.op \in {"callback", "notifyAll", "join"}
<1> DEFINE u == Do("unlock", mDeliveryMutex)
<1>1. CASE b = <<u>> \o <<>>
  <2>1. <<>> \in Seq(Instrs)
    BY SmallSeqs
  <2> QED BY <1>1, <2>1, NoneInEmpty
<1>2. ASSUME NEW f \in Frames, b = <<u>> \o <<Do("callback", f)>>
      PROVE  \E s \in Seq(Instrs) :
               /\ b = <<u>> \o s
               /\ \A y \in Range(s) : y.op \in {"callback", "notifyAll", "join"}
  <2> DEFINE y == Do("callback", f)
             S == {y}
             s == <<y>>
  <2>1. y \in Instrs /\ y.op = "callback"
    BY DoIsInstr, DoFacts
  <2>2. s \in Seq(Instrs) /\ s \in Seq(S)
    BY <2>1, SmallSeqs
  <2>3. \A z \in S : z.op = "callback"
    BY <2>1
  <2>4. b = <<u>> \o s
    BY <1>2
  <2> HIDE DEF s, S
  <2> QED BY <2>2, <2>3, <2>4, PlacesOfSeq
<1>3. ASSUME b = <<u>> \o <<Do("notifyAll", 0), Do("join", "worker"),
                            Do("join", "delivery")>>
      PROVE  \E s \in Seq(Instrs) :
               /\ b = <<u>> \o s
               /\ \A y \in Range(s) : y.op \in {"callback", "notifyAll", "join"}
  <2> DEFINE S == {Do("notifyAll", 0), Do("join", "worker"),
                   Do("join", "delivery")}
             s == <<Do("notifyAll", 0), Do("join", "worker"),
                    Do("join", "delivery")>>
  <2>1. \A z \in S : z \in Instrs /\ z.op \in {"notifyAll", "join"}
    BY DoIsInstr, DoFacts
  <2>2. s \in Seq(Instrs) /\ s \in Seq(S)
    BY <2>1, SmallSeqs
  <2>3. b = <<u>> \o s
    BY <1>3
  <2> HIDE DEF s, S
  <2>4. Range(s) \subseteq S
    BY <2>2, PlacesOfSeq
  <2>5. \A y \in Range(s) : y.op \in {"callback", "notifyAll", "join"}
    BY <2>1, <2>4
  <2> QED BY <2>2, <2>3, <2>5
<1>4. \/ b = <<u>> \o <<>>
      \/ \E f \in Frames : b = <<u>> \o <<Do("callback", f)>>
      \/ b = <<u>> \o <<Do("notifyAll", 0), Do("join", "worker"),
                        Do("join", "delivery")>>
  BY DEF Expand
<1> QED BY <1>1, <1>2, <1>3, <1>4

\* What comes of an instruction does to each mutex what it says, and no more.
LEMMA FragExpand ==
    ASSUME wiring \in Wirings, NEW x \in Instrs,
           x.op \notin {"lock", "unlock", "sleep"}, NEW b \in Expand(x),
           NEW l \in Mutexes, NEW a \in Nat, a + Change(x, l) \in Nat,
           x.op \in Guarded(l) => a >= 1
    PROVE  Frag(b, l, a, a + Change(x, l), Guarded(l))
<1>0. b \in Seq(Instrs) /\ \A y \in Range(b) : y.op \in MadeOps(x.op)
  BY ExpandOps
<1>a. ASSUME \A op \in MadeOps(x.op) :
               /\ op \notin {"lock", "unlock", "await", "take", "sleep", "stop"}
               /\ op \in Guarded(l) => x.op \in Guarded(l),
             x.op \notin {"await", "take", "stop"}
      PROVE  Frag(b, l, a, a + Change(x, l), Guarded(l))
  <2>1. Change(x, l) = 0
    BY <1>a, ChangePlain
  <2>2. \A y \in Range(b) : Change(y, l) = 0 /\ (y.op \in Guarded(l) => a >= 1)
    BY <1>0, <1>a, ChangePlain
  <2> QED BY <1>0, <2>1, <2>2, FragStill
<1>b. ASSUME Frag(b, l, 0, 0, Guarded(l)), x.op \notin {"await", "take", "stop"}
      PROVE  Frag(b, l, a, a + Change(x, l), Guarded(l))
  <2>1. Change(x, l) = 0
    BY <1>b, ChangePlain
  <2>2. Frag(b, l, 0 + a, 0 + a, Guarded(l))
    BY <1>b, FragLift
  <2> QED BY <2>1, <2>2
<1>c. /\ \A i \in DOMAIN wiring.onSend : wiring.onSend[i] \in Calls \ {"receiveNack"}
      /\ \A i \in DOMAIN wiring.onReceive :
           wiring.onReceive[i] \in Calls \ {"receiveNack"}
      /\ \A i \in DOMAIN wiring.onNack : wiring.onNack[i] \in Calls \ Carrying
      /\ wiring.onSend \in Seq(Calls) /\ wiring.onReceive \in Seq(Calls)
      /\ wiring.onNack \in Seq(Calls)
  BY WiredCalls
<1>1. CASE x.op = "sendCallback"
  <2>1. b = Callback(wiring.onSend, x.on) /\ x.on \in Packets
    BY <1>1, InstrFacts DEF Expand
  <2>2. \A i \in DOMAIN wiring.onSend : Suits(wiring.onSend[i], x.on)
    BY <1>c, <2>1 DEF Suits
  <2> QED BY <1>1, <1>b, <1>c, <2>1, <2>2, FragCallback
<1>2. CASE x.op \in {"retransmit", "processNacks", "collect"}
  <2>1. MadeOps(x.op) \subseteq {"sendCallback", "retransmit", "nack", "collect",
                                 "deliver"}
    BY <1>2 DEF MadeOps
  <2>2. \A op \in MadeOps(x.op) : op \in Guarded(l) => x.op \in Guarded(l)
    <3>1. /\ x.op = "retransmit" => MadeOps(x.op) = {"sendCallback", "retransmit"}
          /\ x.op = "processNacks" => MadeOps(x.op) = {"nack", "collect"}
          /\ x.op = "collect" => MadeOps(x.op) = {"deliver"}
      BY DEF MadeOps
    <3> QED BY <1>2, <3>1, GuardedFacts
  <2> QED BY <1>2, <1>a, <2>1, <2>2
<1>3. CASE x.op = "nack"
  <2> DEFINE c == Callback(wiring.onNack, x.on)
             y == Do("sent", x.on)
  <2>1. (b = <<>> \/ b = c \o <<y>>) /\ x.on \in Frames
    BY <1>3, InstrFacts DEF Expand
  <2>2. \A i \in DOMAIN wiring.onNack : Suits(wiring.onNack[i], x.on)
    BY <1>c, <2>1 DEF Suits
  <2>3. Frag(c, l, 0, 0, Guarded(l))
    BY <1>c, <2>2, FragCallback
  <2>4. Frag(c, l, 0 + a, 0 + a, Guarded(l))
    <3> HIDE DEF c
    <3> QED BY <2>3, FragLift
  <2>5. y \in Instrs /\ y.op = "sent"
    BY <2>1, DoIsInstr, DoFacts
  <2>6. Change(y, l) = 0 /\ Change(x, l) = 0
    BY <1>3, <2>5, ChangePlain
  <2>7. y.op \in Guarded(l) => a >= 1
    BY <1>3, <2>5, GuardedFacts
  <2> HIDE DEF c, y
  <2>8. Frag(<<y>>, l, a, a + Change(y, l), Guarded(l))
    BY <2>5, <2>6, <2>7, FragOne
  <2>9. Frag(c \o <<y>>, l, a, a, Guarded(l))
    BY <2>4, <2>6, <2>8, FragCat
  <2>10. Frag(<<>>, l, a, a, Guarded(l))
    BY FragEmpty
  <2>11. a + Change(x, l) = a
    BY <2>6
  <2> QED BY <2>1, <2>9, <2>10, <2>11
<1>4. CASE x.op = "deliver"
  <2>0. x.on \in Frames /\ (x.op \in Guarded(l) <=> l = mNetMutex)
    BY <1>4, InstrFacts, GuardedFacts
       DEF mNetMutex, mDeliveryMutex, mMutex, gHandlesMutex
  <2>1. CASE ~Threaded
    <3>1. MadeOps(x.op) = {"callback", "erase"}
      BY <1>4, <2>1 DEF MadeOps
    <3>2. \A op \in MadeOps(x.op) : op \in Guarded(l) => x.op \in Guarded(l)
      BY <1>4, <3>1, GuardedFacts
    <3> QED BY <1>4, <1>a, <3>1, <3>2
  <2>2. CASE Threaded
    <3> DEFINE p == Do("push", x.on)
               e == Do("erase", x.on)
               u == Under(mDeliveryMutex, <<p>>)
    <3>1. b = u \o <<e>>
      BY <1>4, <2>2 DEF Expand
    <3>2. /\ p \in Instrs /\ p.op = "push" /\ e \in Instrs /\ e.op = "erase"
          /\ mDeliveryMutex \in Mutexes
      BY <2>0, DoIsInstr, DoFacts DEF Mutexes
    <3>3. /\ Do("lock", mDeliveryMutex) \in Instrs
          /\ Do("unlock", mDeliveryMutex) \in Instrs
      BY <3>2, DoIsInstr
    <3>4. CASE l = mDeliveryMutex
      <4>1. Frag(u, l, 0, 0, Guarded(l))
        <5>1. p.op \in Guarded(l) <=> mDeliveryMutex = l
          BY <3>2, <3>4, GuardedFacts
        <5> HIDE DEF p
        <5>2. Brief(u, l)
          BY <3>2, <5>1, BriefUnder
        <5> QED BY <5>2, BriefFrag
      <4>2. Frag(u, l, 0 + a, 0 + a, Guarded(l))
        <5> HIDE DEF u
        <5> QED BY <4>1, FragLift
      <4>3. e.op \notin Guarded(l) /\ Change(e, l) = 0
        BY <3>2, <3>4, GuardedFacts, ChangePlain
      <4>4. Frag(<<e>>, l, a, a + Change(e, l), Guarded(l))
        <5> HIDE DEF e
        <5> QED BY <3>2, <4>3, FragOne
      <4>5. Change(x, l) = 0
        BY <1>4, ChangePlain
      <4> HIDE DEF u, e
      <4> QED BY <3>1, <4>2, <4>3, <4>4, <4>5, FragCat
    <3>5. CASE l # mDeliveryMutex
      <4>1. \A y \in Range(b) : Change(y, l) = 0
        <5>1. \A y \in Range(b) : y \in Makes(x)
          <6>1. b \in Seq(Makes(x))
            BY ExpandMakes
          <6> QED BY <6>1, PlacesOfSeq
        <5>2. Makes(x) = {Do("lock", mDeliveryMutex), p,
                          Do("unlock", mDeliveryMutex), e}
          BY <1>4, <2>2 DEF Makes
        <5>3. Change(p, l) = 0 /\ Change(e, l) = 0
          BY <3>2, ChangePlain
        <5>4. /\ Change(Do("lock", mDeliveryMutex), l) = 0
              /\ Change(Do("unlock", mDeliveryMutex), l) = 0
          BY <3>5, ChangeLock
        <5> QED BY <5>1, <5>2, <5>3, <5>4
      <4>2. \A op \in MadeOps(x.op) : op \in Guarded(l) => x.op \in Guarded(l)
        <5>1. MadeOps(x.op) = {"lock", "push", "unlock", "erase"}
          BY <1>4, <2>2 DEF MadeOps
        <5> QED BY <1>4, <3>5, <5>1, GuardedFacts
      <4>3. Change(x, l) = 0
        BY <1>4, ChangePlain
      <4> QED BY <1>0, <4>1, <4>2, <4>3, FragStill
    <3> QED BY <3>4, <3>5
  <2> QED BY <2>1, <2>2
<1>5. CASE x.op = "callback"
  <2>1. b = Callback(wiring.onReceive, Ended(x.on)) /\ Ended(x.on) \in Packets
    BY <1>5, InstrFacts, EndedIsPacket DEF Expand
  <2>2. \A i \in DOMAIN wiring.onReceive : Suits(wiring.onReceive[i], Ended(x.on))
    BY <1>c, <2>1 DEF Suits
  <2> QED BY <1>5, <1>b, <1>c, <2>1, <2>2, FragCallback
<1>6. CASE x.op = "await"
  <2>1. PICK op \in {"take", "sleep"} : b = <<Do(op, 0)>>
    BY <1>6 DEF Expand
  <2> DEFINE y == Do(op, 0)
  <2>2. y \in Instrs /\ y.op = op
    BY DoIsInstr, DoFacts
  <2>3. Change(y, l) = Change(x, l)
    BY <1>6, <2>2, ChangeHanded
  <2>4. y.op \in Guarded(l) => a >= 1
    BY <1>6, <2>2, GuardedFacts
  <2>5. b = <<y>>
    BY <2>1
  <2> HIDE DEF y
  <2>6. Frag(<<y>>, l, a, a + Change(y, l), Guarded(l))
    BY <2>2, <2>3, <2>4, FragOne
  <2> QED BY <2>3, <2>5, <2>6
<1>7. CASE x.op = "wake"
  <2>1. b = Awaiting
    BY <1>7 DEF Expand
  <2>2. Frag(Awaiting, l, 0, 0, Guarded(l))
    BY FragHanded DEF Awaiting
  <2> QED BY <1>7, <1>b, <2>1, <2>2
<1>8. CASE x.op \in {"take", "stop"}
  <2> DEFINE u == Do("unlock", mDeliveryMutex)
             c == a + Change(x, l)
  <2>1. \E s \in Seq(Instrs) :
          /\ b = <<u>> \o s
          /\ \A y \in Range(s) : y.op \in {"callback", "notifyAll", "join"}
    BY <1>8, HandsOver
  <2>2. PICK s \in Seq(Instrs) :
          /\ b = <<u>> \o s
          /\ \A y \in Range(s) : y.op \in {"callback", "notifyAll", "join"}
    BY <2>1
  <2>3. u \in Instrs /\ u.op \notin Guarded(l)
    BY DoIsInstr, DoFacts, GuardedFacts DEF Mutexes
  <2>4. Change(u, l) = Change(x, l)
    BY <1>8, ChangeLock, ChangeHanded
  <2> HIDE DEF u
  <2>5. Frag(<<u>>, l, a, c, Guarded(l))
    BY <2>3, <2>4, FragOne
  <2>6. \A y \in Range(s) : Change(y, l) = 0 /\ y.op \notin Guarded(l)
    <3>1. \A y : y.op \in {"callback", "notifyAll", "join"} => Change(y, l) = 0
      BY ONLY ChangePlain
    <3>2. \A o \in {"callback", "notifyAll", "join"} : o \notin Guarded(l)
      BY GuardedFacts DEF Mutexes
    <3>3. ASSUME NEW y \in Range(s)
          PROVE  Change(y, l) = 0 /\ y.op \notin Guarded(l)
      <4>1. y.op \in {"callback", "notifyAll", "join"}
        BY ONLY <2>2
      <4>2. Change(y, l) = 0
        BY ONLY <3>1, <4>1
      <4>3. y.op \notin Guarded(l)
        BY ONLY <3>2, <4>1
      <4> QED BY ONLY <4>2, <4>3
    <3> QED BY ONLY <3>3
  <2>7. Frag(s, l, c, c, Guarded(l))
    BY <2>6, FragStill
  <2>8. Frag(<<u>> \o s, l, a, c, Guarded(l))
    BY ONLY <2>5, <2>7, FragCat
  <2> QED BY <2>2, <2>8
<1>9. CASE x.op \in {"findSender", "findReceiver"}
  <2>0. x.on \in Packets
    BY <1>9, InstrFacts
  <2>1. Suits("send", x.on) /\ Suits("receive", x.on)
    BY <2>0 DEF Suits, Calls, Carrying
  <2>2. b = <<>> \/ b = Body("send", x.on) \/ b = Body("receive", x.on)
    BY <1>9 DEF Expand
  <2>3. Frag(b, l, 0, 0, Guarded(l))
    BY <2>1, <2>2, FragBody, FragEmpty
  <2> QED BY <1>9, <1>b, <2>3
<1>10. CASE x.op = "endReceive"
  <2> DEFINE y == Do("delete", "receiver")
  <2>1. b = <<>> \/ b = StopBody \o StopBody \o <<y>>
    BY <1>10 DEF Expand
  <2>2. Frag(StopBody, l, 0, 0, Guarded(l))
    BY FragHanded DEF StopBody
  <2>3. Frag(StopBody, l, 0 + a, 0 + a, Guarded(l))
    BY <2>2, FragLift
  <2>4. y \in Instrs /\ y.op = "delete"
    BY DoIsInstr, DoFacts
  <2>5. Change(y, l) = 0 /\ Change(x, l) = 0
    BY <1>10, <2>4, ChangePlain
  <2>6. y.op \in Guarded(l) => a >= 1
    BY <1>10, <2>4, GuardedFacts
  <2> HIDE DEF y
  <2>7. Frag(<<y>>, l, a, a + Change(y, l), Guarded(l))
    BY <2>4, <2>5, <2>6, FragOne
  <2>8. Frag(StopBody \o StopBody, l, a, a, Guarded(l))
    BY <2>3, FragCat
  <2>9. Frag((StopBody \o StopBody) \o <<y>>, l, a, a, Guarded(l))
    BY <2>5, <2>7, <2>8, FragCat
  <2>10. Frag(<<>>, l, a, a, Guarded(l))
    BY FragEmpty
  <2>11. a + Change(x, l) = a
    BY <2>5
  <2> QED BY <2>1, <2>9, <2>10, <2>11
<1>11. CASE x.op = "endSend"
  <2>1. MadeOps(x.op) = {"delete"}
    BY <1>11 DEF MadeOps
  <2>2. \A op \in MadeOps(x.op) : op \in Guarded(l) => x.op \in Guarded(l)
    BY <1>11, <2>1, GuardedFacts
  <2> QED BY <1>11, <1>a, <2>1, <2>2
<1>12. CASE x.op \in {"fragment", "request", "sent", "push", "erase", "join",
                      "delete", "notifyAll"}
  <2>1. b = <<>>
    BY <1>12 DEF Expand
  <2>2. Frag(b, l, 0, 0, Guarded(l))
    BY <2>1, FragEmpty
  <2> QED BY <1>12, <1>b, <2>2
<1> QED BY <1>1, <1>2, <1>3, <1>4, <1>5, <1>6, <1>7, <1>8, <1>9, <1>10,
           <1>11, <1>12, InstrFacts

LEMMA FragNone ==
    ASSUME NEW l, NEW a, NEW b, NEW K, Frag(<<>>, l, a, b, K)
    PROVE  a = b
  BY WalkNone DEF Frag

\* How often the thread holds l.
Held(m, t, l) == IF m[l].owner = t THEN m[l].depth ELSE 0

MutexInv ==
    \A l \in Mutexes :
      /\ mutex[l].depth \in Nat
      /\ mutex[l].depth = 0 <=> mutex[l].owner = Nobody
      /\ l \notin Recursive => mutex[l].depth <= 1

\* Each thread will give back what it holds, and does what needs a mutex with
\* that mutex held.
LocksKept ==
    \A t \in Threads : \A l \in Mutexes :
      Frag(todo[t], l, Held(mutex, t, l), 0, Guarded(l))

LockInv == MutexInv /\ LocksKept

LEMMA NobodyApart == Nobody \notin Threads
  BY ThreadsAssumption DEF Threads, Nobody

LEMMA FragGoes ==
    ASSUME Typed, LocksKept, NEW t \in Threads, NEW l \in Mutexes,
           todo[t] # <<>>, NEW b \in Seq(Instrs), Goes(t, b), NEW c,
           Frag(b, l, c, Held(mutex, t, l) + Change(todo[t][1], l), Guarded(l))
    PROVE  Frag(todo'[t], l, c, 0, Guarded(l))
<1> DEFINE s == todo[t]
           a == Held(mutex, t, l)
           K == Guarded(l)
<1>1. Frag(s, l, a, 0, K) /\ s # <<>>
  BY DEF LocksKept
<1>2. todo'[t] = b \o Tail(s)
  BY GoesFacts DEF Typed
<1>3. Frag(b, l, c, a + Change(s[1], l), K)
  OBVIOUS
<1> HIDE DEF s, a, K
<1>4. Frag(Tail(s), l, a + Change(s[1], l), 0, K)
  BY <1>1, FragTail
<1>5. Frag(b \o Tail(s), l, c, 0, K)
  BY <1>3, <1>4, FragCat
<1> QED BY <1>2, <1>5 DEF K

\* The first instruction fits what the thread holds.
LEMMA FirstFits ==
    ASSUME LocksKept, NEW t \in Threads, NEW l \in Mutexes, todo[t] # <<>>
    PROVE  /\ Held(mutex, t, l) \in Nat
           /\ Held(mutex, t, l) + Change(todo[t][1], l) \in Nat
           /\ todo[t][1].op \in Guarded(l) => Held(mutex, t, l) >= 1
<1> DEFINE s == todo[t]
           a == Held(mutex, t, l)
           K == Guarded(l)
<1>1. Frag(s, l, a, 0, K) /\ s # <<>>
  BY DEF LocksKept
<1> HIDE DEF s, a, K
<1>2. a \in Nat /\ a + Change(s[1], l) \in Nat /\ (s[1].op \in K => a >= 1)
  BY <1>1, FragTail, FragEnds
<1> QED BY <1>2 DEF s, a, K

\* A step that takes and gives back nothing.
LEMMA LocksKeptByStep ==
    ASSUME Typed, LockInv, NEW t \in Threads, mutex' = mutex,
           todo[t] # <<>>, todo[t][1] \in Instrs,
           todo[t][1].op \notin {"lock", "unlock", "sleep"},
           NEW b \in Expand(todo[t][1]), Goes(t, b)
    PROVE  LockInv'
<1>1. b \in Seq(Instrs) /\ wiring \in Wirings
  BY ExpandTyped DEF Typed, TodoOK
<1>2. \A u \in Threads \ {t} : todo'[u] = todo[u]
  BY <1>1, GoesFacts DEF Typed
<1>3. ASSUME NEW l \in Mutexes
      PROVE  Frag(todo'[t], l, Held(mutex, t, l), 0, Guarded(l))
  <2> DEFINE a == Held(mutex, t, l)
  <2>1. /\ a \in Nat /\ a + Change(todo[t][1], l) \in Nat
        /\ todo[t][1].op \in Guarded(l) => a >= 1
    BY FirstFits DEF LockInv
  <2> HIDE DEF a
  <2>2. Frag(b, l, a, a + Change(todo[t][1], l), Guarded(l))
    BY <1>1, <2>1, FragExpand
  <2> QED BY <1>1, <2>2, FragGoes DEF a, LockInv
<1>4. MutexInv'
  BY DEF LockInv, MutexInv
<1>5. LocksKept'
  <2> SUFFICES ASSUME NEW u \in Threads, NEW l \in Mutexes
               PROVE  Frag(todo'[u], l, Held(mutex', u, l), 0, Guarded(l))
    BY DEF LocksKept
  <2>1. Held(mutex', u, l) = Held(mutex, u, l)
    OBVIOUS
  <2>2. Frag(todo[u], l, Held(mutex, u, l), 0, Guarded(l))
    BY DEF LockInv, LocksKept
  <2> QED BY <1>2, <1>3, <2>1, <2>2
<1> QED BY <1>4, <1>5 DEF LockInv

LEMMA LocksKeptByAcquire ==
    ASSUME Typed, LockInv, NEW t \in Threads, Acquire(t)
    PROVE  LockInv'
<1> DEFINE m == Arg(t)
           x == todo[t][1]
<1>1. /\ At(t, "lock") /\ Free(t, m) /\ Then(t, <<>>)
      /\ mutex' = [mutex EXCEPT ![m] =
                     [owner |-> t, depth |-> mutex[m].depth + 1]]
  BY DEF Acquire
<1>2. /\ todo[t] # <<>> /\ x \in Instrs /\ x.op = "lock" /\ m = x.on
      /\ x = Do("lock", m)
  BY <1>1, AtFacts DEF Typed
<1>3. m \in Mutexes /\ mutex \in [Mutexes -> [owner : Threads \cup {Nobody}, depth : Int]]
  BY <1>2, InstrFacts DEF Typed, MutexOK
<1> HIDE DEF m, x
<1>4. /\ mutex'[m].owner = t /\ mutex'[m].depth = mutex[m].depth + 1
      /\ \A l \in Mutexes \ {m} : mutex'[l] = mutex[l]
  BY <1>1, <1>3
<1>5. mutex[m].depth \in Nat /\ Held(mutex, t, m) = mutex[m].depth
      /\ (m \notin Recursive => mutex[m].depth = 0)
      /\ \A u \in Threads \ {t} : Held(mutex, u, m) = 0
  BY <1>1, <1>3, NobodyApart DEF LockInv, MutexInv, Free, Held
<1>6. MutexInv'
  <2> SUFFICES ASSUME NEW l \in Mutexes
               PROVE  /\ mutex'[l].depth \in Nat
                      /\ mutex'[l].depth = 0 <=> mutex'[l].owner = Nobody
                      /\ l \notin Recursive => mutex'[l].depth <= 1
    BY DEF MutexInv
  <2>1. CASE l = m
    BY <1>4, <1>5, <2>1, NobodyApart
  <2>2. CASE l # m
    BY <1>4, <2>2 DEF LockInv, MutexInv
  <2> QED BY <2>1, <2>2
<1>7. Goes(t, <<>>) /\ <<>> \in Seq(Instrs)
  BY <1>1, ThenGoes, SmallSeqs
<1>8. \A u \in Threads \ {t} : todo'[u] = todo[u]
  BY <1>2, <1>7, GoesFacts DEF Typed
<1>9. ASSUME NEW u \in Threads, NEW l \in Mutexes
      PROVE  Frag(todo'[u], l, Held(mutex', u, l), 0, Guarded(l))
  <2>0. Frag(todo[u], l, Held(mutex, u, l), 0, Guarded(l))
    BY DEF LockInv, LocksKept
  <2>1. CASE u # t
    <3>1. Held(mutex', u, l) = Held(mutex, u, l)
      <4>1. CASE l = m
        BY <1>4, <1>5, <2>1, <4>1 DEF Held
      <4>2. CASE l # m
        BY <1>4, <4>2 DEF Held
      <4> QED BY <4>1, <4>2
    <3> QED BY <1>8, <2>0, <2>1, <3>1
  <2>2. CASE u = t
    <3>1. Held(mutex', t, l) = Held(mutex, t, l) + Change(x, l)
          /\ Held(mutex', t, l) \in Nat
      <4>0. Held(mutex, t, l) \in Nat
        BY <1>2, FirstFits DEF LockInv
      <4>1. CASE l = m
        BY <1>2, <1>4, <1>5, <4>1, ChangeLock DEF Held
      <4>2. CASE l # m
        <5>1. Change(x, l) = 0
          BY <1>2, <4>2, ChangeLock
        <5>2. Held(mutex', t, l) = Held(mutex, t, l)
          BY <1>4, <4>2 DEF Held
        <5> QED BY <4>0, <5>1, <5>2
      <4> QED BY <4>1, <4>2
    <3> DEFINE c == Held(mutex', t, l)
    <3>2. c = Held(mutex, t, l) + Change(todo[t][1], l) /\ c \in Nat
      BY <3>1 DEF x
    <3> HIDE DEF c
    <3>3. Frag(<<>>, l, c, c, Guarded(l))
      BY <3>2, FragEmpty
    <3>4. Frag(<<>>, l, c, Held(mutex, t, l) + Change(todo[t][1], l), Guarded(l))
      BY <3>2, <3>3
    <3>5. Frag(todo'[t], l, c, 0, Guarded(l))
      BY <1>2, <1>7, <3>4, FragGoes DEF LockInv
    <3> QED BY <2>2, <3>5 DEF c
  <2> QED BY <2>1, <2>2
<1>10. LocksKept'
  BY <1>9 DEF LocksKept
<1> QED BY <1>6, <1>10 DEF LockInv

\* What giving m back does.
LEMMA ReleasedFacts ==
    ASSUME Typed, MutexInv, NEW t \in Threads, NEW m \in Mutexes,
           Held(mutex, t, m) >= 1, mutex' = Released(m)
    PROVE  /\ MutexInv'
           /\ Held(mutex', t, m) = Held(mutex, t, m) - 1
           /\ Held(mutex, t, m) \in Nat
           /\ \A u \in Threads \ {t} : Held(mutex', u, m) = Held(mutex, u, m)
           /\ \A l \in Mutexes \ {m} : mutex'[l] = mutex[l]
<1>1. mutex \in [Mutexes -> [owner : Threads \cup {Nobody}, depth : Int]]
  BY DEF Typed, MutexOK
<1>2. mutex[m].owner = t /\ mutex[m].depth \in Nat /\ mutex[m].depth >= 1
  BY DEF Held, MutexInv
<1>3. /\ mutex'[m].depth = mutex[m].depth - 1
      /\ mutex'[m].owner = IF mutex[m].depth - 1 = 0 THEN Nobody
                           ELSE mutex[m].owner
      /\ \A l \in Mutexes \ {m} : mutex'[l] = mutex[l]
  BY <1>1 DEF Released
<1>4. MutexInv'
  <2> SUFFICES ASSUME NEW l \in Mutexes
               PROVE  /\ mutex'[l].depth \in Nat
                      /\ mutex'[l].depth = 0 <=> mutex'[l].owner = Nobody
                      /\ l \notin Recursive => mutex'[l].depth <= 1
    BY DEF MutexInv
  <2>0. m \notin Recursive => mutex[m].depth <= 1
    BY DEF MutexInv
  <2>1. CASE l = m
    BY <1>2, <1>3, <2>0, <2>1, NobodyApart
  <2>2. CASE l # m
    BY <1>3, <2>2 DEF MutexInv
  <2> QED BY <2>1, <2>2
<1>5. Held(mutex', t, m) = Held(mutex, t, m) - 1 /\ Held(mutex, t, m) \in Nat
  BY <1>2, <1>3, NobodyApart DEF Held
<1>6. \A u \in Threads \ {t} : Held(mutex', u, m) = Held(mutex, u, m)
  BY <1>2, <1>3, NobodyApart DEF Held
<1> QED BY <1>3, <1>4, <1>5, <1>6

\* A step that gives m back and goes on with b, which leaves every mutex alone.
LEMMA LocksKeptByRelease ==
    ASSUME Typed, LockInv, NEW t \in Threads, NEW m \in Mutexes,
           mutex' = Released(m), todo[t] # <<>>,
           \A l \in Mutexes :
             Change(todo[t][1], l) = IF m = l THEN -1 ELSE 0,
           NEW b \in Seq(Instrs), Goes(t, b),
           \A l \in Mutexes : \A c \in Nat : Frag(b, l, c, c, Guarded(l))
    PROVE  LockInv'
<1>1. \A l \in Mutexes :
        /\ Held(mutex, t, l) \in Nat
        /\ Held(mutex, t, l) + Change(todo[t][1], l) \in Nat
  BY FirstFits DEF LockInv
<1>2. Held(mutex, t, m) >= 1
  BY <1>1
<1>3. /\ MutexInv'
      /\ Held(mutex', t, m) = Held(mutex, t, m) - 1
      /\ \A u \in Threads \ {t} : Held(mutex', u, m) = Held(mutex, u, m)
      /\ \A l \in Mutexes \ {m} : mutex'[l] = mutex[l]
  BY <1>2, ReleasedFacts DEF LockInv
<1>4. \A u \in Threads \ {t} : todo'[u] = todo[u]
  BY GoesFacts DEF Typed
<1>5. ASSUME NEW u \in Threads, NEW l \in Mutexes
      PROVE  Frag(todo'[u], l, Held(mutex', u, l), 0, Guarded(l))
  <2>0. Frag(todo[u], l, Held(mutex, u, l), 0, Guarded(l))
    BY DEF LockInv, LocksKept
  <2>1. CASE u # t
    <3>1. Held(mutex', u, l) = Held(mutex, u, l)
      <4>1. CASE l = m
        BY <1>3, <2>1, <4>1
      <4>2. CASE l # m
        BY <1>3, <4>2 DEF Held
      <4> QED BY <4>1, <4>2
    <3> QED BY <1>4, <2>0, <2>1, <3>1
  <2>2. CASE u = t
    <3> DEFINE c == Held(mutex', t, l)
    <3>1. c = Held(mutex, t, l) + Change(todo[t][1], l)
      <4>1. CASE l = m
        BY <1>1, <1>3, <4>1
      <4>2. CASE l # m
        <5>1. Held(mutex', t, l) = Held(mutex, t, l)
          BY <1>3, <4>2 DEF Held
        <5> QED BY <1>1, <4>2, <5>1
      <4> QED BY <4>1, <4>2
    <3>2. c \in Nat
      BY <1>1, <3>1
    <3> HIDE DEF c
    <3>3. Frag(b, l, c, Held(mutex, t, l) + Change(todo[t][1], l), Guarded(l))
      BY <3>1, <3>2
    <3>4. Frag(todo'[t], l, c, 0, Guarded(l))
      BY <3>3, FragGoes DEF LockInv
    <3> QED BY <2>2, <3>4 DEF c
  <2> QED BY <2>1, <2>2
<1> QED BY <1>3, <1>5 DEF LockInv, LocksKept

LEMMA LocksKeptByUnlock ==
    ASSUME Typed, LockInv, NEW t \in Threads, Unlock(t)
    PROVE  LockInv'
<1> DEFINE m == Arg(t)
<1>1. At(t, "unlock") /\ mutex' = Released(m) /\ Then(t, <<>>)
  BY DEF Unlock
<1>2. /\ todo[t] # <<>> /\ todo[t][1] \in Instrs /\ todo[t][1].op = "unlock"
      /\ m = todo[t][1].on /\ todo[t][1] = Do("unlock", m)
  BY <1>1, AtFacts DEF Typed
<1>3. m \in Mutexes
  BY <1>2, InstrFacts
<1> HIDE DEF m
<1>4. \A l \in Mutexes : Change(todo[t][1], l) = IF m = l THEN -1 ELSE 0
  BY <1>2, ChangeLock
<1>5. Goes(t, <<>>) /\ <<>> \in Seq(Instrs)
  BY <1>1, ThenGoes, SmallSeqs
<1>6. \A l \in Mutexes : \A c \in Nat : Frag(<<>>, l, c, c, Guarded(l))
  BY FragEmpty
<1> QED BY <1>1, <1>2, <1>3, <1>4, <1>5, <1>6, LocksKeptByRelease

LEMMA LocksKeptBySleep ==
    ASSUME Typed, LockInv, NEW t \in Threads, Sleep(t)
    PROVE  LockInv'
<1> DEFINE y == Do("wake", 0)
<1>1. At(t, "sleep") /\ mutex' = Released(mDeliveryMutex) /\ Then(t, <<y>>)
  BY DEF Sleep
<1>2. todo[t] # <<>> /\ todo[t][1].op = "sleep"
  BY <1>1, AtFacts DEF Typed
<1>3. mDeliveryMutex \in Mutexes
  BY DEF Mutexes
<1>4. \A l \in Mutexes :
        Change(todo[t][1], l) = IF mDeliveryMutex = l THEN -1 ELSE 0
  BY <1>2, ChangeHanded
<1>5. y \in Instrs /\ y.op = "wake"
  BY DoIsInstr, DoFacts
<1> HIDE DEF y
<1>6. Goes(t, <<y>>) /\ <<y>> \in Seq(Instrs)
  BY <1>1, <1>5, ThenGoes, SmallSeqs
<1>7. ASSUME NEW l \in Mutexes, NEW c \in Nat
      PROVE  Frag(<<y>>, l, c, c, Guarded(l))
  <2>1. Change(y, l) = 0 /\ y.op \notin Guarded(l)
    BY <1>5, ChangePlain, GuardedFacts
  <2>2. Frag(<<y>>, l, c, c + Change(y, l), Guarded(l))
    BY <1>5, <2>1, FragOne
  <2> QED BY <2>1, <2>2
<1> QED BY <1>1, <1>2, <1>3, <1>4, <1>6, <1>7, LocksKeptByRelease

\* A thread that starts anew holds nothing.
LEMMA LocksKeptByStart ==
    ASSUME Typed, LockInv, NEW t \in Threads, NEW b \in Seq(Instrs),
           Starts(t, b), mutex' = mutex,
           \A l \in Mutexes : Frag(b, l, 0, 0, Guarded(l))
    PROVE  LockInv'
<1>1. todo[t] = <<>> /\ todo'[t] = b /\ \A u \in Threads \ {t} : todo'[u] = todo[u]
  BY StartsGives DEF StartsFacts, Typed, Starts
<1>2. ASSUME NEW u \in Threads, NEW l \in Mutexes
      PROVE  Frag(todo'[u], l, Held(mutex', u, l), 0, Guarded(l))
  <2>1. Frag(todo[u], l, Held(mutex, u, l), 0, Guarded(l))
    BY DEF LockInv, LocksKept
  <2>2. CASE u = t
    <3>1. Frag(<<>>, l, Held(mutex, u, l), 0, Guarded(l))
      BY <1>1, <2>1, <2>2
    <3>2. Held(mutex, u, l) = 0
      BY <3>1, FragNone
    <3> QED BY <1>1, <2>2, <3>2
  <2>3. CASE u # t
    BY <1>1, <2>1, <2>3
  <2> QED BY <2>2, <2>3
<1>3. MutexInv'
  BY DEF LockInv, MutexInv
<1> QED BY <1>2, <1>3 DEF LockInv, LocksKept

LEMMA LockInvariance ==
    ASSUME Typed, LockInv, [Next]_vars
    PROVE  LockInv'
<1>1. ASSUME NEW t \in Threads, Acquire(t)
      PROVE  LockInv'
  BY <1>1, LocksKeptByAcquire
<1>2. ASSUME NEW t \in Threads, Step(t), ~Unlock(t), ~Sleep(t)
      PROVE  LockInv'
  <2>1. mutex' = mutex
    BY <1>2 DEF Step, SendCallback, Request, Retransmit,
         Fragment, ProcessNacks, Nack, NackSent, Collect, Deliver, Push,
         Erase, ReceiveCallback, Await, Wake, Take, Stop, NotifyAll,
         Join, Find, Delete
  <2> DEFINE Does(op) == At(t, op) /\ op \notin {"lock", "unlock", "sleep"}
  <2>2. \E op : Does(op)
    <3>1. CASE SendCallback(t) \/ Request(t)
      BY <3>1 DEF SendCallback, Request
    <3>2. CASE Retransmit(t) \/ Fragment(t)
      BY <3>2 DEF Retransmit, Fragment
    <3>3. CASE ProcessNacks(t) \/ Nack(t)
      BY <3>3 DEF ProcessNacks, Nack
    <3>4. CASE NackSent(t) \/ Collect(t)
      BY <3>4 DEF NackSent, Collect
    <3>5. CASE Deliver(t)
      BY <3>5 DEF Deliver
    <3>6. CASE Push(t) \/ Erase(t)
      BY <3>6 DEF Push, Erase
    <3>7. CASE ReceiveCallback(t) \/ Await(t)
      BY <3>7 DEF ReceiveCallback, Await
    <3>8. CASE Wake(t)
      BY <3>8 DEF Wake
    <3>9. CASE Take(t)
      BY <3>9 DEF Take
    <3>10. CASE Stop(t) \/ NotifyAll(t)
      BY <3>10 DEF Stop, NotifyAll
    <3>11. CASE Join(t) \/ Delete(t)
      BY <3>11 DEF Join, Delete
    <3>12. CASE Find(t)
      BY <3>12 DEF Find
    <3> QED BY <1>2, <3>1, <3>2, <3>3, <3>4, <3>5, <3>6,
               <3>7, <3>8, <3>9, <3>10, <3>11, <3>12 DEF Step
  <2>3. todo[t][1].op \notin {"lock", "unlock", "sleep"}
    BY <2>2, AtFacts DEF Typed
  <2>4. PICK b \in Expand(todo[t][1]) :
          todo[t] # <<>> /\ todo[t][1] \in Instrs /\ Goes(t, b)
    BY <1>2, StepExpands
  <2> QED BY <2>1, <2>3, <2>4, LocksKeptByStep
<1>3. ASSUME NEW t \in Threads, Unlock(t) \/ Sleep(t)
      PROVE  LockInv'
  BY <1>3, LocksKeptByUnlock, LocksKeptBySleep
<1>4. ASSUME NEW t \in Apps, Call(t)
      PROVE  LockInv'
  <2>1. PICK call, p : Suits(call, p) /\ Starts(t, Body(call, p))
    BY <1>4, CallBegins DEF Begins
  <2>2. mutex' = mutex /\ t \in Threads
    BY <1>4 DEF Call, Threads
  <2>3. Body(call, p) \in Seq(Instrs)
    BY <2>1, BodyTyped
  <2>4. \A l \in Mutexes : Frag(Body(call, p), l, 0, 0, Guarded(l))
    BY <2>1, FragBody
  <2> QED BY <2>1, <2>2, <2>3, <2>4, LocksKeptByStart
<1>5. todo' = todo /\ mutex' = mutex => LockInv'
  BY DEF LockInv, LocksKept, MutexInv
<1>6. CASE WorkerLoop \/ DeliveryLoop
  <2>1. \/ Starts("worker", Round) \/ Starts("delivery", Awaiting)
        \/ todo' = todo
    BY <1>6 DEF WorkerLoop, DeliveryLoop, Starts
  <2>2. mutex' = mutex
    BY <1>6 DEF WorkerLoop, DeliveryLoop
  <2>3. \A l \in Mutexes : Frag(Awaiting, l, 0, 0, Guarded(l))
    BY FragHanded DEF Awaiting
  <2>4. \A l \in Mutexes : Frag(Round, l, 0, 0, Guarded(l))
    BY FragRound
  <2>5. "worker" \in Threads /\ "delivery" \in Threads
    BY DEF Threads
  <2> QED BY <1>5, <2>1, <2>2, <2>3, <2>4, <2>5, LoopsTyped, LocksKeptByStart
<1>7. CASE WakeSpuriously \/ UNCHANGED vars
  BY <1>5, <1>7 DEF WakeSpuriously, vars
<1> QED BY <1>1, <1>2, <1>3, <1>4, <1>6, <1>7 DEF Next

LEMMA LockInvInitially == Init => LockInv
<1> SUFFICES ASSUME Init PROVE LockInv
  OBVIOUS
<1>1. \A l \in Mutexes : mutex[l].owner = Nobody /\ mutex[l].depth = 0
  BY DEF Init
<1>2. \A t \in Threads : todo[t] = <<>>
  BY DEF Init
<1>3. MutexInv
  BY <1>1 DEF MutexInv
<1>4. ASSUME NEW t \in Threads, NEW l \in Mutexes
      PROVE  Frag(todo[t], l, Held(mutex, t, l), 0, Guarded(l))
  <2>1. Held(mutex, t, l) = 0
    BY <1>1 DEF Held
  <2> QED BY <1>2, <2>1, FragEmpty
<1> QED BY <1>3, <1>4 DEF LockInv, LocksKept

\* A mutex is owned exactly while it is held, and one that is not recursive is
\* never taken twice: every lock_guard, unique_lock and wait gives back what it
\* took, whatever the callbacks call.
THEOREM TypeCorrect == Spec => []TypeOK
<1>1. Typed /\ LockInv /\ [Next]_vars => LockInv'
  BY LockInvariance
<1>2. Typed /\ LockInv => TypeOK
  <2> SUFFICES ASSUME Typed, LockInv PROVE TypeOK
    OBVIOUS
  <2>1. wiring \in Wirings /\ DOMAIN todo = Threads
    BY DEF Typed, TodoOK
  <2>2. \A l \in Mutexes : mutex[l].owner \in Threads \cup {Nobody}
    BY DEF Typed, MutexOK
  <2> QED BY <2>1, <2>2 DEF Typed, RestOK, LockInv, MutexInv, TypeOK
<1> QED BY <1>1, <1>2, LockInvInitially, TypedInvariance, PTL DEF Spec

\* The owner of the mutex does it, if an operation needs one.
UnderItsMutex ==
    \A t \in Threads : \A l \in Mutexes :
      todo[t] # <<>> /\ todo[t][1].op \in Guarded(l) => mutex[l].owner = t

\* No bucket is touched without mNetMutex, nothing of the sender without mMutex,
\* no queue of frames without mDeliveryMutex and no handle without
\* gHandlesMutex.
THEOREM WorksUnderMutex == Spec => []UnderItsMutex
<1>1. Typed /\ LockInv /\ [Next]_vars => LockInv'
  BY LockInvariance
<1>2. Typed /\ LockInv => UnderItsMutex
  <2> SUFFICES ASSUME LockInv, NEW t \in Threads, NEW l \in Mutexes,
                      todo[t] # <<>>, todo[t][1].op \in Guarded(l)
               PROVE  mutex[l].owner = t
    BY DEF UnderItsMutex
  <2>1. Held(mutex, t, l) >= 1
    BY FirstFits DEF LockInv
  <2> QED BY <2>1 DEF Held
<1> QED BY <1>1, <1>2, LockInvInitially, TypedInvariance, PTL DEF Spec

------------------------------------------------------------------------------
(***************************************************************************)
(* Frames on their way out of their buckets.                               *)
(***************************************************************************)
Enters == {"receive", "poll", "efp_receive_fragment"}
Sends == {"send", "processRetransmits", "efp_send_data"}

\* Run to completion, the receive callback stays out of the receiver that calls
\* it: it enters neither by itself nor through a sender whose callback does.
NoReentry ==
    \A w \in Wirings : w.mode = "RUN_TO_COMPLETION" =>
      /\ Range(w.onReceive) \cap Enters = {}
      /\ \/ Range(w.onReceive) \cap Sends = {}
         \/ Range(w.onSend) \cap Enters = {}

SendStaysOut == Range(wiring.onSend) \cap Enters = {}

\* A frame chosen by a pass and not yet erased.
Pending(y) == y.op \in {"deliver", "push", "erase"}

\* What a thread may do with frames pending: no bucket but theirs is touched and
\* mNetMutex is kept.
Calm(y) ==
    /\ y.op \notin {"fragment", "processNacks", "nack", "sent", "collect",
                    "findReceiver", "await", "take", "sleep", "wake"}
    /\ y # Do("lock", mNetMutex) /\ y # Do("unlock", mNetMutex)
    /\ y.op = "callback" => ~Threaded
    /\ y.op \in {"sendCallback", "retransmit", "findSender"} => SendStaysOut

LEMMA CalmLock ==
    ASSUME NEW l \in Mutexes, l # mNetMutex
    PROVE  Calm(Do("lock", l)) /\ Calm(Do("unlock", l))
<1>1. /\ Do("lock", l).op = "lock" /\ Do("lock", l).on = l
      /\ Do("unlock", l).op = "unlock" /\ Do("unlock", l).on = l
      /\ Do("lock", mNetMutex).on = mNetMutex
      /\ Do("unlock", mNetMutex).on = mNetMutex
      /\ Do("lock", mNetMutex).op = "lock" /\ Do("unlock", mNetMutex).op = "unlock"
  BY DoFacts
<1> QED BY <1>1 DEF Calm

LEMMA CalmPlain ==
    ASSUME NEW y, y.op \in {"request", "stop", "endSend", "endReceive",
                            "deliver", "push", "erase", "notifyAll", "join",
                            "delete"}
    PROVE  Calm(y)
<1>1. Do("lock", mNetMutex).op = "lock" /\ Do("unlock", mNetMutex).op = "unlock"
  BY DoFacts
<1> QED BY <1>1 DEF Calm

LEMMA CalmSend ==
    ASSUME NEW y, y.op \in {"sendCallback", "retransmit", "findSender"},
           SendStaysOut
    PROVE  Calm(y)
<1>1. Do("lock", mNetMutex).op = "lock" /\ Do("unlock", mNetMutex).op = "unlock"
  BY DoFacts
<1> QED BY <1>1 DEF Calm

LEMMA OtherMutexes ==
    /\ mDeliveryMutex \in Mutexes /\ mDeliveryMutex # mNetMutex
    /\ mMutex \in Mutexes /\ mMutex # mNetMutex
    /\ gHandlesMutex \in Mutexes /\ gHandlesMutex # mNetMutex
    /\ mNetMutex \in Mutexes
  BY DEF Mutexes, mNetMutex, mDeliveryMutex, mMutex, gHandlesMutex

LEMMA CalmNeeds ==
    ASSUME NEW call \in Calls \ Enters, call \in Sends => SendStaysOut,
           NEW p, NEW y \in Needs(call, p)
    PROVE  Calm(y)
<1>1. CASE call = "send"
  BY <1>1, DoFacts, CalmLock, CalmSend, OtherMutexes DEF Needs, Sends
<1>2. CASE call = "receiveNack"
  BY <1>2, DoFacts, CalmLock, CalmPlain, OtherMutexes DEF Needs
<1>3. CASE call = "processRetransmits"
  BY <1>3, DoFacts, CalmLock, CalmSend, OtherMutexes DEF Needs, Sends
<1>4. CASE call = "stop"
  BY <1>4, DoFacts, CalmLock, CalmPlain, OtherMutexes DEF Needs
<1>5. CASE call = "efp_send_data"
  BY <1>5, DoFacts, CalmLock, CalmSend, OtherMutexes DEF Needs, Sends
<1>6. CASE call = "efp_end_send"
  BY <1>6, DoFacts, CalmLock, CalmPlain, OtherMutexes DEF Needs
<1>7. CASE call = "efp_end_receive"
  BY <1>7, DoFacts, CalmLock, CalmPlain, OtherMutexes DEF Needs
<1> QED BY <1>1, <1>2, <1>3, <1>4, <1>5, <1>6, <1>7
        DEF Calls, Carrying, Enters

\* What comes of it is as calm.
LEMMA CalmExpand ==
    ASSUME wiring \in Wirings, NoReentry, NEW x \in Instrs, Calm(x),
           NEW y \in Makes(x)
    PROVE  Calm(y)
<1>0. /\ wiring.onSend \in Seq(Calls) /\ wiring.onReceive \in Seq(Calls)
  BY WiredCalls
<1>a. wiring.mode \in {"THREADED", "RUN_TO_COMPLETION"}
  BY ThreadsAssumption DEF WiringOK
<1>1. CASE x.op = "sendCallback"
  <2>1. SendStaysOut
    BY <1>1 DEF Calm
  <2>2. PICK i \in DOMAIN wiring.onSend : y \in Needs(wiring.onSend[i], x.on)
    BY <1>1 DEF Makes, CallsNeed
  <2>3. wiring.onSend[i] \in Calls \ Enters
    BY <1>0, <2>1, <2>2, LenProperties DEF SendStaysOut, Range
  <2> QED BY <2>1, <2>2, <2>3, CalmNeeds
<1>2. CASE x.op = "retransmit"
  <2>1. SendStaysOut
    BY <1>2 DEF Calm
  <2>2. y.op \in {"sendCallback", "retransmit"}
    BY <1>2, DoFacts DEF Makes
  <2> QED BY <2>1, <2>2, CalmSend
<1>3. CASE x.op = "deliver"
  <2>1. CASE Threaded
    BY <1>3, <2>1, DoFacts, CalmLock, CalmPlain, OtherMutexes DEF Makes
  <2>2. CASE ~Threaded
    <3>1. y = Do("callback", x.on) \/ y = Do("erase", x.on)
      BY <1>3, <2>2 DEF Makes
    <3>2. Calm(Do("callback", x.on))
      BY <2>2, DoFacts DEF Calm
    <3> QED BY <3>1, <3>2, DoFacts, CalmPlain
  <2> QED BY <2>1, <2>2
<1>4. CASE x.op = "callback"
  <2>1. wiring.mode = "RUN_TO_COMPLETION"
    BY <1>4, <1>a DEF Calm, Threaded
  <2>2. /\ Range(wiring.onReceive) \cap Enters = {}
        /\ Range(wiring.onReceive) \cap Sends = {} \/ SendStaysOut
    BY <2>1 DEF NoReentry, SendStaysOut
  <2>3. PICK i \in DOMAIN wiring.onReceive :
          y \in Needs(wiring.onReceive[i], Ended(x.on))
    BY <1>4 DEF Makes, CallsNeed
  <2>4. wiring.onReceive[i] \in Range(wiring.onReceive)
        /\ wiring.onReceive[i] \in Calls
    BY <1>0, <2>3, LenProperties DEF Range
  <2>5. /\ wiring.onReceive[i] \in Calls \ Enters
        /\ wiring.onReceive[i] \in Sends => SendStaysOut
    BY <2>2, <2>4
  <2> QED BY <2>3, <2>5, CalmNeeds
<1>5. CASE x.op = "stop"
  BY <1>5, DoFacts, CalmLock, CalmPlain, OtherMutexes DEF Makes
<1>6. CASE x.op = "findSender"
  <2>1. SendStaysOut
    BY <1>6 DEF Calm
  <2>2. "send" \in Calls \ Enters /\ y \in Needs("send", x.on)
    BY <1>6 DEF Makes, Calls, Carrying, Enters
  <2> QED BY <2>1, <2>2, CalmNeeds
<1>7. CASE x.op = "endReceive"
  BY <1>7, DoFacts, CalmLock, CalmPlain, OtherMutexes DEF Makes
<1>8. CASE x.op = "endSend"
  BY <1>8, DoFacts, CalmPlain DEF Makes
<1>9. CASE x.op \in {"lock", "unlock", "request", "push", "erase", "join",
                     "delete", "notifyAll"}
  BY <1>9 DEF Makes
<1> QED BY <1>1, <1>2, <1>3, <1>4, <1>5, <1>6, <1>7, <1>8, <1>9, InstrFacts
        DEF Calm

\* The frames a thread has pending: in calm, each one once, or pushed and then
\* erased.
Orderly(s) ==
    /\ \A i, j \in 1..Len(s) : i < j /\ Pending(s[j]) => Calm(s[i])
    /\ \A i, j \in 1..Len(s) :
         i < j /\ Pending(s[i]) /\ Pending(s[j]) /\ s[i].on = s[j].on
           => s[i].op = "push" /\ s[j].op = "erase"
    /\ \A i \in 1..Len(s) : s[i].op = "push" =>
         \E j \in 1..Len(s) : i < j /\ s[j] = Do("erase", s[i].on)

\* Each operation with frames pending is one of a pass or hands one of its
\* frames on.
LEMMA PendingMade ==
    ASSUME wiring \in Wirings, NEW x \in Instrs, NEW b \in Expand(x),
           NEW i \in 1..Len(b), Pending(b[i])
    PROVE  \/ x.op = "collect"
           \/ x.op = "deliver" /\ b[i].on = x.on
<1>1. b[i].op \in MadeOps(x.op) /\ b \in Seq(Makes(x)) /\ b \in Seq(Instrs)
  BY ExpandOps, ExpandMakes
<1>2. b[i] \in Makes(x)
  BY <1>1, PlacesOfSeq
<1>3. x.op \in {"collect", "deliver"}
  BY <1>1, InstrFacts DEF MadeOps, CallOps, Pending
<1>4. ASSUME x.op = "deliver"
      PROVE  b[i].on = x.on
  <2>1. \/ b[i] \in {Do("push", x.on), Do("erase", x.on)}
        \/ b[i] \in {Do("lock", mDeliveryMutex), Do("unlock", mDeliveryMutex),
                     Do("callback", x.on)}
    BY <1>2, <1>4 DEF Makes
  <2> QED BY <2>1, DoFacts DEF Pending
<1> QED BY <1>3, <1>4

\* The places of what deliverFrame leaves to do.
LEMMA DeliverPlaces ==
    ASSUME NEW x \in Instrs, x.op = "deliver", NEW b \in Expand(x)
    PROVE  /\ Threaded => /\ Len(b) = 4
                          /\ b[1].op = "lock" /\ b[2] = Do("push", x.on)
                          /\ b[3].op = "unlock" /\ b[4] = Do("erase", x.on)
           /\ ~Threaded => /\ Len(b) = 2
                           /\ b[1].op = "callback" /\ b[2] = Do("erase", x.on)
<1>1. ASSUME ~Threaded
      PROVE  Len(b) = 2 /\ b[1].op = "callback" /\ b[2] = Do("erase", x.on)
  <2>1. b = <<Do("callback", x.on), Do("erase", x.on)>>
    BY <1>1 DEF Expand
  <2> QED BY <2>1, DoFacts
<1>2. ASSUME Threaded
      PROVE  /\ Len(b) = 4
             /\ b[1].op = "lock" /\ b[2] = Do("push", x.on)
             /\ b[3].op = "unlock" /\ b[4] = Do("erase", x.on)
  <2> DEFINE p == Do("lock", mDeliveryMutex)
             q == Do("push", x.on)
             v == Do("unlock", mDeliveryMutex)
             e == Do("erase", x.on)
             S == {p, q, v, e}
             u == (<<p>> \o <<q>>) \o <<v>>
             w == <<e>>
  <2>1. b = u \o w
    BY <1>2 DEF Expand, Under
  <2>2. p.op = "lock" /\ v.op = "unlock"
    BY DoFacts
  <2> HIDE DEF p, q, v, e
  <2>3. <<p>> \o <<q>> = <<p, q>>
    BY JoinOne
  <2>4. <<p, q>> \in Seq(S) /\ <<v>> \in Seq(S) /\ w \in Seq(S)
    BY SmallSeqs
  <2> DEFINE pq == <<p, q>>
             vv == <<v>>
  <2>5. /\ pq \in Seq(S) /\ Len(pq) = 2 /\ pq[1] = p /\ pq[2] = q
        /\ vv \in Seq(S) /\ Len(vv) = 1 /\ vv[1] = v
        /\ w \in Seq(S) /\ Len(w) = 1 /\ w[1] = e
    BY <2>4
  <2>6. u = pq \o vv
    BY <2>3
  <2> HIDE DEF pq, vv, w, u, S
  <2>7. IsSeq(pq) /\ IsSeq(vv) /\ IsSeq(w)
    BY <2>5, SeqIsSeq
  <2>8. /\ IsSeq(u) /\ Len(u) = 2 + 1
        /\ u[1] = p /\ u[2] = q /\ u[2 + 1] = v
    <3>1. /\ IsSeq(pq \o vv) /\ Len(pq \o vv) = Len(pq) + Len(vv)
          /\ \A i \in 1..Len(pq) : (pq \o vv)[i] = pq[i]
          /\ \A i \in 1..Len(vv) : (pq \o vv)[Len(pq) + i] = vv[i]
      BY ONLY <2>7, ConcatFacts
    <3> QED BY <2>5, <2>6, <3>1
  <2>9. /\ Len(b) = 3 + 1 /\ b[1] = p /\ b[2] = q /\ b[3] = v /\ b[3 + 1] = e
    <3>0. Len(u) = 3 /\ u[1] = p /\ u[2] = q /\ u[3] = v
      BY <2>8
    <3>1. /\ Len(u \o w) = Len(u) + Len(w)
          /\ \A i \in 1..Len(u) : (u \o w)[i] = u[i]
          /\ \A i \in 1..Len(w) : (u \o w)[Len(u) + i] = w[i]
      <4>1. IsSeq(u) /\ IsSeq(w)
        BY <2>7, <2>8
      <4> QED BY ONLY <4>1, ConcatFacts
    <3> QED BY <2>1, <2>5, <3>0, <3>1
  <2> QED BY <2>2, <2>9 DEF q, e
<1> QED BY <1>1, <1>2

\* What an instruction leaves to do is in order by itself.
LEMMA OrderlyMade ==
    ASSUME wiring \in Wirings, NoReentry, NEW x \in Instrs, NEW b \in Expand(x)
    PROVE  Orderly(b)
<1>1. b \in Seq(Makes(x)) /\ b \in Seq(Instrs)
  BY ExpandMakes, ExpandTyped
<1>2. \A i \in 1..Len(b) : b[i] \in Makes(x)
  BY <1>1, PlacesOfSeq
<1>3. CASE x.op \notin {"collect", "deliver"}
  <2>1. \A i \in 1..Len(b) : ~Pending(b[i])
    BY <1>3, PendingMade
  <2> QED BY <2>1 DEF Orderly, Pending
<1>4. CASE x.op = "collect"
  <2>1. PICK S \in SUBSET Frames : b = Each("deliver", S)
    BY <1>4 DEF Expand
  <2>2. /\ \A i \in 1..Len(b) : b[i].op = "deliver"
        /\ \A i, j \in 1..Len(b) : b[i].on = b[j].on => i = j
    BY <2>1, EachFacts
  <2>3. \A i \in 1..Len(b) : Calm(b[i])
    BY <2>2, CalmPlain
  <2>4. Len(b) \in Nat
    BY <1>1, LenIsNat, SeqIsSeq
  <2>5. \A i, j \in 1..Len(b) : i < j => b[i].on # b[j].on
    BY <2>2, <2>4
  <2> QED BY <2>2, <2>3, <2>5 DEF Orderly
<1>5. CASE x.op = "deliver"
  <2>1. Calm(x)
    BY <1>5, CalmPlain
  <2>2. \A i \in 1..Len(b) : Calm(b[i])
    BY <1>2, <2>1, CalmExpand
  <2>3. CASE Threaded
    <3>1. /\ Len(b) = 4
          /\ b[1].op = "lock" /\ b[2].op = "push" /\ b[2].on = x.on
          /\ b[3].op = "unlock" /\ b[4].op = "erase" /\ b[4] = Do("erase", x.on)
      BY <1>5, <2>3, DeliverPlaces, DoFacts
    <3>2. \A i \in 1..4 : Pending(b[i]) => i \in {2, 4}
      BY <3>1 DEF Pending
    <3>3. \A i, j \in 1..4 : i < j /\ Pending(b[i]) /\ Pending(b[j])
                               => i = 2 /\ j = 4
      BY <3>2
    <3>4. \A i \in 1..4 : b[i].op = "push" => i = 2
      BY <3>2 , <3>1 DEF Pending
    <3>5. \A i \in 1..4 : b[i].op = "push" => i < 4 /\ b[4] = Do("erase", b[i].on)
      BY <3>1, <3>4
    <3> QED BY <2>2, <3>1, <3>3, <3>5 DEF Orderly
  <2>4. CASE ~Threaded
    <3>1. /\ Len(b) = 2 /\ b[1].op = "callback" /\ b[2].op = "erase"
      BY <1>5, <2>4, DeliverPlaces, DoFacts
    <3>2. \A i \in 1..2 : Pending(b[i]) => i = 2
      BY <3>1 DEF Pending
    <3>3. \A i \in 1..2 : b[i].op # "push"
      BY <3>1
    <3>4. \A i, j \in 1..2 : ~(i < j /\ Pending(b[i]) /\ Pending(b[j]))
      BY <3>2
    <3> QED BY <2>2, <3>1, <3>3, <3>4 DEF Orderly
  <2> QED BY <2>3, <2>4
<1> QED BY <1>3, <1>4, <1>5

\* Put in front of what is in order, it stays in order when it is calm above
\* frames pending and brings in none of them again.
LEMMA OrderlyJoins ==
    ASSUME TodoOK, NEW t \in Threads, todo[t] # <<>>, NEW b \in Seq(Instrs),
           Goes(t, b), Orderly(todo[t]), Orderly(b),
           \A i \in 1..Len(b) : \A j \in 2..Len(todo[t]) :
             Pending(todo[t][j]) =>
               Calm(b[i]) /\ (Pending(b[i]) => b[i].on # todo[t][j].on)
    PROVE  Orderly(todo'[t])
<1> DEFINE s == todo[t]
           n == todo'[t]
<1>1. /\ Len(b) \in Nat /\ Len(s) \in Nat \ {0}
      /\ Len(n) = Len(b) + Len(s) - 1
      /\ \A i \in 1..Len(b) : n[i] = b[i]
      /\ \A i \in 2..Len(s) : n[Len(b) + i - 1] = s[i]
  BY GoesFacts
<1>2. \A j \in 1..Len(n) :
        \/ j \in 1..Len(b) /\ n[j] = b[j]
        \/ \E i \in 2..Len(s) : j = Len(b) + i - 1 /\ n[j] = s[i]
  BY GoesPlaces
<1>3. \A i \in 1..Len(b) : \A j \in 2..Len(s) :
        Pending(s[j]) => Calm(b[i]) /\ (Pending(b[i]) => b[i].on # s[j].on)
  OBVIOUS
<1>4. Orderly(s)
  OBVIOUS
<1> HIDE DEF s, n
<1>5. ASSUME NEW i \in 1..Len(n), NEW j \in 1..Len(n), i < j, Pending(n[j])
      PROVE  /\ Calm(n[i])
             /\ Pending(n[i]) /\ n[i].on = n[j].on
                  => n[i].op = "push" /\ n[j].op = "erase"
  <2>1. CASE j \in 1..Len(b) /\ n[j] = b[j]
    <3>1. i \in 1..Len(b) /\ n[i] = b[i]
      BY <1>1, <1>5, <2>1
    <3> QED BY <1>5, <2>1, <3>1 DEF Orderly
  <2>2. ASSUME NEW q \in 2..Len(s), j = Len(b) + q - 1, n[j] = s[q]
        PROVE  /\ Calm(n[i])
               /\ Pending(n[i]) /\ n[i].on = n[j].on
                    => n[i].op = "push" /\ n[j].op = "erase"
    <3>1. CASE i \in 1..Len(b) /\ n[i] = b[i]
      <4>1. Pending(s[q])
        BY <1>5, <2>2
      <4> QED BY <1>3, <2>2, <3>1, <4>1
    <3>2. ASSUME NEW p \in 2..Len(s), i = Len(b) + p - 1, n[i] = s[p]
          PROVE  /\ Calm(n[i])
                 /\ Pending(n[i]) /\ n[i].on = n[j].on
                      => n[i].op = "push" /\ n[j].op = "erase"
      <4>1. p \in 1..Len(s) /\ q \in 1..Len(s) /\ p < q
        BY <1>1, <1>5, <2>2, <3>2
      <4>2. Pending(s[q])
        BY <1>5, <2>2
      <4> QED BY <1>4, <2>2, <3>2, <4>1, <4>2 DEF Orderly
    <3> QED BY <1>2, <3>1, <3>2
  <2> QED BY <1>2, <2>1, <2>2
<1>6. ASSUME NEW i \in 1..Len(n), n[i].op = "push"
      PROVE  \E j \in 1..Len(n) : i < j /\ n[j] = Do("erase", n[i].on)
  <2>1. CASE i \in 1..Len(b) /\ n[i] = b[i]
    <3>1. PICK j \in 1..Len(b) : i < j /\ b[j] = Do("erase", b[i].on)
      BY <1>6, <2>1 DEF Orderly
    <3>2. j \in 1..Len(n) /\ n[j] = b[j]
      BY <1>1
    <3> QED BY <2>1, <3>1, <3>2
  <2>2. ASSUME NEW p \in 2..Len(s), i = Len(b) + p - 1, n[i] = s[p]
        PROVE  \E j \in 1..Len(n) : i < j /\ n[j] = Do("erase", n[i].on)
    <3>1. p \in 1..Len(s) /\ s[p].op = "push"
      BY <1>1, <1>6, <2>2
    <3>2. PICK q \in 1..Len(s) : p < q /\ s[q] = Do("erase", s[p].on)
      BY <1>4, <3>1 DEF Orderly
    <3> DEFINE j == Len(b) + q - 1
    <3>3. q \in 2..Len(s) /\ j \in 1..Len(n) /\ i < j
      BY <1>1, <2>2, <3>2
    <3>4. n[j] = s[q]
      BY <1>1, <3>3
    <3> HIDE DEF j
    <3> QED BY <2>2, <3>2, <3>3, <3>4
  <2> QED BY <1>2, <2>1, <2>2
<1>7. Orderly(n)
  BY <1>5, <1>6 DEF Orderly
<1> QED BY <1>7 DEF n

LEMMA OrderlyGoes ==
    ASSUME TodoOK, NoReentry, NEW t \in Threads, todo[t] # <<>>,
           todo[t][1] \in Instrs, NEW b \in Expand(todo[t][1]), Goes(t, b),
           Orderly(todo[t])
    PROVE  Orderly(todo'[t])
<1> DEFINE s == todo[t]
           x == s[1]
<1>1. wiring \in Wirings /\ x \in Instrs /\ b \in Expand(x) /\ Orderly(s)
  BY DEF TodoOK
<1>2. b \in Seq(Instrs) /\ b \in Seq(Makes(x)) /\ Orderly(b)
  BY <1>1, ExpandTyped, ExpandMakes, OrderlyMade
<1>3. Len(s) \in Nat \ {0}
  BY <1>2, GoesFacts
<1> HIDE DEF s
<1>4. ASSUME NEW i \in 1..Len(b), NEW j \in 2..Len(s), Pending(s[j])
      PROVE  Calm(b[i]) /\ (Pending(b[i]) => b[i].on # s[j].on)
  <2>1. 1 \in 1..Len(s) /\ j \in 1..Len(s) /\ 1 < j
    BY <1>3
  <2>2. /\ Calm(x)
        /\ Pending(x) /\ x.on = s[j].on => x.op = "push"
    BY <1>1, <1>4, <2>1 DEF Orderly
  <2> HIDE DEF x
  <2>3. b[i] \in Makes(x)
    BY <1>2, PlacesOfSeq
  <2>4. Calm(b[i])
    BY <1>1, <2>2, <2>3, CalmExpand
  <2>5. Pending(b[i]) => x.op = "deliver" /\ b[i].on = x.on
    BY <1>1, <2>2, PendingMade DEF Calm
  <2> QED BY <2>2, <2>4, <2>5 DEF Pending
<1> QED BY <1>1, <1>2, <1>4, OrderlyJoins DEF s

\* What the passes of the receiver do to its buckets.
BucketsMove(x) ==
    /\ x.op \notin {"fragment", "deliver", "push", "erase"} => bucket' = bucket
    /\ x.op = "fragment" =>
         \A f \in Frames : bucket'[f] = "moved" => bucket[f] = "moved"
    /\ x.op = "deliver" =>
         IF Threaded THEN bucket' = bucket
         ELSE bucket' = [bucket EXCEPT ![x.on] = "moved"]
    /\ x.op = "push" => bucket' = [bucket EXCEPT ![x.on] = "moved"]
    /\ x.op = "erase" => bucket' = [bucket EXCEPT ![x.on] = "delivered"]

LEMMA StepBuckets ==
    ASSUME Typed, NEW t \in Threads, Acquire(t) \/ Step(t)
    PROVE  BucketsMove(todo[t][1])
<1>0. ASSUME NEW op, At(t, op)
      PROVE  todo[t][1].op = op /\ Arg(t) = todo[t][1].on
  BY <1>0, AtFacts DEF Typed
<1>1. CASE Acquire(t) \/ Unlock(t) \/ SendCallback(t) \/ Request(t)
  BY <1>0, <1>1 DEF Acquire, Unlock, SendCallback, Request, BucketsMove,
                    fragments
<1>2. CASE Retransmit(t) \/ ProcessNacks(t) \/ Nack(t)
  BY <1>0, <1>2 DEF Retransmit, ProcessNacks, Nack, BucketsMove, fragments
<1>3. CASE NackSent(t) \/ Collect(t) \/ ReceiveCallback(t)
  BY <1>0, <1>3 DEF NackSent, Collect, ReceiveCallback, BucketsMove, fragments
<1>4. CASE Await(t) \/ Sleep(t) \/ Wake(t) \/ Take(t)
  BY <1>0, <1>4 DEF Await, Sleep, Wake, Take, BucketsMove, fragments
<1>5. CASE Stop(t) \/ NotifyAll(t) \/ Join(t) \/ Delete(t)
  BY <1>0, <1>5 DEF Stop, NotifyAll, Join, Delete, BucketsMove, fragments
<1>6. CASE Find(t)
  <2>1. bucket' = bucket
    BY <1>6 DEF Find, fragments
  <2>2. todo[t][1].op \in {"findSender", "findReceiver", "endReceive", "endSend"}
    BY <1>0, <1>6 DEF Find
  <2> QED BY <2>1, <2>2 DEF BucketsMove
<1>7. CASE Fragment(t)
  <2>1. todo[t][1].op = "fragment"
    BY <1>0, <1>7 DEF Fragment
  <2>2. bucket \in [Frames -> {"absent", "partial", "whole", "moved", "delivered"}]
    BY DEF Typed, RestOK
  <2>3. \A f \in Frames : bucket'[f] = "moved" => bucket[f] = "moved"
    BY <1>7, <2>2 DEF Fragment
  <2> QED BY <2>1, <2>3 DEF BucketsMove
<1>8. CASE Deliver(t)
  <2>1. todo[t][1].op = "deliver" /\ Arg(t) = todo[t][1].on
    BY <1>0, <1>8 DEF Deliver
  <2>2. IF Threaded THEN bucket' = bucket
        ELSE bucket' = [bucket EXCEPT ![Arg(t)] = "moved"]
    BY <1>8 DEF Deliver
  <2> QED BY <2>1, <2>2 DEF BucketsMove
<1>9. CASE Push(t)
  <2>1. todo[t][1].op = "push" /\ Arg(t) = todo[t][1].on
    BY <1>0, <1>9 DEF Push
  <2>2. bucket' = [bucket EXCEPT ![Arg(t)] = "moved"]
    BY <1>9 DEF Push
  <2> QED BY <2>1, <2>2 DEF BucketsMove
<1>10. CASE Erase(t)
  <2>1. todo[t][1].op = "erase" /\ Arg(t) = todo[t][1].on
    BY <1>0, <1>10 DEF Erase
  <2>2. bucket' = [bucket EXCEPT ![Arg(t)] = "delivered"]
    BY <1>10 DEF Erase
  <2> QED BY <2>1, <2>2 DEF BucketsMove
<1> QED BY <1>1, <1>2, <1>3, <1>4, <1>5, <1>6, <1>7, <1>8, <1>9, <1>10 DEF Step

\* Who owns mNetMutex, another thread's step apart from its own.
LEMMA StepNetMutex ==
    ASSUME Typed, LockInv, NEW t \in Threads, Acquire(t) \/ Step(t),
           mutex[mNetMutex].owner # Nobody
    PROVE  \/ mutex'[mNetMutex] = mutex[mNetMutex]
           \/ /\ mutex[mNetMutex].owner = t
              /\ todo[t][1] \in {Do("lock", mNetMutex), Do("unlock", mNetMutex)}
<1>0. mutex \in [Mutexes -> [owner : Threads \cup {Nobody}, depth : Int]]
  BY DEF Typed, MutexOK
<1>1. CASE Acquire(t)
  <2>1. /\ At(t, "lock") /\ Free(t, Arg(t))
        /\ mutex' = [mutex EXCEPT ![Arg(t)] =
                       [owner |-> t, depth |-> mutex[Arg(t)].depth + 1]]
    BY <1>1 DEF Acquire
  <2>2. todo[t][1] = Do("lock", Arg(t))
    BY <2>1, AtFacts DEF Typed
  <2>3. CASE Arg(t) = mNetMutex
    BY <2>1, <2>2, <2>3 DEF Free
  <2>4. CASE Arg(t) # mNetMutex
    BY <1>0, <2>1, <2>4, OtherMutexes
  <2> QED BY <2>3, <2>4
<1>2. CASE Unlock(t)
  <2>1. At(t, "unlock") /\ mutex' = Released(Arg(t))
    BY <1>2 DEF Unlock
  <2>2. todo[t] # <<>> /\ todo[t][1] = Do("unlock", Arg(t))
    BY <2>1, AtFacts DEF Typed
  <2>3. CASE Arg(t) = mNetMutex
    <3>1. Change(todo[t][1], mNetMutex) = -1
      BY <2>2, <2>3, ChangeLock, OtherMutexes
    <3>2. /\ Held(mutex, t, mNetMutex) \in Nat
          /\ Held(mutex, t, mNetMutex) + Change(todo[t][1], mNetMutex) \in Nat
      BY <2>2, FirstFits, OtherMutexes DEF LockInv
    <3>3. mutex[mNetMutex].owner = t
      BY <3>1, <3>2 DEF Held
    <3> QED BY <2>2, <2>3, <3>3
  <2>4. CASE Arg(t) # mNetMutex
    BY <1>0, <2>1, <2>4, OtherMutexes DEF Released
  <2> QED BY <2>3, <2>4
<1>3. CASE Sleep(t)
  <2>1. mutex' = Released(mDeliveryMutex)
    BY <1>3 DEF Sleep
  <2> QED BY <1>0, <2>1, OtherMutexes DEF Released
<1>4. CASE Step(t) /\ ~Unlock(t) /\ ~Sleep(t)
  <2>1. mutex' = mutex
    BY <1>4 DEF Step, SendCallback, Request, Retransmit,
         Fragment, ProcessNacks, Nack, NackSent, Collect, Deliver, Push,
         Erase, ReceiveCallback, Await, Wake, Take, Stop, NotifyAll,
         Join, Find, Delete
  <2> QED BY <2>1
<1> QED BY <1>1, <1>2, <1>3, <1>4

\* Frames on their way are in order, are with the owner of mNetMutex, have their
\* buckets yet, and a frame moved out is about to be erased.
FramesOut ==
    /\ \A t \in Threads : Orderly(todo[t])
    /\ \A t \in Threads : \A y \in Range(todo[t]) :
         /\ Pending(y) => mutex[mNetMutex].owner = t
         /\ y.op \in {"deliver", "push"} => bucket[y.on] \in {"partial", "whole"}
    /\ \A f \in Frames : bucket[f] = "moved" =>
         \E t \in Threads : Do("erase", f) \in Range(todo[t])

\* What is below the first instruction.
LEMMA PendingBelow ==
    ASSUME Typed, FramesOut, NEW t \in Threads, todo[t] # <<>>,
           NEW i \in 2..Len(todo[t]), Pending(todo[t][i])
    PROVE  /\ Calm(todo[t][1])
           /\ Pending(todo[t][1]) /\ todo[t][1].on = todo[t][i].on =>
                todo[t][1].op = "push" /\ todo[t][i].op = "erase"
           /\ mutex[mNetMutex].owner = t
<1> DEFINE s == todo[t]
<1>1. s \in Seq(Instrs) /\ Orderly(s)
  BY DEF Typed, TodoOK, FramesOut
<1>2. /\ Range(s) = {s[k] : k \in 1..Len(s)} /\ Len(s) \in Nat
  BY <1>1, PlacesOfSeq
<1>3. 1 \in 1..Len(s) /\ i \in 1..Len(s) /\ 1 < i
  BY <1>2
<1>4. s[i] \in Range(s)
  BY <1>2, <1>3
<1>5. mutex[mNetMutex].owner = t
  BY <1>4 DEF FramesOut
<1>6. Pending(s[i])
  OBVIOUS
<1> HIDE DEF s
<1>7. /\ Calm(s[1])
      /\ Pending(s[1]) /\ s[1].on = s[i].on => s[1].op = "push" /\ s[i].op = "erase"
  BY <1>1, <1>3, <1>6 DEF Orderly
<1> QED BY <1>5, <1>7 DEF s

\* A pass chooses frames whose buckets hold them.
LEMMA CollectsFrames ==
    ASSUME Typed, LockInv, FramesOut, NEW t \in Threads, Collect(t)
    PROVE  \E b \in Expand(todo[t][1]) :
             /\ Goes(t, b)
             /\ \A y \in Range(b) : bucket[y.on] \in {"partial", "whole"}
<1> DEFINE x == todo[t][1]
<1>1. PICK late \in SUBSET Partial :
        Then(t, Each("deliver",
                     late \cup {f \in Frames : bucket[f] \in {"whole", "moved"}}))
  BY DEF Collect
<1>2. At(t, "collect")
  BY DEF Collect
<1>3. todo[t] # <<>> /\ x \in Instrs /\ x.op = "collect"
  BY <1>2, AtFacts DEF Typed
<1> DEFINE S == late \cup {f \in Frames : bucket[f] \in {"whole", "moved"}}
           b == Each("deliver", S)
<1>4. S \in SUBSET Frames /\ \A f \in S : bucket[f] \in {"partial", "whole", "moved"}
  BY DEF Partial
<1>5. Goes(t, b)
  BY <1>1, ThenGoes
<1> HIDE DEF S, b
<1>6. b \in Expand(x)
  BY <1>3, <1>4 DEF Expand, b
<1>7. mutex[mNetMutex].owner = t
  <2>1. Held(mutex, t, mNetMutex) >= 1
    BY <1>3, FirstFits, GuardedFacts, OtherMutexes DEF LockInv
  <2> QED BY <2>1 DEF Held
<1>8. ASSUME NEW f \in Frames, bucket[f] = "moved"
      PROVE  FALSE
  <2> DEFINE e == Do("erase", f)
  <2>1. PICK u \in Threads : e \in Range(todo[u])
    BY <1>8 DEF FramesOut
  <2>2. Pending(e) /\ e.op = "erase"
    BY DoFacts DEF Pending
  <2> HIDE DEF e
  <2>3. u = t
    BY <1>7, <2>1, <2>2 DEF FramesOut
  <2>4. todo[t] \in Seq(Instrs)
    BY DEF Typed, TodoOK
  <2>5. PICK i \in 1..Len(todo[t]) : todo[t][i] = e
    BY <2>1, <2>3, <2>4, PlacesOfSeq
  <2>6. i # 1
    BY <1>3, <2>2, <2>5
  <2>7. i \in 2..Len(todo[t])
    BY <2>4, <2>6, PlacesOfSeq
  <2>8. Calm(x)
    BY <1>3, <2>2, <2>5, <2>7, PendingBelow
  <2> QED BY <1>3, <2>8 DEF Calm
<1>9. b \in Seq(Instrs) /\ \A i \in 1..Len(b) : b[i].on \in S
  <2>1. wiring \in Wirings
    BY DEF Typed, TodoOK
  <2>2. b \in Seq(Instrs)
    BY <1>3, <1>6, <2>1, ExpandTyped
  <2>3. \A i \in 1..Len(Each("deliver", S)) : Each("deliver", S)[i].on \in S
    BY <1>4, EachFacts
  <2> QED BY <2>2, <2>3 DEF b
<1>10. ASSUME NEW y \in Range(b)
       PROVE  bucket[y.on] \in {"partial", "whole"}
  <2>1. y.on \in S
    BY <1>9, PlacesOfSeq
  <2> QED BY <1>4, <1>8, <2>1
<1> QED BY <1>5, <1>6, <1>10

LEMMA FramesOutStep ==
    ASSUME Typed, LockInv, FramesOut, NoReentry, NEW t \in Threads,
           Acquire(t) \/ Step(t)
    PROVE  FramesOut'
<1> DEFINE x == todo[t][1]
<1>0. [Next]_vars
  BY DEF Next
<1>1. todo[t] # <<>> /\ x \in Instrs /\ wiring \in Wirings /\ TodoOK
  BY StepExpands DEF Typed, TodoOK
<1>2. PICK b \in Expand(x) :
        /\ Goes(t, b)
        /\ x.op = "collect" =>
             \A y \in Range(b) : bucket[y.on] \in {"partial", "whole"}
  <2>1. CASE Collect(t)
    BY <2>1, CollectsFrames
  <2>2. CASE ~Collect(t)
    <3>1. PICK c \in Expand(x) : Goes(t, c)
      BY StepExpands
    <3>2. x.op # "collect"
      <4>0. ASSUME NEW op, At(t, op)
            PROVE  x.op = op
        BY <4>0, AtFacts DEF Typed
      <4>1. CASE Acquire(t) \/ Unlock(t) \/ SendCallback(t)
        BY <4>0, <4>1 DEF Acquire, Unlock, SendCallback
      <4>2. CASE Request(t) \/ Retransmit(t) \/ Fragment(t)
        BY <4>0, <4>2 DEF Request, Retransmit, Fragment
      <4>3. CASE ProcessNacks(t) \/ Nack(t) \/ NackSent(t)
        BY <4>0, <4>3 DEF ProcessNacks, Nack, NackSent
      <4>4. CASE Deliver(t) \/ Push(t) \/ Erase(t)
        BY <4>0, <4>4 DEF Deliver, Push, Erase
      <4>5. CASE ReceiveCallback(t) \/ Await(t) \/ Sleep(t)
        BY <4>0, <4>5 DEF ReceiveCallback, Await, Sleep
      <4>6. CASE Wake(t) \/ Take(t) \/ Stop(t)
        BY <4>0, <4>6 DEF Wake, Take, Stop
      <4>7. CASE NotifyAll(t) \/ Join(t) \/ Delete(t)
        BY <4>0, <4>7 DEF NotifyAll, Join, Delete
      <4>8. CASE Find(t)
        BY <4>0, <4>8 DEF Find
      <4> QED BY <2>2, <4>1, <4>2, <4>3, <4>4, <4>5, <4>6, <4>7, <4>8 DEF Step
    <3> QED BY <3>1, <3>2
  <2> QED BY <2>1, <2>2
<1>3. b \in Seq(Instrs) /\ b \in Seq(Makes(x))
  BY <1>1, ExpandTyped, ExpandMakes
<1>4. \A u \in Threads \ {t} : todo'[u] = todo[u]
  BY <1>1, <1>2, <1>3, GoesFacts
<1>5. ASSUME NEW y \in Range(todo'[t])
      PROVE  \/ \E i \in 1..Len(b) : y = b[i]
             \/ \E i \in 2..Len(todo[t]) : y = todo[t][i]
  <2>1. todo'[t] \in Seq(Instrs)
    BY <1>0, TodoInvariance DEF TodoOK
  <2>2. PICK j \in 1..Len(todo'[t]) : y = todo'[t][j]
    BY <2>1, PlacesOfSeq
  <2> QED BY <1>1, <1>2, <1>3, <2>2, GoesPlaces
<1>6. todo[t] \in Seq(Instrs) /\ x \in Range(todo[t])
  BY <1>1, <1>2, <1>3, GoesRanges DEF TodoOK
<1>7. \A i \in 1..Len(todo[t]) : todo[t][i] \in Range(todo[t]) /\ todo[t][i] \in Instrs
  BY <1>6, PlacesOfSeq
<1>8. BucketsMove(x)
  BY StepBuckets
<1>9. ASSUME NEW l, l \in Mutexes, x.op \in Guarded(l)
      PROVE  mutex[l].owner = t
  <2>1. Held(mutex, t, l) >= 1
    BY <1>1, <1>9, FirstFits DEF LockInv
  <2> QED BY <2>1 DEF Held
<1>10. x.op \in {"fragment", "processNacks", "nack", "sent", "collect",
                 "deliver", "push", "erase"} => mutex[mNetMutex].owner = t
  BY <1>9, GuardedFacts, OtherMutexes
<1>11. ASSUME NEW i \in 2..Len(todo[t]), Pending(todo[t][i])
       PROVE  /\ Calm(x)
              /\ Pending(x) /\ x.on = todo[t][i].on =>
                   x.op = "push" /\ todo[t][i].op = "erase"
  BY <1>1, <1>11, PendingBelow
<1>12. \A i \in 2..Len(todo[t]) : i \in 1..Len(todo[t])
  BY <1>6, PlacesOfSeq
<1>13. \A u \in Threads : Orderly(todo'[u])
  BY <1>1, <1>2, <1>4, OrderlyGoes DEF FramesOut
<1>14. bucket \in [Frames -> {"absent", "partial", "whole", "moved", "delivered"}]
  BY DEF Typed, RestOK
<1>15. \A i \in 1..Len(b) : b[i] \in Range(b) /\ b[i] \in Instrs
  BY <1>3, PlacesOfSeq
<1>16. \A f \in {"lock", "unlock"} : Do(f, mNetMutex).op = f
  BY DoFacts
<1>17. x \in {Do("lock", mNetMutex), Do("unlock", mNetMutex)} =>
         ~Calm(x) /\ x.op \in {"lock", "unlock"}
  BY <1>16 DEF Calm
<1>18. \A u \in Threads : \A y \in Range(todo[u]) :
         Pending(y) => mutex[mNetMutex].owner = u
  BY DEF FramesOut
<1> HIDE DEF x
<1>19. ASSUME NEW u \in Threads, NEW y \in Range(todo'[u]), Pending(y)
       PROVE  mutex'[mNetMutex].owner = u
  <2>1. CASE u # t
    <3>1. mutex[mNetMutex].owner = u
      BY <1>4, <1>18, <1>19, <2>1
    <3>2. mutex[mNetMutex].owner # Nobody
      BY <3>1, NobodyApart
    <3>3. mutex'[mNetMutex] = mutex[mNetMutex]
      BY <2>1, <3>1, <3>2, StepNetMutex
    <3> QED BY <3>1, <3>3
  <2>2. ASSUME u = t, NEW i \in 1..Len(b), y = b[i]
        PROVE  mutex'[mNetMutex].owner = u
    <3>1. x.op \in {"collect", "deliver"}
      BY <1>1, <1>2, <1>19, <2>2, PendingMade
    <3>2. mutex[mNetMutex].owner = t
      BY <1>10, <3>1
    <3>3. mutex[mNetMutex].owner # Nobody
      BY <3>2, NobodyApart
    <3>4. mutex'[mNetMutex] = mutex[mNetMutex]
      BY <1>17, <3>1, <3>3, StepNetMutex DEF x
    <3> QED BY <2>2, <3>2, <3>4
  <2>3. ASSUME u = t, NEW i \in 2..Len(todo[t]), y = todo[t][i]
        PROVE  mutex'[mNetMutex].owner = u
    <3>1. Calm(x)
      BY <1>11, <1>19, <2>3
    <3>2. mutex[mNetMutex].owner = t
      BY <1>7, <1>12, <1>18, <1>19, <2>3
    <3>3. mutex[mNetMutex].owner # Nobody
      BY <3>2, NobodyApart
    <3>4. mutex'[mNetMutex] = mutex[mNetMutex]
      BY <1>17, <3>1, <3>3, StepNetMutex DEF x
    <3> QED BY <2>3, <3>2, <3>4
  <2> QED BY <1>5, <2>1, <2>2, <2>3
<1>20. ASSUME NEW u \in Threads, NEW y \in Range(todo'[u]),
              y.op \in {"deliver", "push"}
       PROVE  bucket'[y.on] \in {"partial", "whole"}
  <2>0. Pending(y)
    BY <1>20 DEF Pending
  <2>1. CASE u # t
    <3>1. y \in Range(todo[u]) /\ mutex[mNetMutex].owner = u
      BY <1>4, <1>18, <2>0, <2>1
    <3>2. bucket[y.on] \in {"partial", "whole"}
      BY <1>20, <3>1 DEF FramesOut
    <3>3. bucket' = bucket
      BY <1>8, <1>10, <2>1, <3>1 DEF BucketsMove
    <3> QED BY <3>2, <3>3
  <2>2. ASSUME u = t, NEW i \in 1..Len(b), y = b[i]
        PROVE  bucket'[y.on] \in {"partial", "whole"}
    <3>1. \/ x.op = "collect"
          \/ x.op = "deliver" /\ y.on = x.on
      BY <1>1, <1>2, <2>0, <2>2, PendingMade
    <3>2. CASE x.op = "collect"
      <4>1. bucket' = bucket
        BY <1>8, <3>2 DEF BucketsMove
      <4> QED BY <1>2, <1>15, <2>2, <3>2, <4>1
    <3>3. CASE x.op = "deliver" /\ y.on = x.on
      <4>1. Threaded
        <5> SUFFICES ASSUME ~Threaded PROVE FALSE
          OBVIOUS
        <5>1. Len(b) = 2 /\ b[1].op = "callback" /\ b[2].op = "erase"
          BY <1>1, <1>2, <3>3, DeliverPlaces, DoFacts
        <5>2. b[i].op = "callback" \/ b[i].op = "erase"
          BY <2>2, <5>1
        <5> QED BY <1>20, <2>2, <5>2
      <4>2. bucket' = bucket
        BY <1>8, <3>3, <4>1 DEF BucketsMove
      <4>3. bucket[x.on] \in {"partial", "whole"}
        BY <1>6, <3>3 DEF FramesOut
      <4> QED BY <3>3, <4>2, <4>3
    <3> QED BY <3>1, <3>2, <3>3
  <2>3. ASSUME u = t, NEW i \in 2..Len(todo[t]), y = todo[t][i]
        PROVE  bucket'[y.on] \in {"partial", "whole"}
    <3>1. Calm(x) /\ (Pending(x) => x.on # y.on)
      BY <1>11, <1>20, <2>0, <2>3
    <3>2. y \in Range(todo[t]) /\ y \in Instrs
      BY <1>7, <1>12, <2>3
    <3>3. bucket[y.on] \in {"partial", "whole"} /\ y.on \in Frames
      BY <1>20, <3>2, InstrFacts DEF FramesOut
    <3>4. bucket'[y.on] = bucket[y.on]
      <4>1. x.op # "fragment"
        BY <3>1 DEF Calm
      <4>2. x.op \in {"deliver", "push", "erase"} => x.on # y.on
        BY <3>1 DEF Pending
      <4> QED BY <1>8, <1>14, <3>3, <4>1, <4>2 DEF BucketsMove
    <3> QED BY <3>3, <3>4
  <2> QED BY <1>5, <2>1, <2>2, <2>3
<1>21. ASSUME NEW f \in Frames, bucket'[f] = "moved"
       PROVE  \E u \in Threads : Do("erase", f) \in Range(todo'[u])
  <2> DEFINE e == Do("erase", f)
  <2>0. e.op = "erase" /\ e.on = f
    BY DoFacts
  <2>1. CASE bucket[f] = "moved"
    <3>1. PICK u \in Threads : e \in Range(todo[u])
      BY <2>1 DEF FramesOut
    <3> HIDE DEF e
    <3>2. CASE u # t
      BY <1>4, <3>1, <3>2 DEF e
    <3>3. CASE u = t /\ e \in Range(todo'[t])
      BY <3>3 DEF e
    <3>4. CASE u = t /\ e \notin Range(todo'[t])
      <4>1. Range(todo[t]) \subseteq {x} \cup Range(todo'[t])
        BY <1>1, <1>2, <1>3, GoesRanges DEF x
      <4>2. x = e
        BY <3>1, <3>4, <4>1
      <4>3. bucket' = [bucket EXCEPT ![f] = "delivered"]
        BY <1>8, <2>0, <4>2 DEF BucketsMove
      <4> QED BY <1>14, <1>21, <4>3
    <3> QED BY <3>2, <3>3, <3>4
  <2>2. CASE bucket[f] # "moved"
    <3>1. /\ x.op \in {"deliver", "push"} /\ x.on = f
          /\ x.op = "deliver" => ~Threaded
      <4>1. x.op # "fragment"
        BY <1>8, <1>21, <2>2 DEF BucketsMove
      <4>2. x.op # "erase"
        BY <1>8, <1>14, <1>21, <2>2 DEF BucketsMove
      <4>3. x.op \in {"deliver", "push"}
        BY <1>8, <1>21, <2>2, <4>1, <4>2 DEF BucketsMove
      <4>4. x.op = "deliver" => ~Threaded
        BY <1>8, <1>21, <2>2 DEF BucketsMove
      <4>5. x.on = f
        BY <1>8, <1>14, <1>21, <2>2, <4>3, <4>4 DEF BucketsMove
      <4> QED BY <4>3, <4>4, <4>5
    <3>2. CASE x.op = "deliver"
      <4>1. Len(b) = 2 /\ b[2] = Do("erase", f)
        BY <1>1, <1>2, <3>1, <3>2, DeliverPlaces
      <4>2. e \in Range(b)
        BY <1>15, <4>1
      <4>3. Range(b) \subseteq Range(todo'[t])
        BY <1>1, <1>2, <1>3, GoesRanges DEF x
      <4> QED BY <4>2, <4>3
    <3>3. CASE x.op = "push"
      <4> DEFINE s == todo[t]
      <4>0. Orderly(s) /\ s[1] = x /\ 1 \in 1..Len(s)
        <5>1. Len(s) \in Nat \ {0}
          BY <1>1, <1>2, <1>3, GoesFacts DEF x
        <5> QED BY <5>1 DEF FramesOut, x
      <4> HIDE DEF s
      <4>1. PICK j \in 1..Len(s) : 1 < j /\ s[j] = Do("erase", x.on)
        BY <3>3, <4>0 DEF Orderly
      <4>2. e \in Range(todo[t]) /\ e # x
        BY <1>7, <2>0, <3>1, <3>3, <4>1 DEF s
      <4>3. Range(todo[t]) \subseteq {x} \cup Range(todo'[t])
        BY <1>1, <1>2, <1>3, GoesRanges DEF x
      <4> QED BY <4>2, <4>3
    <3> QED BY <3>1, <3>2, <3>3
  <2> QED BY <2>1, <2>2
<1>22. wiring' = wiring
  BY <1>0, WiringStays
<1>23. \A u \in Threads : Orderly(todo[u])'
  BY <1>13, <1>22 DEF Orderly, Calm, Threaded, SendStaysOut
<1> QED BY <1>19, <1>20, <1>21, <1>23 DEF FramesOut

LEMMA FramesOutStart ==
    ASSUME Typed, FramesOut, [Next]_vars, mutex' = mutex, bucket' = bucket,
           NEW t \in Threads, NEW b \in Seq(Instrs), Starts(t, b),
           \A i \in 1..Len(b) : ~Pending(b[i])
    PROVE  FramesOut'
<1>1. todo[t] = <<>> /\ todo'[t] = b /\ \A u \in Threads \ {t} : todo'[u] = todo[u]
  BY StartsGives DEF StartsFacts, Typed, Starts
<1>2. \A y \in Range(b) : ~Pending(y)
  BY PlacesOfSeq
<1>3. wiring' = wiring
  BY WiringStays
<1>4. Orderly(b)
  <2>1. \A i \in 1..Len(b) : b[i].op # "push"
    BY DEF Pending
  <2> QED BY <2>1 DEF Orderly
<1>5. \A u \in Threads : Orderly(todo'[u])
  BY <1>1, <1>4 DEF FramesOut
<1>6. \A u \in Threads : Orderly(todo[u])'
  BY <1>3, <1>5 DEF Orderly, Calm, Threaded, SendStaysOut
<1>7. ASSUME NEW u \in Threads, NEW y \in Range(todo'[u])
      PROVE  /\ Pending(y) => mutex'[mNetMutex].owner = u
             /\ y.op \in {"deliver", "push"} => bucket'[y.on] \in {"partial", "whole"}
  <2>1. CASE u = t
    BY <1>1, <1>2, <2>1 DEF Pending
  <2>2. CASE u # t
    BY <1>1, <2>2 DEF FramesOut
  <2> QED BY <2>1, <2>2
<1>8. ASSUME NEW f \in Frames, bucket'[f] = "moved"
      PROVE  \E u \in Threads : Do("erase", f) \in Range(todo'[u])
  <2>1. PICK u \in Threads : Do("erase", f) \in Range(todo[u])
    BY <1>8 DEF FramesOut
  <2>2. u # t
    BY <1>1, <2>1, NoneInEmpty
  <2> QED BY <1>1, <2>1, <2>2
<1> QED BY <1>6, <1>7, <1>8 DEF FramesOut

LEMMA FramesOutInvariance ==
    ASSUME Typed, LockInv, FramesOut, NoReentry, [Next]_vars
    PROVE  FramesOut'
<1>1. ASSUME NEW t \in Threads, Acquire(t) \/ Step(t)
      PROVE  FramesOut'
  BY <1>1, FramesOutStep
<1>2. ASSUME NEW t \in Apps, Call(t)
      PROVE  FramesOut'
  <2>1. PICK call, p : Suits(call, p) /\ Starts(t, Body(call, p))
    BY <1>2, CallBegins DEF Begins
  <2>2. mutex' = mutex /\ bucket' = bucket /\ t \in Threads
    BY <1>2 DEF Call, Threads, fragments
  <2>3. /\ Body(call, p) \in Seq(Instrs)
        /\ \A i \in 1..Len(Body(call, p)) : Body(call, p)[i].op \in CallOps
    BY <2>1, BodyOps
  <2>4. \A i \in 1..Len(Body(call, p)) : ~Pending(Body(call, p)[i])
    BY <2>3 DEF CallOps, Pending
  <2> QED BY <2>1, <2>2, <2>3, <2>4, FramesOutStart
<1>3. mutex' = mutex /\ bucket' = bucket /\ todo' = todo => FramesOut'
  BY WiringStays DEF FramesOut, Orderly, Calm, Threaded, SendStaysOut
<1>4. CASE WorkerLoop \/ DeliveryLoop
  <2>1. \/ Starts("worker", Round) \/ Starts("delivery", Awaiting)
        \/ todo' = todo
    BY <1>4 DEF WorkerLoop, DeliveryLoop, Starts
  <2>2. mutex' = mutex /\ bucket' = bucket
    BY <1>4 DEF WorkerLoop, DeliveryLoop, fragments
  <2>3. \A i \in 1..Len(Round) : ~Pending(Round[i])
    <3> DEFINE S == {Do("lock", mNetMutex), Do("processNacks", 0),
                     Do("unlock", mNetMutex)}
    <3>1. Round \in Seq(S)
      BY SmallSeqs DEF Round, Under
    <3>2. \A y \in S : ~Pending(y)
      BY DoFacts DEF Pending
    <3> HIDE DEF S
    <3> QED BY <3>1, <3>2, PlacesOfSeq
  <2>4. \A i \in 1..Len(Awaiting) : ~Pending(Awaiting[i])
    <3> DEFINE S == {Do("lock", mDeliveryMutex), Do("await", 0)}
    <3>1. Awaiting \in Seq(S)
      BY SmallSeqs DEF Awaiting
    <3>2. \A y \in S : ~Pending(y)
      BY DoFacts DEF Pending
    <3> HIDE DEF S
    <3> QED BY <3>1, <3>2, PlacesOfSeq
  <2>5. "worker" \in Threads /\ "delivery" \in Threads
    BY DEF Threads
  <2> QED BY <1>3, <2>1, <2>2, <2>3, <2>4, <2>5, LoopsTyped, FramesOutStart
<1>5. CASE WakeSpuriously \/ UNCHANGED vars
  BY <1>3, <1>5 DEF WakeSpuriously, vars, fragments
<1> QED BY <1>1, <1>2, <1>4, <1>5 DEF Next

\* deliverFrame moves the frame out of a bucket that still has it, and nothing
\* that it or its callbacks do before the bucket is erased collects the bucket
\* again.  Threaded this is so whatever the callbacks call; run to completion
\* the receive callback is called with mNetMutex, which is recursive, and has
\* to keep out of the receiver.
THEOREM FramesStillThere ==
    ASSUME NoReentry
    PROVE  Spec => []FrameStillThere
<1>1. Init => FramesOut
  <2> SUFFICES ASSUME Init PROVE FramesOut
    OBVIOUS
  <2>1. \A t \in Threads : todo[t] = <<>> /\ Len(todo[t]) = 0
    BY DEF Init
  <2>2. \A t \in Threads : Range(todo[t]) = {}
    BY <2>1, NoneInEmpty
  <2>3. \A f \in Frames : bucket[f] = "absent"
    BY DEF Init
  <2>4. \A t \in Threads : Orderly(todo[t])
    BY <2>1 DEF Orderly
  <2> QED BY <2>2, <2>3, <2>4 DEF FramesOut
<1>2. Typed /\ LockInv /\ FramesOut /\ [Next]_vars => FramesOut'
  BY FramesOutInvariance
<1>3. Typed /\ LockInv /\ [Next]_vars => LockInv'
  BY LockInvariance
<1>4. Typed /\ FramesOut => FrameStillThere
  <2> SUFFICES ASSUME Typed, FramesOut, NEW t \in Threads,
                      At(t, "deliver") \/ At(t, "push")
               PROVE  bucket[Arg(t)] \in {"partial", "whole"}
    BY DEF FrameStillThere
  <2>1. /\ todo[t] # <<>> /\ todo[t][1].op \in {"deliver", "push"}
        /\ Arg(t) = todo[t][1].on
    BY AtFacts DEF Typed
  <2>2. todo[t] \in Seq(Instrs)
    BY DEF Typed, TodoOK
  <2>3. todo[t][1] \in Range(todo[t])
    <3> DEFINE s == todo[t]
    <3>1. s \in Seq(Instrs) /\ s # <<>>
      BY <2>1, <2>2
    <3> HIDE DEF s
    <3>2. Len(s) \in Nat \ {0}
      BY <3>1, EmptySeq
    <3>3. 1 \in 1..Len(s)
      BY <3>2
    <3>4. s[1] \in Range(s)
      BY <3>1, <3>3, PlacesOfSeq
    <3> QED BY <3>4 DEF s
  <2> QED BY <2>1, <2>3 DEF FramesOut
<1> QED BY <1>1, <1>2, <1>3, <1>4, LockInvInitially, TypedInvariance, PTL DEF Spec

------------------------------------------------------------------------------
(***************************************************************************)
(* The receiver that is deleted.                                           *)
(***************************************************************************)
CalledBack(w) == Range(w.onSend) \cup Range(w.onReceive) \cup Range(w.onNack)
OnMenus(w) == UNION {w.menu[t] : t \in Apps}

\* A receiver is ended by a call of the application's own, not by one from a
\* callback, and one that is ended by its handle is used by its handle only.
EndedByHandle ==
    \A w \in Wirings :
      /\ "efp_end_receive" \notin CalledBack(w)
      /\ "efp_end_receive" \in OnMenus(w) =>
           (CalledBack(w) \cup OnMenus(w)) \cap {"receive", "poll", "stop"} = {}

\* The program may end its receiver.
Ends == "efp_end_receive" \in OnMenus(wiring)

\* All that is done inside a receiver, the two loops and stop included.
InsideOps == ReceiverOps \cup {"join", "sleep", "wake"}
StopOps == {"stop", "notifyAll", "join"}
Outside(s) == \A y \in Range(s) : y.op \notin InsideOps

DeleteReceiver == Do("delete", "receiver")

LEMMA HandleFacts ==
    ASSUME EndedByHandle, wiring \in Wirings
    PROVE  /\ \A i \in DOMAIN wiring.onSend :
                /\ wiring.onSend[i] # "efp_end_receive"
                /\ Ends => wiring.onSend[i] \notin {"receive", "poll", "stop"}
           /\ \A i \in DOMAIN wiring.onReceive :
                /\ wiring.onReceive[i] # "efp_end_receive"
                /\ Ends => wiring.onReceive[i] \notin {"receive", "poll", "stop"}
           /\ \A i \in DOMAIN wiring.onNack :
                /\ wiring.onNack[i] # "efp_end_receive"
                /\ Ends => wiring.onNack[i] \notin {"receive", "poll", "stop"}
           /\ \A t \in Apps : \A call \in wiring.menu[t] :
                /\ call = "efp_end_receive" => Ends
                /\ Ends => call \notin {"receive", "poll", "stop"}
  BY DEF EndedByHandle, CalledBack, OnMenus, Ends, Range

LEMMA NeedsInside ==
    ASSUME NEW call \in Calls, NEW p, NEW y \in Needs(call, p)
    PROVE  /\ y.op = "endReceive" => call = "efp_end_receive"
           /\ y.op # "delete"
           /\ y.op \in InsideOps => call \in {"receive", "poll", "stop"}
           /\ y.op \in StopOps => call = "stop"
<1> USE DoFacts DEF InsideOps, ReceiverOps, StopOps
<1>1. CASE call = "send"
  BY <1>1 DEF Needs
<1>2. CASE call = "receiveNack"
  BY <1>2 DEF Needs
<1>3. CASE call = "processRetransmits"
  BY <1>3 DEF Needs
<1>4. CASE call = "receive"
  BY <1>4 DEF Needs
<1>5. CASE call = "poll"
  BY <1>5 DEF Needs
<1>6. CASE call = "stop"
  BY <1>6 DEF Needs
<1>7. CASE call = "efp_send_data"
  BY <1>7 DEF Needs
<1>8. CASE call = "efp_receive_fragment"
  BY <1>8 DEF Needs
<1>9. CASE call = "efp_end_send"
  BY <1>9 DEF Needs
<1>10. CASE call = "efp_end_receive"
  BY <1>10 DEF Needs
<1> QED BY <1>1, <1>2, <1>3, <1>4, <1>5, <1>6, <1>7, <1>8, <1>9, <1>10
        DEF Calls, Carrying

\* What a callback leaves to do.
OfCallback(y) ==
    /\ y.op # "endReceive" /\ y.op # "delete"
    /\ Ends => y.op \notin InsideOps

LEMMA CallbacksInside ==
    ASSUME EndedByHandle, wiring \in Wirings, NEW p
    PROVE  /\ \A y \in CallsNeed(wiring.onSend, p) : OfCallback(y)
           /\ \A y \in CallsNeed(wiring.onReceive, p) : OfCallback(y)
           /\ \A y \in CallsNeed(wiring.onNack, p) : OfCallback(y)
<1>1. ASSUME NEW call \in Calls, call # "efp_end_receive",
             Ends => call \notin {"receive", "poll", "stop"},
             NEW y \in Needs(call, p)
      PROVE  OfCallback(y)
  BY <1>1, NeedsInside DEF OfCallback
<1>2. /\ \A i \in DOMAIN wiring.onSend : wiring.onSend[i] \in Calls
      /\ \A i \in DOMAIN wiring.onReceive : wiring.onReceive[i] \in Calls
      /\ \A i \in DOMAIN wiring.onNack : wiring.onNack[i] \in Calls
  BY WiredCalls
<1>3. \A y \in CallsNeed(wiring.onSend, p) : OfCallback(y)
  BY <1>1, <1>2, HandleFacts DEF CallsNeed
<1>4. \A y \in CallsNeed(wiring.onReceive, p) : OfCallback(y)
  BY <1>1, <1>2, HandleFacts DEF CallsNeed
<1>5. \A y \in CallsNeed(wiring.onNack, p) : OfCallback(y)
  BY <1>1, <1>2, HandleFacts DEF CallsNeed
<1> QED BY <1>3, <1>4, <1>5

\* What may come of an instruction.
LEMMA MakesInside ==
    ASSUME EndedByHandle, wiring \in Wirings, NEW x \in Instrs,
           NEW y \in Makes(x)
    PROVE  /\ y.op # "endReceive"
           /\ y = DeleteReceiver => x.op = "endReceive"
           /\ Ends /\ x.op \notin InsideOps \cup {"findReceiver", "endReceive"}
                => y.op \notin InsideOps
           /\ Ends /\ x.op \notin {"stop", "endReceive"} => y.op \notin StopOps
<1> USE DoFacts DEF InsideOps, ReceiverOps, StopOps, DeleteReceiver
<1>a. ASSUME OfCallback(y)
      PROVE  /\ y.op # "endReceive"
             /\ y # DeleteReceiver
             /\ Ends => y.op \notin InsideOps /\ y.op \notin StopOps
  BY <1>a DEF OfCallback
<1>1. CASE x.op = "sendCallback"
  BY <1>1, <1>a, CallbacksInside DEF Makes
<1>2. CASE x.op = "retransmit"
  BY <1>2 DEF Makes
<1>3. CASE x.op = "processNacks"
  BY <1>3 DEF Makes
<1>4. CASE x.op = "nack"
  <2>1. OfCallback(y) \/ y = Do("sent", x.on)
    BY <1>4, CallbacksInside DEF Makes
  <2> QED BY <1>4, <1>a, <2>1
<1>5. CASE x.op = "collect"
  BY <1>5 DEF Makes
<1>6. CASE x.op = "deliver"
  <2>1. y \in {Do("lock", mDeliveryMutex), Do("push", x.on),
               Do("unlock", mDeliveryMutex), Do("erase", x.on),
               Do("callback", x.on)}
    BY <1>6 DEF Makes
  <2> QED BY <1>6, <2>1
<1>7. CASE x.op = "callback"
  BY <1>7, <1>a, CallbacksInside DEF Makes
<1>8. CASE x.op \in {"await", "sleep"}
  BY <1>8 DEF Makes
<1>9. CASE x.op = "wake"
  BY <1>9 DEF Makes
<1>10. CASE x.op = "take"
  BY <1>10 DEF Makes
<1>11. CASE x.op = "stop"
  BY <1>11 DEF Makes
<1>12. CASE x.op = "findSender"
  <2>1. "send" \in Calls /\ y \in Needs("send", x.on)
    BY <1>12 DEF Makes, Calls, Carrying
  <2> QED BY <1>12, <2>1, NeedsInside
<1>13. CASE x.op = "findReceiver"
  <2>1. "receive" \in Calls /\ y \in Needs("receive", x.on)
    BY <1>13 DEF Makes, Calls, Carrying
  <2> QED BY <1>13, <2>1, NeedsInside
<1>14. CASE x.op = "endReceive"
  BY <1>14 DEF Makes
<1>15. CASE x.op = "endSend"
  BY <1>15 DEF Makes
<1>16. CASE x.op \in {"lock", "unlock", "fragment", "request", "sent", "push",
                      "erase", "join", "delete", "notifyAll"}
  BY <1>16 DEF Makes
<1> QED BY <1>1, <1>2, <1>3, <1>4, <1>5, <1>6, <1>7, <1>8, <1>9, <1>10,
           <1>11, <1>12, <1>13, <1>14, <1>15, <1>16, InstrFacts

LEMMA ExpandInside ==
    ASSUME EndedByHandle, wiring \in Wirings, NEW x \in Instrs,
           NEW b \in Expand(x)
    PROVE  \A y \in Range(b) :
             /\ y.op # "endReceive"
             /\ y = DeleteReceiver => x.op = "endReceive"
             /\ Ends /\ x.op \notin InsideOps \cup {"findReceiver", "endReceive"}
                  => y.op \notin InsideOps
             /\ Ends /\ x.op \notin {"stop", "endReceive"}
                  => y.op \notin StopOps
<1>1. b \in Seq(Makes(x))
  BY ExpandMakes
<1>2. Range(b) \subseteq Makes(x)
  BY <1>1, PlacesOfSeq
<1> QED BY <1>2, MakesInside

\* Which steps take and give back.
LEMMA StepIsOf ==
    ASSUME Typed, NEW t \in Threads, Step(t), ~Unlock(t)
    PROVE  /\ todo[t][1].op \notin {"lock", "unlock"}
           /\ ~Sleep(t) => todo[t][1].op # "sleep"
<1> DEFINE Does(op) == /\ At(t, op) /\ op \notin {"lock", "unlock"}
                       /\ ~Sleep(t) => op # "sleep"
<1>2. \E op : Does(op)
  <2>1. CASE SendCallback(t) \/ Request(t)
    BY <2>1 DEF SendCallback, Request
  <2>2. CASE Retransmit(t) \/ Fragment(t)
    BY <2>2 DEF Retransmit, Fragment
  <2>3. CASE ProcessNacks(t) \/ Nack(t)
    BY <2>3 DEF ProcessNacks, Nack
  <2>4. CASE NackSent(t) \/ Collect(t)
    BY <2>4 DEF NackSent, Collect
  <2>5. CASE Deliver(t)
    BY <2>5 DEF Deliver
  <2>6. CASE Push(t) \/ Erase(t)
    BY <2>6 DEF Push, Erase
  <2>7. CASE ReceiveCallback(t) \/ Await(t)
    BY <2>7 DEF ReceiveCallback, Await
  <2>8. CASE Sleep(t) \/ Wake(t)
    BY <2>8 DEF Sleep, Wake
  <2>9. CASE Take(t)
    BY <2>9 DEF Take
  <2>10. CASE Stop(t) \/ NotifyAll(t)
    BY <2>10 DEF Stop, NotifyAll
  <2>11. CASE Join(t) \/ Delete(t)
    BY <2>11 DEF Join, Delete
  <2>12. CASE Find(t)
    BY <2>12 DEF Find
  <2> QED BY <2>1, <2>2, <2>3, <2>4, <2>5, <2>6,
             <2>7, <2>8, <2>9, <2>10, <2>11, <2>12 DEF Step
<1> QED BY <1>2, AtFacts DEF Typed

\* What comes of an instruction takes gHandlesMutex as often as it gives it
\* back, and never gives back one that it has not taken.
LEMMA ExpandKeepsHandles ==
    ASSUME wiring \in Wirings, NEW x \in Instrs, NEW b \in Expand(x),
           NEW d \in Nat
    PROVE  Frag(b, gHandlesMutex, d, d, {})
<1> DEFINE g == gHandlesMutex
<1>0. g \in Mutexes
  BY DEF Mutexes
<1>1. Guarded(g) = {"findSender", "findReceiver", "endSend", "endReceive",
                    "delete"}
  BY <1>0, GuardedFacts
<1>2. mDeliveryMutex # g
  BY DEF mDeliveryMutex, gHandlesMutex
<1>a. ASSUME NEW s, Frag(s, g, d, d, Guarded(g))
      PROVE  Frag(s, g, d, d, {})
  BY <1>a, FragWeaken
<1>b. ASSUME NEW call, Suits(call, x.on), b = Body(call, x.on)
      PROVE  Frag(b, g, d, d, {})
  <2>1. Frag(b, g, 0, 0, Guarded(g))
    BY <1>0, <1>b, FragBody
  <2>2. Frag(b, g, 0 + d, 0 + d, Guarded(g))
    BY <2>1, FragLift
  <2> QED BY <1>a, <2>2
<1>c. ASSUME b = <<>>
      PROVE  Frag(b, g, d, d, {})
  BY <1>c, FragEmpty
<1>d. ASSUME \A y \in Range(b) : y.op \in {"wake", "delete", "stop"}
                                   \/ y = Do("lock", mDeliveryMutex)
      PROVE  Frag(b, g, d, d, {})
  <2>1. b \in Seq(Instrs)
    BY ExpandTyped
  <2>2. ASSUME NEW y \in Range(b)
        PROVE  Change(y, g) = 0
    <3>1. CASE y.op \in {"wake", "delete"}
      BY <3>1, ChangePlain
    <3>2. CASE y.op = "stop"
      BY <1>2, <3>2, ChangeHanded
    <3>3. CASE y = Do("lock", mDeliveryMutex)
      BY <1>2, <3>3, ChangeLock
    <3> QED BY <1>d, <3>1, <3>2, <3>3
  <2> QED BY <2>1, <2>2, FragStill
<1> SUFFICES Frag(b, g, d, d, {})
  OBVIOUS
<1> HIDE DEF g
<1>3. CASE x.op \in {"lock", "unlock", "delete"}
  BY <1>3, <1>c DEF Expand
<1>4. CASE x.op = "sleep"
  <2>1. \A y \in Range(b) : y \in Makes(x)
    BY ExpandMakes, PlacesOfSeq
  <2>2. Makes(x) = {Do("wake", 0)}
    BY <1>4 DEF Makes
  <2> QED BY <1>d, <2>1, <2>2, DoFacts
<1>5. CASE x.op = "findSender"
  <2>1. Suits("send", x.on)
    BY <1>5, InstrFacts DEF Suits, Calls, Carrying
  <2>2. b = <<>> \/ b = Body("send", x.on)
    BY <1>5 DEF Expand
  <2> QED BY <1>b, <1>c, <2>1, <2>2
<1>6. CASE x.op = "findReceiver"
  <2>1. Suits("receive", x.on)
    BY <1>6, InstrFacts DEF Suits, Calls, Carrying
  <2>2. b = <<>> \/ b = Body("receive", x.on)
    BY <1>6 DEF Expand
  <2> QED BY <1>b, <1>c, <2>1, <2>2
<1>7. CASE x.op \in {"endReceive", "endSend"}
  <2>1. \A y \in Range(b) : y \in Makes(x)
    BY ExpandMakes, PlacesOfSeq
  <2>2. Makes(x) \subseteq {Do("lock", mDeliveryMutex), Do("stop", 0),
                            Do("delete", "receiver"), Do("delete", "sender")}
    BY <1>7 DEF Makes
  <2> QED BY <1>d, <2>1, <2>2, DoFacts
<1>8. CASE x.op \notin {"lock", "unlock", "sleep"} \cup Guarded(g)
  <2>1. Change(x, g) = 0
    <3>1. CASE x.op \in {"await", "take", "stop"}
      BY <1>2, <3>1, ChangeHanded
    <3>2. CASE x.op \notin {"await", "take", "stop"}
      BY <1>8, <3>2, ChangePlain
    <3> QED BY <3>1, <3>2
  <2>2. d + Change(x, g) \in Nat /\ d + Change(x, g) = d
    BY <2>1
  <2>3. Frag(b, g, d, d + Change(x, g), Guarded(g))
    BY <1>0, <1>8, <2>2, FragExpand
  <2> QED BY <1>a, <2>2, <2>3
<1> QED BY <1>1, <1>3, <1>4, <1>5, <1>6, <1>7, <1>8

\* How often each thread holds l when one has made a step.
LEMMA StepHolds ==
    ASSUME Typed, LockInv, NEW t \in Threads, Acquire(t) \/ Step(t),
           NEW l \in Mutexes
    PROVE  /\ Held(mutex', t, l) =
                IF todo[t][1].op \in {"lock", "unlock", "sleep"}
                  THEN Held(mutex, t, l) + Change(todo[t][1], l)
                ELSE Held(mutex, t, l)
           /\ Held(mutex', t, l) \in Nat
           /\ \A u \in Threads \ {t} : Held(mutex', u, l) = Held(mutex, u, l)
<1> DEFINE x == todo[t][1]
           Gone == IF x.op \in {"lock", "unlock", "sleep"} THEN Change(x, l) ELSE 0
           Fine == /\ Held(mutex', t, l) = Held(mutex, t, l) + Gone
                   /\ \A u \in Threads \ {t} :
                        Held(mutex', u, l) = Held(mutex, u, l)
<1>0. mutex \in [Mutexes -> [owner : Threads \cup {Nobody}, depth : Int]]
  BY DEF Typed, MutexOK
<1>1. mDeliveryMutex \in Mutexes
  BY DEF Mutexes
<1>2. todo[t] # <<>>
  BY StepExpands
<1>3. /\ Held(mutex, t, l) \in Nat /\ Held(mutex, t, l) + Change(x, l) \in Nat
      /\ Held(mutex, t, l) + Gone \in Nat
  BY <1>2, FirstFits DEF LockInv
<1> SUFFICES Fine
  BY <1>3
<1>a. ASSUME mutex'[l] = mutex[l], Gone = 0
      PROVE  Fine
  <2>1. \A u : Held(mutex', u, l) = Held(mutex, u, l)
    BY <1>a DEF Held
  <2> HIDE DEF Gone
  <2> QED BY <1>3, <1>a, <2>1
<1>b. ASSUME NEW m \in Mutexes, mutex' = Released(m),
             Gone = IF m = l THEN -1 ELSE 0
      PROVE  Fine
  <2> HIDE DEF Gone
  <2>1. CASE m = l
    <3>1. Held(mutex, t, l) >= 1 /\ Gone = -1
      BY <1>3, <1>b, <2>1
    <3>2. /\ Held(mutex', t, l) = Held(mutex, t, l) - 1
          /\ \A u \in Threads \ {t} : Held(mutex', u, l) = Held(mutex, u, l)
      BY <1>b, <2>1, <3>1, ReleasedFacts DEF LockInv
    <3> QED BY <1>3, <3>1, <3>2
  <2>2. CASE m # l
    <3>1. mutex'[l] = mutex[l] /\ Gone = 0
      BY <1>0, <1>b, <2>2 DEF Released
    <3> QED BY <1>a, <3>1
  <2> QED BY <2>1, <2>2
<1>4. CASE Acquire(t)
  <2>1. /\ At(t, "lock") /\ Free(t, Arg(t))
        /\ mutex' = [mutex EXCEPT ![Arg(t)] =
                       [owner |-> t, depth |-> mutex[Arg(t)].depth + 1]]
    BY <1>4 DEF Acquire
  <2>2. x = Do("lock", Arg(t)) /\ x.op = "lock"
    BY <2>1, AtFacts DEF Typed
  <2>3. CASE Arg(t) = l
    <3>1. mutex'[l].owner = t /\ mutex'[l].depth = mutex[l].depth + 1
      BY <1>0, <2>1, <2>3
    <3>2. /\ mutex[l].owner = Nobody => mutex[l].depth = 0
          /\ mutex[l].owner = Nobody \/ mutex[l].owner = t
      BY <2>1, <2>3 DEF LockInv, MutexInv, Free
    <3>3. Gone = 1
      BY <2>2, <2>3, ChangeLock
    <3>4. mutex[l].depth \in Nat
      BY DEF LockInv, MutexInv
    <3> HIDE DEF Gone
    <3> QED BY <3>1, <3>2, <3>3, <3>4, NobodyApart DEF Held
  <2>4. CASE Arg(t) # l
    <3>1. mutex'[l] = mutex[l]
      BY <1>0, <2>1, <2>4
    <3>2. Gone = 0
      BY <2>2, <2>4, ChangeLock
    <3> QED BY <1>a, <3>1, <3>2
  <2> QED BY <2>3, <2>4
<1>5. CASE Unlock(t)
  <2>1. At(t, "unlock") /\ mutex' = Released(Arg(t))
    BY <1>5 DEF Unlock
  <2>2. x = Do("unlock", Arg(t)) /\ x.op = "unlock" /\ Arg(t) \in Mutexes
    BY <2>1, AtFacts, InstrFacts DEF Typed
  <2>3. Gone = IF Arg(t) = l THEN -1 ELSE 0
    BY <2>2, ChangeLock
  <2> QED BY <1>b, <2>1, <2>2, <2>3
<1>6. CASE Sleep(t)
  <2>1. At(t, "sleep") /\ mutex' = Released(mDeliveryMutex)
    BY <1>6 DEF Sleep
  <2>2. x.op = "sleep"
    BY <2>1, AtFacts DEF Typed
  <2>3. Gone = IF mDeliveryMutex = l THEN -1 ELSE 0
    BY <2>2, ChangeHanded
  <2> QED BY <1>1, <1>b, <2>1, <2>3
<1>7. CASE Step(t) /\ ~Unlock(t) /\ ~Sleep(t)
  <2>1. mutex' = mutex
    BY <1>7 DEF Step, SendCallback, Request, Retransmit,
         Fragment, ProcessNacks, Nack, NackSent, Collect, Deliver, Push,
         Erase, ReceiveCallback, Await, Wake, Take, Stop, NotifyAll,
         Join, Find, Delete
  <2>2. x.op \notin {"lock", "unlock", "sleep"}
    BY <1>7, StepIsOf
  <2> QED BY <1>a, <2>1, <2>2
<1> QED BY <1>4, <1>5, <1>6, <1>7

LEMMA StepHandles ==
    ASSUME Typed, LockInv, NEW t \in Threads, Acquire(t) \/ Step(t)
    PROVE  /\ Held(mutex', t, gHandlesMutex) =
                Held(mutex, t, gHandlesMutex) + Change(todo[t][1], gHandlesMutex)
           /\ Held(mutex', t, gHandlesMutex) \in Nat
           /\ \A u \in Threads \ {t} :
                Held(mutex', u, gHandlesMutex) = Held(mutex, u, gHandlesMutex)
<1> DEFINE g == gHandlesMutex
           x == todo[t][1]
<1>1. g \in Mutexes /\ mDeliveryMutex # g
  BY DEF Mutexes, mDeliveryMutex, gHandlesMutex
<1>2. ASSUME x.op \notin {"lock", "unlock", "sleep"}
      PROVE  Change(x, g) = 0
  <2>1. CASE x.op \in {"await", "take", "stop"}
    BY <1>1, <2>1, ChangeHanded
  <2>2. CASE x.op \notin {"await", "take", "stop"}
    BY <1>2, <2>2, ChangePlain
  <2> QED BY <2>1, <2>2
<1>3. todo[t] # <<>>
  BY StepExpands
<1>4. Held(mutex, t, g) \in Nat
  BY <1>1, <1>3, FirstFits DEF LockInv
<1>5. /\ Held(mutex', t, g) = IF x.op \in {"lock", "unlock", "sleep"}
                                THEN Held(mutex, t, g) + Change(x, g)
                              ELSE Held(mutex, t, g)
      /\ Held(mutex', t, g) \in Nat
      /\ \A u \in Threads \ {t} : Held(mutex', u, g) = Held(mutex, u, g)
  BY <1>1, StepHolds
<1> HIDE DEF g, x
<1>6. Held(mutex', t, g) = Held(mutex, t, g) + Change(x, g)
  <2>1. CASE x.op \in {"lock", "unlock", "sleep"}
    BY <1>5, <2>1
  <2>2. CASE x.op \notin {"lock", "unlock", "sleep"}
    BY <1>2, <1>4, <1>5, <2>2
  <2> QED BY <2>1, <2>2
<1> QED BY <1>5, <1>6 DEF g, x

LEMMA FirstIsThere ==
    ASSUME NEW s \in Seq(Instrs), s # <<>>
    PROVE  s[1] \in Range(s)
<1>1. Len(s) \in Nat \ {0}
  BY EmptySeq
<1>2. 1 \in 1..Len(s)
  BY <1>1
<1> QED BY <1>2, PlacesOfSeq

LEMMA RangeJoined ==
    ASSUME NEW s \in Seq(Instrs), NEW r \in Seq(Instrs)
    PROVE  Range(s \o r) \subseteq Range(s) \cup Range(r)
<1> DEFINE w == s \o r
<1>1. IsSeq(s) /\ IsSeq(r) /\ w \in Seq(Instrs)
  BY SeqIsSeq, SmallSeqs
<1>2. /\ Len(w) = Len(s) + Len(r)
      /\ \A i \in 1..Len(s) : w[i] = s[i]
      /\ \A i \in 1..Len(r) : w[Len(s) + i] = r[i]
  BY <1>1, ConcatFacts
<1>3. /\ Range(w) = {w[i] : i \in 1..Len(w)}
      /\ Range(s) = {s[i] : i \in 1..Len(s)} /\ Len(s) \in Nat
      /\ Range(r) = {r[i] : i \in 1..Len(r)} /\ Len(r) \in Nat
  BY <1>1, PlacesOfSeq
<1> HIDE DEF w
<1>4. ASSUME NEW i \in 1..Len(w)
      PROVE  w[i] \in Range(s) \cup Range(r)
  <2>1. CASE i <= Len(s)
    <3>1. i \in 1..Len(s)
      BY <2>1
    <3> QED BY <1>2, <1>3, <3>1
  <2>2. CASE ~(i <= Len(s))
    <3> DEFINE k == i - Len(s)
    <3>1. k \in 1..Len(r) /\ i = Len(s) + k
      BY <1>2, <1>3, <2>2
    <3> HIDE DEF k
    <3> QED BY <1>2, <1>3, <3>1
  <2> QED BY <2>1, <2>2
<1> QED BY <1>3, <1>4 DEF w

\* A thread that holds gHandlesMutex a times is inside the receiver, if at all,
\* for as long as it holds it.
HeldInside(s, a) ==
    \/ Outside(s)
    \/ /\ a >= 1
       /\ \E r \in Seq(Instrs), q \in Seq(Instrs), c \in Nat :
            /\ s = r \o q
            /\ Frag(r, gHandlesMutex, a - 1, c, {})
            /\ Outside(q)

LEMMA EmptyJoined ==
    ASSUME NEW s, IsSeq(s)
    PROVE  <<>> \o s = s
  BY ConcatEmptySeq DEF IsSeq

\* The tail of two sequences joined.
LEMMA TailJoined ==
    ASSUME NEW r, NEW q, IsSeq(r), IsSeq(q), r # <<>>
    PROVE  /\ Tail(r \o q) = Tail(r) \o q
           /\ (r \o q)[1] = r[1]
<1> DEFINE s == r \o q
           u == Tail(r)
           v == Tail(s)
           w == u \o q
<1>1. /\ IsSeq(s) /\ Len(s) = Len(r) + Len(q)
      /\ \A i \in 1..Len(r) : s[i] = r[i]
      /\ \A i \in 1..Len(q) : s[Len(r) + i] = q[i]
  BY ConcatFacts
<1>2. /\ IsSeq(u) /\ Len(r) >= 1 /\ Len(u) = Len(r) - 1
      /\ \A i \in 1..(Len(r) - 1) : u[i] = r[i + 1]
  BY TailFacts
<1>3. Len(r) \in Nat /\ Len(q) \in Nat
  BY LenIsNat
<1> HIDE DEF s, u
<1>4. s # <<>>
  BY <1>1, <1>2, <1>3, EmptyIsSeq
<1>5. /\ IsSeq(v) /\ Len(v) = Len(s) - 1
      /\ \A i \in 1..(Len(s) - 1) : v[i] = s[i + 1]
  BY <1>1, <1>4, TailFacts
<1>6. /\ IsSeq(w) /\ Len(w) = Len(u) + Len(q)
      /\ \A i \in 1..Len(u) : w[i] = u[i]
      /\ \A i \in 1..Len(q) : w[Len(u) + i] = q[i]
  <2>1. IsSeq(u) /\ IsSeq(q)
    BY <1>2
  <2> QED BY ONLY <2>1, ConcatFacts
<1> HIDE DEF v, w
<1>7. Len(v) = Len(w)
  BY <1>1, <1>2, <1>3, <1>5, <1>6
<1>8. ASSUME NEW i \in 1..Len(v)
      PROVE  v[i] = w[i]
  <2>1. i \in 1..(Len(s) - 1) /\ v[i] = s[i + 1]
    BY <1>1, <1>3, <1>5
  <2>2. CASE i <= Len(u)
    <3>1. i \in 1..Len(u) /\ i \in 1..(Len(r) - 1) /\ i + 1 \in 1..Len(r)
      BY <1>2, <1>3, <2>2
    <3> QED BY <1>1, <1>2, <1>6, <2>1, <3>1
  <2>3. CASE ~(i <= Len(u))
    <3> DEFINE k == i - Len(u)
    <3>1. k \in 1..Len(q) /\ i = Len(u) + k /\ i + 1 = Len(r) + k
      BY <1>1, <1>2, <1>3, <2>1, <2>3
    <3> HIDE DEF k
    <3> QED BY <1>1, <1>6, <2>1, <3>1
  <2> QED BY <2>2, <2>3
<1>9. v = w
  BY <1>5, <1>6, <1>7, <1>8, SameSeq
<1>10. 1 \in 1..Len(r)
  BY <1>2, <1>3
<1>11. s[1] = r[1]
  BY <1>1, <1>10
<1> QED BY <1>9, <1>11 DEF s, u, v, w

LEMMA TailOutside ==
    ASSUME NEW s \in Seq(Instrs), s # <<>>, Outside(s)
    PROVE  Tail(s) \in Seq(Instrs) /\ Outside(Tail(s))
<1> DEFINE q == Tail(s)
<1>1. q \in Seq(Instrs)
  BY HeadTailProperties
<1>2. IsSeq(s)
  BY SeqIsSeq
<1>3. /\ Len(q) = Len(s) - 1
      /\ \A i \in 1..(Len(s) - 1) : q[i] = s[i + 1]
  BY <1>2, TailFacts
<1>4. /\ Range(s) = {s[i] : i \in 1..Len(s)} /\ Len(s) \in Nat
      /\ Range(q) = {q[i] : i \in 1..Len(q)}
  BY <1>1, PlacesOfSeq
<1> HIDE DEF q
<1>5. ASSUME NEW i \in 1..Len(q)
      PROVE  q[i] \in Range(s)
  <2>1. i \in 1..(Len(s) - 1) /\ i + 1 \in 1..Len(s)
    BY <1>3, <1>4
  <2> QED BY <1>3, <1>4, <2>1
<1>6. Range(q) \subseteq Range(s)
  BY <1>4, <1>5
<1> QED BY <1>1, <1>6 DEF Outside, q

\* One step of a thread, once only the handle leads into the receiver.
LEMMA HeldInsideStep ==
    ASSUME EndedByHandle, wiring \in Wirings, Ends,
           NEW s \in Seq(Instrs), s # <<>>, s[1] \in Instrs,
           NEW b \in Expand(s[1]), NEW a \in Nat,
           s[1].op \in Guarded(gHandlesMutex) => a >= 1,
           a + Change(s[1], gHandlesMutex) \in Nat,
           HeldInside(s, a)
    PROVE  HeldInside(b \o Tail(s), a + Change(s[1], gHandlesMutex))
<1> DEFINE g == gHandlesMutex
           x == s[1]
           d == a + Change(x, g)
<1>0. d \in Nat /\ Change(x, g) \in {-1, 0, 1}
  BY ChangeIsInt
<1>1. b \in Seq(Instrs) /\ IsSeq(b) /\ IsSeq(s)
  BY ExpandTyped, SeqIsSeq
<1>2. Tail(s) \in Seq(Instrs) /\ IsSeq(Tail(s))
  BY HeadTailProperties, SeqIsSeq
<1> SUFFICES HeldInside(b \o Tail(s), d)
  OBVIOUS
<1>3. CASE Outside(s)
  <2>1. Outside(Tail(s))
    BY <1>3, TailOutside
  <2>2. x \in Range(s)
    BY <1>1, FirstIsThere
  <2>3. CASE x.op \notin {"findReceiver", "endReceive"}
    <3>1. x.op \notin InsideOps
      BY <1>3, <2>2 DEF Outside
    <3>2. \A y \in Range(b) : y.op \notin InsideOps
      BY <2>3, <3>1, ExpandInside
    <3>3. Outside(b \o Tail(s))
      BY <1>1, <1>2, <2>1, <3>2, RangeJoined DEF Outside
    <3> QED BY <3>3 DEF HeldInside
  <2>4. CASE x.op \in {"findReceiver", "endReceive"}
    <3>1. x.op \in Guarded(g)
      BY <2>4, GuardedFacts DEF Mutexes
    <3>2. Change(x, g) = 0
      BY <2>4, ChangePlain
    <3>3. a >= 1 /\ d = a /\ d - 1 \in Nat
      BY <3>1, <3>2
    <3>4. Frag(b, g, d - 1, d - 1, {})
      BY <3>3, ExpandKeepsHandles
    <3> HIDE DEF d
    <3> QED BY <1>1, <1>2, <2>1, <3>3, <3>4 DEF HeldInside
  <2> QED BY <2>3, <2>4
<1>4. CASE /\ a >= 1
           /\ \E r \in Seq(Instrs), q \in Seq(Instrs), c \in Nat :
                /\ s = r \o q
                /\ Frag(r, g, a - 1, c, {})
                /\ Outside(q)
  <2>1. PICK r \in Seq(Instrs), q \in Seq(Instrs), c \in Nat :
               s = r \o q /\ Frag(r, g, a - 1, c, {}) /\ Outside(q)
    BY <1>4
  <2>2. IsSeq(r) /\ IsSeq(q)
    BY SeqIsSeq
  <2>3. CASE r = <<>>
    <3>1. s = q
      BY <2>1, <2>2, <2>3, EmptyJoined
    <3> QED BY <1>3, <2>1, <3>1
  <2>4. CASE r # <<>>
    <3>1. Tail(s) = Tail(r) \o q /\ x = r[1]
      BY <2>1, <2>2, <2>4, TailJoined
    <3>2. /\ (a - 1) + Change(r[1], g) \in Nat
          /\ Frag(Tail(r), g, (a - 1) + Change(r[1], g), c, {})
      BY <2>1, <2>4, FragTail
    <3>3. d - 1 = (a - 1) + Change(x, g) /\ d - 1 \in Nat /\ d >= 1
      BY <1>0, <3>1, <3>2
    <3>4. Frag(b, g, d - 1, d - 1, {})
      BY <3>3, ExpandKeepsHandles
    <3>5. Frag(Tail(r), g, d - 1, c, {})
      BY <3>1, <3>2, <3>3
    <3> HIDE DEF d
    <3>6. Frag(b \o Tail(r), g, d - 1, c, {})
      BY <3>4, <3>5, FragCat
    <3>7. b \o Tail(r) \in Seq(Instrs) /\ IsSeq(Tail(r))
      BY <3>5, <3>6, FragEnds, SeqIsSeq
    <3>8. b \o Tail(s) = (b \o Tail(r)) \o q
      <4> DEFINE u == Tail(r)
      <4>1. IsSeq(b) /\ IsSeq(u) /\ IsSeq(q)
        BY <1>1, <2>2, <3>7
      <4> HIDE DEF u
      <4>2. (b \o u) \o q = b \o (u \o q)
        BY ONLY <4>1, ConcatAssoc
      <4> QED BY <3>1, <4>2 DEF u
    <3> QED BY <2>1, <3>3, <3>6, <3>7, <3>8 DEF HeldInside
  <2> QED BY <2>3, <2>4
<1> QED BY <1>3, <1>4 DEF HeldInside

\* The end of a receiver: stop comes before it is deleted, and the thread that
\* deletes it leaves it with that.
IsEnd(y) == y.op = "endReceive" \/ y = DeleteReceiver

EndsLast(s) ==
    \A i, j \in 1..Len(s) : IsEnd(s[i]) /\ i < j => s[j].op \notin InsideOps

StopFirst(s) ==
    \A i \in 1..Len(s) : s[i] = DeleteReceiver =>
      \E j \in 1..Len(s) : j < i /\ s[j].op = "stop"

LEMMA EndShape ==
    ASSUME NEW x \in Instrs, x.op = "endReceive", NEW b \in Expand(x),
           b # <<>>
    PROVE  /\ Len(b) = 5 /\ b[2].op = "stop"
           /\ \A i \in 1..4 : b[i] # DeleteReceiver
<1> DEFINE p == Do("lock", mDeliveryMutex)
           v == Do("stop", 0)
           u == <<p, v>>
           w == u \o u
           e == <<DeleteReceiver>>
           c == w \o e
<1>1. b = c
  BY DEF Expand, StopBody, DeleteReceiver
<1>2. p \in Instrs /\ v \in Instrs /\ DeleteReceiver \in Instrs
  BY DoIsInstr DEF Mutexes, DeleteReceiver
<1>3. p # DeleteReceiver /\ v # DeleteReceiver /\ v.op = "stop"
  BY DoFacts DEF DeleteReceiver
<1> HIDE DEF p, v
<1>4. u \in Seq(Instrs) /\ Len(u) = 2 /\ u[1] = p /\ u[2] = v
      /\ e \in Seq(Instrs) /\ Len(e) = 1
  BY <1>2, SmallSeqs
<1>5. IsSeq(u) /\ IsSeq(e)
  BY <1>4, SeqIsSeq
<1> HIDE DEF u, e
<1>6. /\ IsSeq(w) /\ Len(w) = Len(u) + Len(u)
      /\ \A i \in 1..Len(u) : w[i] = u[i]
      /\ \A i \in 1..Len(u) : w[Len(u) + i] = u[i]
  BY ONLY <1>5, ConcatFacts
<1>7. Len(w) = 4 /\ w[1] = p /\ w[2] = v /\ w[2 + 1] = p /\ w[2 + 2] = v
  BY <1>4, <1>6
<1> HIDE DEF w
<1>8. /\ Len(c) = Len(w) + Len(e)
      /\ \A i \in 1..Len(w) : c[i] = w[i]
  BY ONLY <1>5, <1>6, ConcatFacts
<1>9. Len(c) = 5 /\ c[1] = p /\ c[2] = v /\ c[3] = p /\ c[4] = v
  BY <1>4, <1>7, <1>8
<1> HIDE DEF c
<1> QED BY <1>1, <1>3, <1>9

\* Where the ends are, a body in front of what was left.
LEMMA EndPlaces ==
    ASSUME EndedByHandle, Typed, NEW t \in Threads, todo[t] # <<>>,
           todo[t][1] \in Instrs, NEW b \in Expand(todo[t][1]), Goes(t, b),
           NEW i \in 1..Len(todo'[t]), IsEnd(todo'[t][i])
    PROVE  \/ /\ todo[t][1].op = "endReceive" /\ i = 5 /\ Len(b) = 5
              /\ b[2].op = "stop" /\ todo'[t][i] = b[i]
           \/ \E k \in 2..Len(todo[t]) :
                i = Len(b) + k - 1 /\ todo'[t][i] = todo[t][k]
<1> DEFINE x == todo[t][1]
<1>1. wiring \in Wirings /\ b \in Seq(Instrs)
  BY ExpandTyped DEF Typed, TodoOK
<1>2. CASE i \in 1..Len(b) /\ todo'[t][i] = b[i]
  <2>1. b[i] \in Range(b)
    BY <1>1, <1>2, PlacesOfSeq
  <2>2. b[i] = DeleteReceiver /\ x.op = "endReceive"
    BY <1>1, <1>2, <2>1, ExpandInside DEF IsEnd
  <2>3. b # <<>>
    BY <1>2
  <2>4. Len(b) = 5 /\ b[2].op = "stop" /\ (i \notin 1..4)
    BY <2>2, <2>3, EndShape
  <2>5. i = 5
    BY <1>2, <2>4
  <2> QED BY <1>2, <2>2, <2>4, <2>5
<1>3. CASE \E k \in 2..Len(todo[t]) :
             i = Len(b) + k - 1 /\ todo'[t][i] = todo[t][k]
  BY <1>3
<1> QED BY <1>1, <1>2, <1>3, GoesPlaces DEF Typed

LEMMA EndsLastStep ==
    ASSUME EndedByHandle, Typed, NEW t \in Threads, todo[t] # <<>>,
           todo[t][1] \in Instrs, NEW b \in Expand(todo[t][1]), Goes(t, b),
           EndsLast(todo[t])
    PROVE  EndsLast(todo'[t])
<1> SUFFICES ASSUME NEW i \in 1..Len(todo'[t]), NEW j \in 1..Len(todo'[t]),
                    IsEnd(todo'[t][i]), i < j
             PROVE  todo'[t][j].op \notin InsideOps
  BY DEF EndsLast
<1>1. wiring \in Wirings /\ b \in Seq(Instrs)
  BY ExpandTyped DEF Typed, TodoOK
<1>2. /\ Len(b) \in Nat /\ Len(todo[t]) \in Nat \ {0}
      /\ Len(todo'[t]) = Len(b) + Len(todo[t]) - 1
      /\ \A k \in 2..Len(todo[t]) : todo'[t][Len(b) + k - 1] = todo[t][k]
  BY <1>1, GoesFacts DEF Typed
<1>a. ASSUME NEW k \in 1..Len(todo[t]), IsEnd(todo[t][k]), i >= Len(b) + k - 1,
             j > Len(b)
      PROVE  todo'[t][j].op \notin InsideOps
  <2> DEFINE m == j - Len(b) + 1
  <2>1. m \in 2..Len(todo[t]) /\ m \in 1..Len(todo[t]) /\ k < m
        /\ j = Len(b) + m - 1
    BY <1>2, <1>a
  <2> HIDE DEF m
  <2>2. todo'[t][j] = todo[t][m]
    BY <1>2, <2>1
  <2> QED BY <1>a, <2>1, <2>2 DEF EndsLast
<1>3. CASE todo[t][1].op = "endReceive" /\ i = 5 /\ Len(b) = 5
  <2>1. 1 \in 1..Len(todo[t]) /\ IsEnd(todo[t][1])
    BY <1>2, <1>3 DEF IsEnd
  <2>2. i >= Len(b) + 1 - 1 /\ j > Len(b)
    BY <1>3
  <2> QED BY <1>a, <2>1, <2>2
<1>4. CASE \E k \in 2..Len(todo[t]) :
             i = Len(b) + k - 1 /\ todo'[t][i] = todo[t][k]
  <2>1. PICK k \in 2..Len(todo[t]) :
               i = Len(b) + k - 1 /\ todo'[t][i] = todo[t][k]
    BY <1>4
  <2>2. /\ k \in 1..Len(todo[t]) /\ IsEnd(todo[t][k]) /\ i >= Len(b) + k - 1
        /\ j > Len(b)
    BY <1>2, <2>1
  <2> QED BY <1>a, <2>2
<1> QED BY <1>3, <1>4, EndPlaces

LEMMA StopFirstStep ==
    ASSUME EndedByHandle, Typed, NEW t \in Threads, todo[t] # <<>>,
           todo[t][1] \in Instrs, NEW b \in Expand(todo[t][1]), Goes(t, b),
           todo[t][1].op # "stop", StopFirst(todo[t])
    PROVE  StopFirst(todo'[t])
<1> SUFFICES ASSUME NEW i \in 1..Len(todo'[t]), todo'[t][i] = DeleteReceiver
             PROVE  \E j \in 1..Len(todo'[t]) : j < i /\ todo'[t][j].op = "stop"
  BY DEF StopFirst
<1>1. wiring \in Wirings /\ b \in Seq(Instrs)
  BY ExpandTyped DEF Typed, TodoOK
<1>2. /\ Len(b) \in Nat /\ Len(todo[t]) \in Nat \ {0}
      /\ Len(todo'[t]) = Len(b) + Len(todo[t]) - 1
      /\ \A k \in 1..Len(b) : todo'[t][k] = b[k]
      /\ \A k \in 2..Len(todo[t]) : todo'[t][Len(b) + k - 1] = todo[t][k]
  BY <1>1, GoesFacts DEF Typed
<1>3. CASE i = 5 /\ Len(b) = 5 /\ b[2].op = "stop"
  <2>1. 2 \in 1..Len(todo'[t]) /\ 2 \in 1..Len(b) /\ 2 < i
    BY <1>2, <1>3
  <2> QED BY <1>2, <1>3, <2>1
<1>4. CASE \E k \in 2..Len(todo[t]) :
             i = Len(b) + k - 1 /\ todo'[t][i] = todo[t][k]
  <2>1. PICK k \in 2..Len(todo[t]) :
               i = Len(b) + k - 1 /\ todo'[t][i] = todo[t][k]
    BY <1>4
  <2>2. k \in 1..Len(todo[t]) /\ todo[t][k] = DeleteReceiver
    BY <1>2, <2>1
  <2>3. PICK m \in 1..Len(todo[t]) : m < k /\ todo[t][m].op = "stop"
    BY <2>2 DEF StopFirst
  <2>4. m # 1
    BY <2>3
  <2> DEFINE j == Len(b) + m - 1
  <2>5. m \in 2..Len(todo[t]) /\ j \in 1..Len(todo'[t]) /\ j < i
    BY <1>2, <2>1, <2>3, <2>4
  <2>6. todo'[t][j] = todo[t][m]
    BY <1>2, <2>5
  <2> HIDE DEF j
  <2> QED BY <2>3, <2>5, <2>6
<1> QED BY <1>3, <1>4, EndPlaces DEF IsEnd

\* What a call of the application puts in its thread.
LEMMA CallStaysOut ==
    ASSUME EndedByHandle, Typed, NEW t \in Apps, Call(t)
    PROVE  \E b \in Seq(Instrs) :
             /\ Starts(t, b)
             /\ Ends => Outside(b)
             /\ \A y \in Range(b) : y # DeleteReceiver /\ (IsEnd(y) => Ends)
<1>1. PICK call, p : /\ call \in wiring.menu[t] /\ Suits(call, p)
                     /\ Starts(t, Body(call, p))
  BY CallBegins DEF Begins
<1> DEFINE b == Body(call, p)
<1>2. b \in Seq(Instrs) /\ (\A y \in Range(b) : y \in Needs(call, p))
  BY <1>1, BodyOps
<1>3. call \in Calls /\ wiring \in Wirings
  BY <1>1 DEF Suits, Typed, TodoOK
<1>4. /\ call = "efp_end_receive" => Ends
      /\ Ends => call \notin {"receive", "poll", "stop"}
  BY <1>1, <1>3, HandleFacts
<1> HIDE DEF b
<1>5. ASSUME NEW y \in Range(b)
      PROVE  /\ Ends => y.op \notin InsideOps
             /\ y # DeleteReceiver /\ (IsEnd(y) => Ends)
  <2>1. /\ y.op = "endReceive" => call = "efp_end_receive"
        /\ y.op # "delete"
        /\ y.op \in InsideOps => call \in {"receive", "poll", "stop"}
    BY <1>2, <1>3, NeedsInside
  <2>2. y # DeleteReceiver
    BY <2>1, DoFacts DEF DeleteReceiver
  <2> QED BY <1>4, <2>1, <2>2 DEF IsEnd
<1>6. Ends => Outside(b)
  BY <1>5 DEF Outside
<1> QED BY <1>1, <1>2, <1>5, <1>6 DEF b

Loops == {"worker", "delivery"}

\* Before the receiver is deleted its threads are joined, an application thread
\* is inside it only with gHandlesMutex held, and its own threads do not stop
\* it.  Deleted, nobody is in it.
DeletionInv ==
    /\ \A w \in ended : todo[w] = <<>>
    /\ Ends => \A w \in Loops : \A y \in Range(todo[w]) :
                 y.op \notin StopOps \cup {"endReceive"}
    /\ Ends => \A u \in Apps :
                 HeldInside(todo[u], Held(mutex, u, gHandlesMutex))
    /\ \A t \in Threads :
         EndsLast(todo[t]) /\ \A y \in Range(todo[t]) : IsEnd(y) => Ends
    /\ mRunning => \A t \in Threads : StopFirst(todo[t])
    /\ "receiver" \notin handles =>
         Ends /\ Loops \subseteq ended /\ \A t \in Threads : Outside(todo[t])

LEMMA LoopsAreThreads ==
    /\ Loops \subseteq Threads /\ Apps \cap Loops = {}
    /\ Threads = Apps \cup Loops
  BY ThreadsAssumption DEF Loops, Threads

\* What a thread's step does to the life of the receiver.
LEMMA StepLife ==
    ASSUME Typed, NEW t \in Threads, Acquire(t) \/ Step(t)
    PROVE  /\ ended' = ended
           /\ mRunning' => mRunning /\ todo[t][1].op # "stop"
           /\ handles' = handles \/ Delete(t)
           /\ todo[t][1].op \in {"findReceiver", "endReceive"} =>
                "receiver" \in handles \/ Goes(t, <<>>)
<1>0. \A op : At(t, op) => todo[t][1].op = op
  BY AtFacts DEF Typed
<1>a. ASSUME NEW op, At(t, op), op \notin {"stop", "findReceiver", "endReceive"},
             mRunning' = mRunning, ended' = ended,
             handles' = handles \/ Delete(t)
      PROVE  /\ ended' = ended
             /\ mRunning' => mRunning /\ todo[t][1].op # "stop"
             /\ handles' = handles \/ Delete(t)
             /\ todo[t][1].op \notin {"findReceiver", "endReceive"}
  BY <1>0, <1>a
<1>1. CASE Acquire(t) \/ Unlock(t)
  BY <1>1, <1>a DEF Acquire, Unlock, app, life
<1>2. CASE SendCallback(t) \/ Request(t)
  BY <1>2, <1>a DEF SendCallback, Request, app, life
<1>3. CASE Retransmit(t) \/ Fragment(t)
  BY <1>3, <1>a DEF Retransmit, Fragment, app, life
<1>4. CASE ProcessNacks(t) \/ Nack(t)
  BY <1>4, <1>a DEF ProcessNacks, Nack, app, life
<1>5. CASE NackSent(t) \/ Collect(t)
  BY <1>5, <1>a DEF NackSent, Collect, app, life
<1>6. CASE Deliver(t)
  BY <1>6, <1>a DEF Deliver, app, life
<1>7. CASE Push(t) \/ Erase(t)
  BY <1>7, <1>a DEF Push, Erase, app, life
<1>8. CASE ReceiveCallback(t) \/ Await(t)
  BY <1>8, <1>a DEF ReceiveCallback, Await, app, life
<1>9. CASE Sleep(t) \/ Wake(t)
  BY <1>9, <1>a DEF Sleep, Wake, app, life
<1>10. CASE Take(t)
  BY <1>10, <1>a DEF Take, app, life
<1>11. CASE Stop(t)
  <2>1. At(t, "stop") /\ mRunning' = FALSE /\ ended' = ended /\ handles' = handles
    BY <1>11 DEF Stop, app
  <2> QED BY <1>0, <2>1
<1>12. CASE NotifyAll(t) \/ Join(t)
  BY <1>12, <1>a DEF NotifyAll, Join, app, life
<1>13. CASE Find(t)
  <2>1. /\ mRunning' = mRunning /\ ended' = ended /\ handles' = handles
        /\ \/ At(t, "findSender") \/ At(t, "endSend")
           \/ At(t, "findReceiver") /\ ("receiver" \in handles \/ Then(t, <<>>))
           \/ At(t, "endReceive") /\ ("receiver" \in handles \/ Then(t, <<>>))
    BY <1>13 DEF Find, app, life
  <2>2. todo[t][1].op \in {"findReceiver", "endReceive"} =>
          "receiver" \in handles \/ Goes(t, <<>>)
    BY <1>0, <2>1, ThenGoes
  <2>3. todo[t][1].op # "stop"
    BY <1>0, <2>1
  <2> QED BY <2>1, <2>2, <2>3
<1>14. CASE Delete(t)
  BY <1>14, <1>a DEF Delete, life
<1> QED
  BY <1>1, <1>2, <1>3, <1>4, <1>5, <1>6, <1>7, <1>8, <1>9, <1>10, <1>11,
     <1>12, <1>13, <1>14 DEF Step

\* The receiver is deleted.
LEMMA DeletedAlone ==
    ASSUME Typed, LockInv, StopJoins, DeletionInv, NEW t \in Threads,
           Delete(t), Arg(t) = "receiver"
    PROVE  Ends /\ Loops \subseteq ended /\ \A u \in Threads : Outside(todo'[u])
<1> DEFINE s == todo[t]
           g == gHandlesMutex
<1>1. At(t, "delete") /\ Then(t, <<>>)
  BY DEF Delete
<1>2. s # <<>> /\ s[1] \in Instrs /\ s[1] = DeleteReceiver /\ s[1].op = "delete"
  BY <1>1, AtFacts DEF Typed, DeleteReceiver
<1>3. s \in Seq(Instrs)
  BY DEF Typed, TodoOK
<1>4. /\ Range(s) = {s[i] : i \in 1..Len(s)} /\ Len(s) \in Nat
      /\ s[1] \in Range(s)
  <2> HIDE DEF s
  <2> QED BY <1>2, <1>3, PlacesOfSeq, FirstIsThere
<1>5. Len(s) \in Nat \ {0} /\ 1 \in 1..Len(s)
  <2> HIDE DEF s
  <2>1. Len(s) # 0
    BY <1>2, <1>3, EmptySeq
  <2> QED BY <1>4, <2>1
<1>6. Ends
  BY <1>2, <1>4 DEF DeletionInv, IsEnd
<1>7. ~mRunning
  <2> SUFFICES ASSUME mRunning PROVE FALSE
    OBVIOUS
  <2>1. StopFirst(s)
    BY DEF DeletionInv
  <2>2. \E j \in 1..Len(s) : j < 1
    BY <1>2, <1>5, <2>1 DEF StopFirst
  <2> QED BY <1>5, <2>2
<1>8. ASSUME NEW k \in 1..Len(s), k # 1
      PROVE  s[k].op \notin InsideOps
  <2>1. EndsLast(s) /\ IsEnd(s[1]) /\ 1 < k
    BY <1>2, <1>5, <1>8 DEF DeletionInv, IsEnd
  <2> QED BY <1>5, <2>1 DEF EndsLast
<1>9. Goes(t, <<>>) /\ <<>> \in Seq(Instrs)
  BY <1>1, ThenGoes, SmallSeqs
<1>10. /\ \A u \in Threads \ {t} : todo'[u] = todo[u]
       /\ todo'[t] = <<>> \o Tail(s)
  BY <1>2, <1>9, GoesFacts DEF Typed
<1>11. Outside(todo'[t])
  <2> HIDE DEF s
  <2>1. IsSeq(s) /\ Tail(s) \in Seq(Instrs) /\ IsSeq(Tail(s))
    BY <1>2, <1>3, HeadTailProperties, SeqIsSeq
  <2>2. todo'[t] = Tail(s)
    BY <1>10, <2>1, EmptyJoined
  <2>3. /\ Len(Tail(s)) = Len(s) - 1
        /\ \A i \in 1..(Len(s) - 1) : Tail(s)[i] = s[i + 1]
    BY <1>2, <2>1, TailFacts
  <2>4. Range(Tail(s)) = {Tail(s)[i] : i \in 1..Len(Tail(s))}
    BY <2>1, PlacesOfSeq
  <2>5. ASSUME NEW i \in 1..Len(Tail(s))
        PROVE  Tail(s)[i].op \notin InsideOps
    <3>1. i \in 1..(Len(s) - 1) /\ i + 1 \in 1..Len(s) /\ i + 1 # 1
      BY <1>4, <2>3
    <3>2. s[i + 1].op \notin InsideOps
      BY <1>8, <3>1
    <3> QED BY <2>3, <3>1, <3>2
  <2> QED BY <2>2, <2>4, <2>5 DEF Outside
<1>12. ASSUME NEW u \in Apps, u # t
       PROVE  Outside(todo[u])
  <2>1. g \in Mutexes /\ s[1].op \in Guarded(g)
    BY <1>2, GuardedFacts DEF Mutexes
  <2>2. Held(mutex, t, g) >= 1
    BY <1>2, <2>1, FirstFits DEF LockInv
  <2>3. Held(mutex, u, g) = 0
    BY <1>12, <2>2 DEF Held
  <2>4. HeldInside(todo[u], Held(mutex, u, g))
    BY <1>6 DEF DeletionInv
  <2> QED BY <2>3, <2>4 DEF HeldInside
<1>13. ASSUME NEW w \in Loops
       PROVE  w \in ended
  <2>1. ASSUME NEW u \in Threads, Do("join", w) \in Range(todo[u])
        PROVE  FALSE
    <3>0. Do("join", w).op = "join"
      BY DoFacts
    <3>1. CASE u = t
      <4>1. PICK k \in 1..Len(s) : s[k] = Do("join", w)
        BY <1>4, <2>1, <3>1
      <4>2. k # 1
        BY <1>2, <3>0, <4>1
      <4> QED BY <1>8, <3>0, <4>1, <4>2 DEF InsideOps
    <3>2. CASE u # t /\ u \in Apps
      BY <1>12, <2>1, <3>0, <3>2 DEF Outside, InsideOps
    <3>3. CASE u \in Loops
      BY <1>6, <2>1, <3>0, <3>3 DEF DeletionInv, StopOps
    <3> QED BY <3>1, <3>2, <3>3, LoopsAreThreads
  <2> QED BY <1>7, <2>1 DEF StopJoins, Loops
<1>14. ASSUME NEW u \in Threads
       PROVE  Outside(todo'[u])
  <2>1. CASE u = t
    BY <1>11, <2>1
  <2>2. CASE u # t /\ u \in Apps
    BY <1>10, <1>12, <2>2
  <2>3. CASE u # t /\ u \in Loops
    <3>1. todo'[u] = <<>>
      BY <1>10, <1>13, <2>3 DEF DeletionInv
    <3> QED BY <3>1, NoneInEmpty DEF Outside
  <2> QED BY <2>1, <2>2, <2>3, LoopsAreThreads
<1> QED BY <1>6, <1>13, <1>14

LEMMA DeletionByStep ==
    ASSUME EndedByHandle, Typed, LockInv, StopJoins, DeletionInv, [Next]_vars,
           NEW t \in Threads, Acquire(t) \/ Step(t)
    PROVE  DeletionInv'
<1> DEFINE s == todo[t]
           x == s[1]
           g == gHandlesMutex
<1>0. wiring' = wiring /\ wiring \in Wirings
  BY WiringStays DEF Typed, TodoOK
<1>1. Ends' <=> Ends
  BY <1>0 DEF Ends, OnMenus
<1>2. PICK b \in Expand(x) : s # <<>> /\ x \in Instrs /\ Goes(t, b)
  BY StepExpands
<1>3. b \in Seq(Instrs) /\ s \in Seq(Instrs)
  BY <1>0, <1>2, ExpandTyped DEF Typed, TodoOK
<1>4. /\ \A u \in Threads \ {t} : todo'[u] = todo[u]
      /\ todo'[t] = b \o Tail(s)
      /\ Range(todo'[t]) \subseteq Range(b) \cup Range(s)
      /\ x \in Range(s)
  BY <1>2, <1>3, GoesFacts, GoesRanges DEF Typed
<1>5. /\ ended' = ended
      /\ mRunning' => mRunning /\ x.op # "stop"
      /\ handles' = handles \/ Delete(t)
      /\ x.op \in {"findReceiver", "endReceive"} =>
           "receiver" \in handles \/ Goes(t, <<>>)
  BY StepLife
<1>6. ended \subseteq Loops /\ Loops \subseteq Threads
  BY LoopsAreThreads DEF Typed, RestOK, Loops
<1>7. \A y \in Range(b) :
        /\ y.op # "endReceive"
        /\ y = DeleteReceiver => x.op = "endReceive"
        /\ Ends /\ x.op \notin InsideOps \cup {"findReceiver", "endReceive"}
             => y.op \notin InsideOps
        /\ Ends /\ x.op \notin {"stop", "endReceive"} => y.op \notin StopOps
  BY <1>0, <1>2, ExpandInside
<1>8. /\ Held(mutex', t, g) = Held(mutex, t, g) + Change(x, g)
      /\ Held(mutex', t, g) \in Nat
      /\ \A u \in Threads \ {t} : Held(mutex', u, g) = Held(mutex, u, g)
  BY StepHandles
<1>9. /\ Held(mutex, t, g) \in Nat
      /\ x.op \in Guarded(g) => Held(mutex, t, g) >= 1
  BY <1>2, FirstFits DEF LockInv, Mutexes
<1>10. ASSUME NEW w \in ended'
       PROVE  todo'[w] = <<>>
  <2>1. todo[w] = <<>> /\ w \in Threads /\ w # t
    BY <1>2, <1>5, <1>6 DEF DeletionInv
  <2> QED BY <1>4, <2>1
<1>11. ASSUME Ends, NEW w \in Loops, NEW y \in Range(todo'[w])
       PROVE  y.op \notin StopOps \cup {"endReceive"}
  <2>1. \A z \in Range(todo[w]) : z.op \notin StopOps \cup {"endReceive"}
    BY <1>11 DEF DeletionInv
  <2>2. CASE w # t
    BY <1>4, <1>6, <2>1, <2>2
  <2>3. CASE w = t
    <3>1. x.op \notin StopOps \cup {"endReceive"}
      BY <1>4, <2>1, <2>3
    <3>2. x.op \notin {"stop", "endReceive"}
      BY <3>1 DEF StopOps
    <3> QED BY <1>4, <1>7, <1>11, <2>1, <2>3, <3>2
  <2> QED BY <2>2, <2>3
<1>12. ASSUME Ends, NEW u \in Apps
       PROVE  HeldInside(todo'[u], Held(mutex', u, g))
  <2>1. HeldInside(todo[u], Held(mutex, u, g)) /\ u \in Threads
    BY <1>12, LoopsAreThreads DEF DeletionInv
  <2>2. CASE u # t
    BY <1>4, <1>8, <2>1, <2>2
  <2>3. CASE u = t
    <3> DEFINE a == Held(mutex, t, g)
    <3>1. /\ HeldInside(s, a) /\ a \in Nat /\ a + Change(x, g) \in Nat
          /\ x.op \in Guarded(g) => a >= 1
      BY <1>8, <1>9, <2>1, <2>3
    <3> HIDE DEF a
    <3>2. HeldInside(b \o Tail(s), a + Change(x, g))
      <4> HIDE DEF s
      <4> QED BY <1>0, <1>2, <1>3, <1>12, <3>1, HeldInsideStep
    <3>3. Held(mutex', t, g) = a + Change(x, g)
      BY <1>8 DEF a
    <3> QED BY <1>4, <2>3, <3>2, <3>3
  <2> QED BY <2>2, <2>3
<1>13. ASSUME NEW u \in Threads
       PROVE  EndsLast(todo'[u]) /\ \A y \in Range(todo'[u]) : IsEnd(y) => Ends
  <2>1. EndsLast(todo[u]) /\ \A y \in Range(todo[u]) : IsEnd(y) => Ends
    BY DEF DeletionInv
  <2>2. CASE u # t
    BY <1>4, <2>1, <2>2
  <2>3. CASE u = t
    <3>1. EndsLast(todo'[t])
      BY <1>2, <2>1, <2>3, EndsLastStep
    <3>2. \A y \in Range(b) : IsEnd(y) => Ends
      BY <1>4, <1>7, <2>1, <2>3 DEF IsEnd
    <3> QED BY <1>4, <2>1, <2>3, <3>1, <3>2
  <2> QED BY <2>2, <2>3
<1>14. ASSUME mRunning', NEW u \in Threads
       PROVE  StopFirst(todo'[u])
  <2>1. StopFirst(todo[u]) /\ x.op # "stop"
    BY <1>5, <1>14 DEF DeletionInv
  <2>2. CASE u # t
    BY <1>4, <2>1, <2>2
  <2>3. CASE u = t
    BY <1>2, <2>1, <2>3, StopFirstStep
  <2> QED BY <2>2, <2>3
<1>15. ASSUME "receiver" \notin handles'
       PROVE  /\ Ends /\ Loops \subseteq ended'
              /\ \A u \in Threads : Outside(todo'[u])
  <2>1. CASE "receiver" \notin handles
    <3>1. Ends /\ Loops \subseteq ended /\ \A u \in Threads : Outside(todo[u])
      BY <2>1 DEF DeletionInv
    <3>2. x.op \notin InsideOps
      BY <1>4, <3>1 DEF Outside
    <3>3. CASE x.op \in {"findReceiver", "endReceive"}
      <4>1. Goes(t, <<>>) /\ <<>> \in Seq(Instrs)
        BY <1>5, <2>1, <3>3, SmallSeqs
      <4>2. Range(todo'[t]) \subseteq Range(<<>>) \cup Range(s)
        BY <1>2, <4>1, GoesRanges DEF Typed
      <4>3. Outside(todo'[t])
        BY <3>1, <4>2, NoneInEmpty DEF Outside
      <4> QED BY <1>4, <1>5, <3>1, <4>3
    <3>4. CASE x.op \notin {"findReceiver", "endReceive"}
      <4>1. \A y \in Range(b) : y.op \notin InsideOps
        BY <1>7, <3>1, <3>2, <3>4
      <4>2. Outside(todo'[t])
        BY <1>4, <3>1, <4>1 DEF Outside
      <4> QED BY <1>4, <1>5, <3>1, <4>2
    <3> QED BY <3>3, <3>4
  <2>2. CASE "receiver" \in handles
    <3>1. Delete(t) /\ handles' = handles \ {Arg(t)}
      BY <1>5, <1>15, <2>2 DEF Delete
    <3>2. Arg(t) = "receiver"
      BY <1>15, <2>2, <3>1
    <3> QED BY <1>5, <3>1, <3>2, DeletedAlone
  <2> QED BY <2>1, <2>2
<1> QED BY <1>1, <1>10, <1>11, <1>12, <1>13, <1>14, <1>15 DEF DeletionInv

\* A thread that had nothing to do, and whose call or round keeps out of a
\* receiver that may be ended, unless it is the receiver's own.
LEMMA DeletionByStart ==
    ASSUME DeletionInv, Typed, [Next]_vars, NEW t \in Threads, t \notin ended,
           NEW b \in Seq(Instrs), Starts(t, b),
           mutex' = mutex, handles' = handles, ended' = ended,
           mRunning' = mRunning,
           Ends /\ t \in Apps => Outside(b),
           \A y \in Range(b) : y # DeleteReceiver /\ (IsEnd(y) => Ends),
           EndsLast(b),
           t \in Loops =>
             \A y \in Range(b) : y.op \notin StopOps \cup {"endReceive"}
    PROVE  DeletionInv'
<1> DEFINE g == gHandlesMutex
<1>1. Ends' <=> Ends
  <2>1. wiring' = wiring
    BY WiringStays
  <2> QED BY <2>1 DEF Ends, OnMenus
<1>2. todo'[t] = b /\ \A u \in Threads \ {t} : todo'[u] = todo[u]
  BY StartsGives DEF StartsFacts, Typed
<1>3. ended \subseteq Loops /\ Loops \subseteq Threads /\ Apps \subseteq Threads
      /\ Apps \cap Loops = {}
  BY LoopsAreThreads DEF Typed, RestOK, Loops
<1>4. ASSUME NEW w \in ended'
      PROVE  todo'[w] = <<>>
  BY <1>2, <1>3 DEF DeletionInv
<1>5. ASSUME Ends, NEW w \in Loops, NEW y \in Range(todo'[w])
      PROVE  y.op \notin StopOps \cup {"endReceive"}
  <2>1. CASE w = t
    BY <1>2, <1>5, <2>1
  <2>2. CASE w # t
    BY <1>2, <1>3, <1>5, <2>2 DEF DeletionInv
  <2> QED BY <2>1, <2>2
<1>6. ASSUME Ends, NEW u \in Apps
      PROVE  HeldInside(todo'[u], Held(mutex', u, g))
  <2>1. CASE u = t
    BY <1>2, <1>6, <2>1 DEF HeldInside
  <2>2. CASE u # t
    <3>1. Held(mutex', u, g) = Held(mutex, u, g)
      OBVIOUS
    <3> QED BY <1>2, <1>3, <1>6, <2>2, <3>1 DEF DeletionInv
  <2> QED BY <2>1, <2>2
<1>7. ASSUME NEW u \in Threads
      PROVE  EndsLast(todo'[u]) /\ \A y \in Range(todo'[u]) : IsEnd(y) => Ends
  <2>1. CASE u = t
    BY <1>2, <2>1
  <2>2. CASE u # t
    BY <1>2, <2>2 DEF DeletionInv
  <2> QED BY <2>1, <2>2
<1>8. ASSUME mRunning', NEW u \in Threads
      PROVE  StopFirst(todo'[u])
  <2>1. CASE u = t
    <3>1. \A i \in 1..Len(b) : b[i] \in Range(b)
      BY PlacesOfSeq
    <3> QED BY <1>2, <2>1, <3>1 DEF StopFirst
  <2>2. CASE u # t
    BY <1>2, <1>8, <2>2 DEF DeletionInv
  <2> QED BY <2>1, <2>2
<1>9. ASSUME "receiver" \notin handles'
      PROVE  /\ Ends /\ Loops \subseteq ended'
             /\ \A u \in Threads : Outside(todo'[u])
  <2>1. Ends /\ Loops \subseteq ended /\ \A u \in Threads : Outside(todo[u])
    BY <1>9 DEF DeletionInv
  <2>2. t \in Apps
    BY <2>1, LoopsAreThreads
  <2> QED BY <1>2, <2>1, <2>2
<1> QED BY <1>1, <1>4, <1>5, <1>6, <1>7, <1>8, <1>9 DEF DeletionInv

\* A loop that ends, or nothing at all.
LEMMA DeletionByEnd ==
    ASSUME DeletionInv, [Next]_vars, todo' = todo, mutex' = mutex,
           handles' = handles, mRunning' = mRunning,
           ended \subseteq ended', \A w \in ended' \ ended : todo[w] = <<>>
    PROVE  DeletionInv'
<1>1. Ends' <=> Ends
  <2>1. wiring' = wiring
    BY WiringStays
  <2> QED BY <2>1 DEF Ends, OnMenus
<1>2. \A u : Held(mutex', u, gHandlesMutex) = Held(mutex, u, gHandlesMutex)
  OBVIOUS
<1>3. \A w \in ended' : todo'[w] = <<>>
  BY DEF DeletionInv
<1>4. Ends => \A u \in Apps :
        HeldInside(todo'[u], Held(mutex', u, gHandlesMutex))
  BY <1>2 DEF DeletionInv
<1>5. "receiver" \notin handles' =>
         /\ Ends /\ Loops \subseteq ended'
         /\ \A t \in Threads : Outside(todo'[t])
  BY DEF DeletionInv
<1> QED BY <1>1, <1>3, <1>4, <1>5 DEF DeletionInv

LEMMA RoundsStayInLoop ==
    /\ \A y \in Range(Round) : y.op \in {"lock", "processNacks", "unlock"}
    /\ \A y \in Range(Awaiting) : y.op \in {"lock", "await"}
<1> DEFINE S == {Do("lock", mNetMutex), Do("processNacks", 0),
                 Do("unlock", mNetMutex)}
           T == {Do("lock", mDeliveryMutex), Do("await", 0)}
<1>1. Round \in Seq(S)
  BY SmallSeqs DEF Round, Under
<1>2. Awaiting \in Seq(T)
  BY SmallSeqs DEF Awaiting
<1>3. Range(Round) \subseteq S /\ Range(Awaiting) \subseteq T
  BY <1>1, <1>2, PlacesOfSeq
<1> QED BY <1>3, DoFacts

LEMMA DeletionByLoop ==
    ASSUME DeletionInv, Typed, [Next]_vars, NEW w \in Loops, w \notin ended,
           NEW b \in {Round, Awaiting}, Starts(w, b),
           mutex' = mutex, handles' = handles, ended' = ended,
           mRunning' = mRunning
    PROVE  DeletionInv'
<1>1. w \in Threads /\ w \notin Apps
  BY LoopsAreThreads
<1>2. b \in Seq(Instrs)
  BY LoopsTyped
<1>3. \A y \in Range(b) :
        y.op \in {"lock", "processNacks", "unlock", "await"}
  BY RoundsStayInLoop
<1>4. \A y \in Range(b) : ~IsEnd(y)
  BY <1>3, DoFacts DEF IsEnd, DeleteReceiver
<1>5. \A i \in 1..Len(b) : b[i] \in Range(b)
  BY <1>2, PlacesOfSeq
<1>6. EndsLast(b)
  BY <1>4, <1>5 DEF EndsLast
<1>7. \A y \in Range(b) : y.op \notin StopOps \cup {"endReceive"}
  BY <1>3 DEF StopOps
<1>8. \A y \in Range(b) : y # DeleteReceiver /\ (IsEnd(y) => Ends)
  BY <1>4 DEF IsEnd
<1> QED BY <1>1, <1>2, <1>6, <1>7, <1>8, DeletionByStart

LEMMA DeletionInvariance ==
    ASSUME EndedByHandle, Typed, LockInv, StopJoins, DeletionInv, [Next]_vars
    PROVE  DeletionInv'
<1>1. CASE \E t \in Threads : Acquire(t) \/ Step(t)
  BY <1>1, DeletionByStep
<1>2. ASSUME NEW t \in Apps, Call(t)
      PROVE  DeletionInv'
  <2>1. PICK b \in Seq(Instrs) :
          /\ Starts(t, b)
          /\ Ends => Outside(b)
          /\ \A y \in Range(b) : y # DeleteReceiver /\ (IsEnd(y) => Ends)
    BY <1>2, CallStaysOut
  <2>2. /\ mutex' = mutex /\ handles' = handles /\ ended' = ended
        /\ mRunning' = mRunning
    BY <1>2 DEF Call, life
  <2>3. t \in Threads /\ t \notin Loops /\ t \notin ended
    BY LoopsAreThreads DEF Typed, RestOK, Loops
  <2>4. EndsLast(b)
    <3>1. \A i \in 1..Len(b) : b[i] \in Range(b)
      BY PlacesOfSeq
    <3> QED BY <2>1, <3>1 DEF EndsLast, Outside
  <2> QED BY <2>1, <2>2, <2>3, <2>4, DeletionByStart
<1>3. CASE WorkerLoop
  <2>1. /\ "worker" \in Loops /\ "worker" \notin ended
        /\ todo["worker"] = <<>> /\ mutex' = mutex /\ handles' = handles
        /\ mRunning' = mRunning
        /\ \/ Starts("worker", Round) /\ ended' = ended
           \/ todo' = todo /\ ended' = ended \cup {"worker"}
    BY <1>3 DEF WorkerLoop, Loops, Starts, app
  <2> QED BY <2>1, DeletionByLoop, DeletionByEnd
<1>4. CASE DeliveryLoop
  <2>1. /\ "delivery" \in Loops /\ "delivery" \notin ended
        /\ todo["delivery"] = <<>> /\ mutex' = mutex /\ handles' = handles
        /\ mRunning' = mRunning
        /\ \/ Starts("delivery", Awaiting) /\ ended' = ended
           \/ todo' = todo /\ ended' = ended \cup {"delivery"}
    BY <1>4 DEF DeliveryLoop, Loops, Starts, app
  <2> QED BY <2>1, DeletionByLoop, DeletionByEnd
<1>5. CASE WakeSpuriously \/ UNCHANGED vars
  <2>1. /\ todo' = todo /\ mutex' = mutex /\ handles' = handles
        /\ mRunning' = mRunning /\ ended' = ended
    BY <1>5 DEF WakeSpuriously, vars, app
  <2> QED BY <2>1, DeletionByEnd
<1> QED BY <1>1, <1>2, <1>3, <1>4, <1>5 DEF Next

\* efp_end_receive stops the receiver and deletes it with gHandlesMutex held:
\* its threads have been joined, and a call that found the handle has returned.
\* This is so when no callback ends the receiver and the program uses it by its
\* handle only.
THEOREM NobodyLeftInside ==
    ASSUME EndedByHandle
    PROVE  Spec => []NobodyInDeleted
<1>1. Init => DeletionInv
  <2> SUFFICES ASSUME Init PROVE DeletionInv
    OBVIOUS
  <2>1. \A t \in Threads : todo[t] = <<>>
    BY DEF Init
  <2>2. \A t \in Threads : Range(todo[t]) = {} /\ Len(todo[t]) = 0
    BY <2>1, NoneInEmpty
  <2>3. \A t \in Threads :
          EndsLast(todo[t]) /\ StopFirst(todo[t]) /\ Outside(todo[t])
    BY <2>2 DEF EndsLast, StopFirst, Outside
  <2>4. ended \subseteq Loops /\ "receiver" \in handles
    BY DEF Init, Loops
  <2> QED BY <2>1, <2>2, <2>3, <2>4, LoopsAreThreads DEF DeletionInv, HeldInside
<1>2. Init => StopJoins
  BY DEF Init, StopJoins, Threaded
<1>3. Typed /\ StopJoins /\ [Next]_vars => StopJoins'
  BY StopJoinsInvariance
<1>4. Typed /\ LockInv /\ [Next]_vars => LockInv'
  BY LockInvariance
<1>5. Typed /\ LockInv /\ StopJoins /\ DeletionInv /\ [Next]_vars
        => DeletionInv'
  BY DeletionInvariance
<1>6. DeletionInv => NobodyInDeleted
  <2> SUFFICES ASSUME DeletionInv, "receiver" \notin handles, NEW t \in Threads
               PROVE  Ops(t) \cap ReceiverOps = {}
    BY DEF NobodyInDeleted
  <2>1. \A i \in DOMAIN todo[t] : todo[t][i].op \notin InsideOps
    BY DEF DeletionInv, Outside, Range
  <2> QED BY <2>1 DEF Ops, InsideOps
<1> QED BY <1>1, <1>2, <1>3, <1>4, <1>5, <1>6, LockInvInitially,
           TypedInvariance, PTL DEF Spec
------------------------------------------------------------------------------
(***************************************************************************)
(* The order of the locks.                                                 *)
(***************************************************************************)

\* What a thread may wait for: a mutex, or the end of a loop.
Waited == Mutexes \cup Loops

\* The calls made in the course of a call, by itself or through a callback.
Leads(w, call) ==
    CASE call \in {"send", "processRetransmits"} -> Range(w.onSend)
      [] call \in {"receive", "poll"} ->
           IF w.mode = "THREADED" THEN {}
           ELSE Range(w.onReceive) \cup Range(w.onNack)
      [] call = "efp_send_data" -> {"send"}
      [] call = "efp_receive_fragment" -> {"receive"}
      [] call = "efp_end_receive" -> {"stop"}
      [] OTHER -> {}

\* The calls C and all that they lead to: the smallest set that is closed.
Closed(w, D) == \A call \in D : Leads(w, call) \subseteq D

Reached(w, C) ==
    {d \in Calls : \A D \in SUBSET Calls : C \subseteq D /\ Closed(w, D) => d \in D}

\* What a call waits for on its own account, and what the calls C wait for in
\* all.
Own(w, call) ==
    CASE call \in {"send", "receiveNack", "processRetransmits"} -> {mMutex}
      [] call \in {"receive", "poll"} -> {mNetMutex}
      [] call = "stop" -> {mDeliveryMutex} \cup Loops
      [] OTHER -> {gHandlesMutex}

Takes(w, C) == UNION {Own(w, d) : d \in Reached(w, C)}

\* Handing a frame over, and a pass.
Handover(w) ==
    IF w.mode = "THREADED" THEN {mDeliveryMutex}
    ELSE Takes(w, Range(w.onReceive))

Pass(w) == Takes(w, Range(w.onNack)) \cup Handover(w)

\* What an instruction, with all that comes of it, may wait for.
Reach(w, x) ==
    CASE x.op \in {"lock", "join"} -> {x.on}
      [] x.op \in {"sendCallback", "retransmit"} -> Takes(w, Range(w.onSend))
      [] x.op = "processNacks" -> Pass(w)
      [] x.op = "nack" -> Takes(w, Range(w.onNack))
      [] x.op \in {"collect", "deliver"} -> Handover(w)
      [] x.op \in {"callback", "take"} -> Takes(w, Range(w.onReceive))
      [] x.op \in {"await", "sleep", "wake"} ->
           {mDeliveryMutex} \cup Takes(w, Range(w.onReceive))
      [] x.op = "stop" -> Loops
      [] x.op = "findSender" -> Takes(w, {"send"})
      [] x.op = "findReceiver" -> Takes(w, {"receive"})
      [] x.op = "endReceive" -> Takes(w, {"stop"})
      [] OTHER -> {}

\* What is waited for while a mutex is held, or by a loop.
Within(w, l) ==
    CASE l = mMutex -> Takes(w, Range(w.onSend))
      [] l = mNetMutex -> Pass(w)
      [] l = gHandlesMutex -> Takes(w, {"send", "receive", "stop"})
      [] l = "worker" ->
           IF w.mode = "THREADED" THEN {mNetMutex} \cup Pass(w) ELSE {}
      [] l = "delivery" ->
           IF w.mode = "THREADED"
             THEN {mDeliveryMutex} \cup Takes(w, Range(w.onReceive))
           ELSE {}
      [] OTHER -> {}

\* The sender is used by its handle only: mMutex is never taken without
\* gHandlesMutex.
SenderByHandle(w) ==
    (CalledBack(w) \cup OnMenus(w))
      \cap {"send", "receiveNack", "processRetransmits"} = {}

\* What may be waited for while l is held: what comes after l in the order o, a
\* recursive mutex again, and one that is held whenever l is.
AfterIn(w, o, l) ==
    {r \in Waited : \/ o[l] < o[r]
                    \/ r = l /\ l \in Recursive
                    \/ r = gHandlesMutex /\ l = mMutex /\ SenderByHandle(w)}

Rising(w, o) == \A l \in Waited : Within(w, l) \subseteq AfterIn(w, o, l)

Orders == [Waited -> 1..6]

\* Every wiring has an order in which its calls and callbacks take the mutexes
\* and wait for the loops.
LockOrder == \A w \in Wirings : \E o \in Orders : Rising(w, o)

After(w, l) == AfterIn(w, CHOOSE o \in Orders : Rising(w, o), l)

LEMMA OrderFacts ==
    ASSUME LockOrder, NEW w \in Wirings
    PROVE  \E o \in Orders :
             /\ \A l \in Waited : Within(w, l) \subseteq After(w, l)
             /\ \A l \in Waited : After(w, l) = AfterIn(w, o, l)
<1> DEFINE q == CHOOSE o \in Orders : Rising(w, o)
<1>1. q \in Orders /\ Rising(w, q)
  BY DEF LockOrder
<1>2. \A l : After(w, l) = AfterIn(w, q, l)
  BY DEF After
<1> HIDE DEF q
<1>3. \A l \in Waited : Within(w, l) \subseteq After(w, l)
  BY <1>1, <1>2 DEF Rising
<1> QED BY <1>1, <1>2, <1>3

LEMMA WiredSets ==
    ASSUME NEW w \in Wirings
    PROVE  /\ Range(w.onSend) \subseteq Calls /\ Range(w.onReceive) \subseteq Calls
           /\ Range(w.onNack) \subseteq Calls
           /\ \A i \in DOMAIN w.onSend : w.onSend[i] \in Range(w.onSend)
           /\ \A i \in DOMAIN w.onReceive : w.onReceive[i] \in Range(w.onReceive)
           /\ \A i \in DOMAIN w.onNack : w.onNack[i] \in Range(w.onNack)
  BY WiredCalls DEF Range

LEMMA LeadsInCalls ==
    ASSUME NEW w \in Wirings, NEW call \in Calls
    PROVE  Leads(w, call) \subseteq Calls
  BY WiredSets DEF Leads, Calls, Carrying

LEMMA ReachedFacts ==
    ASSUME NEW w \in Wirings, NEW C \in SUBSET Calls
    PROVE  /\ C \subseteq Reached(w, C)
           /\ Reached(w, C) \in SUBSET Calls
           /\ Closed(w, Reached(w, C))
<1>1. C \subseteq Reached(w, C) /\ Reached(w, C) \in SUBSET Calls
  BY DEF Reached
<1>2. ASSUME NEW call \in Reached(w, C), NEW d \in Leads(w, call)
      PROVE  d \in Reached(w, C)
  <2>1. call \in Calls /\ d \in Calls
    BY <1>1, LeadsInCalls
  <2>2. ASSUME NEW D \in SUBSET Calls, C \subseteq D, Closed(w, D)
        PROVE  d \in D
    <3>1. call \in D
      BY <2>2 DEF Reached
    <3> QED BY <2>2, <3>1 DEF Closed
  <2> QED BY <2>1, <2>2 DEF Reached
<1> QED BY <1>1, <1>2 DEF Closed

LEMMA ReachedWithin ==
    ASSUME NEW w \in Wirings, NEW C \in SUBSET Calls, NEW B,
           B \subseteq Reached(w, C)
    PROVE  Takes(w, B) \subseteq Takes(w, C)
<1> DEFINE D == Reached(w, C)
<1>1. D \in SUBSET Calls /\ Closed(w, D) /\ B \subseteq D
  BY ReachedFacts
<1> HIDE DEF D
<1>2. Reached(w, B) \subseteq D
  BY <1>1 DEF Reached
<1> QED BY <1>2 DEF D, Takes

LEMMA TakesMore ==
    ASSUME NEW w \in Wirings, NEW C \in SUBSET Calls, NEW B, B \subseteq C
    PROVE  Takes(w, B) \subseteq Takes(w, C)
  BY ReachedFacts, ReachedWithin

\* A call takes what it takes on its own account, and what it leads to.
LEMMA TakesFacts ==
    ASSUME NEW w \in Wirings, NEW C \in SUBSET Calls, NEW call \in C
    PROVE  /\ Own(w, call) \subseteq Takes(w, C)
           /\ \A B : B \subseteq Leads(w, call) => Takes(w, B) \subseteq Takes(w, C)
<1>1. C \subseteq Reached(w, C) /\ Closed(w, Reached(w, C))
  BY ReachedFacts
<1>2. Own(w, call) \subseteq Takes(w, C)
  BY <1>1 DEF Takes
<1>3. Leads(w, call) \subseteq Reached(w, C)
  BY <1>1 DEF Closed
<1> QED BY <1>2, <1>3, ReachedWithin

\* What comes of an instruction waits for no more than it says.
LEMMA NeedsReach ==
    ASSUME wiring \in Wirings, NEW C \in SUBSET Calls, NEW call \in C, NEW p,
           NEW y \in Needs(call, p)
    PROVE  Reach(wiring, y) \subseteq Takes(wiring, C)
<1> DEFINE w == wiring
           T == Takes(w, C)
           Lead(B) == B \subseteq Leads(w, call)
<1> SUFFICES Reach(w, y) \subseteq T
  OBVIOUS
<1>0. Own(w, call) \subseteq T /\ \A B : Lead(B) => Takes(w, B) \subseteq T
  BY TakesFacts
<1>a. ASSUME NEW l, y = Do("lock", l), l \in Own(w, call)
      PROVE  Reach(w, y) \subseteq T
  <2>1. Reach(w, y) = {l}
    BY <1>a, DoFacts DEF Reach
  <2> QED BY <1>0, <1>a, <2>1
<1>b. ASSUME y.op \in {"unlock", "request", "fragment", "endSend", "delete"}
      PROVE  Reach(w, y) \subseteq T
  BY <1>b DEF Reach
<1>c. ASSUME NEW B, Reach(w, y) = Takes(w, B), Lead(B)
      PROVE  Reach(w, y) \subseteq T
  BY <1>0, <1>c
<1>1. CASE call \in {"send", "processRetransmits"}
  <2>1. mMutex \in Own(w, call) /\ Lead(Range(w.onSend))
    BY <1>1 DEF Own, Leads
  <2>2. \/ y = Do("lock", mMutex) \/ y.op \in {"sendCallback", "retransmit"}
        \/ y.op = "unlock"
    BY <1>1, DoFacts DEF Needs
  <2>3. CASE y.op \in {"sendCallback", "retransmit"}
    <3>1. Reach(w, y) = Takes(w, Range(w.onSend))
      BY <2>3 DEF Reach
    <3> HIDE DEF Lead, T, w
    <3> QED BY <1>c, <2>1, <3>1
  <2> HIDE DEF Lead, T, w
  <2> QED BY <1>a, <1>b, <2>1, <2>2, <2>3
<1>2. CASE call = "receiveNack"
  <2>1. mMutex \in Own(w, call)
    BY <1>2 DEF Own
  <2>2. y = Do("lock", mMutex) \/ y.op \in {"request", "unlock"}
    BY <1>2, DoFacts DEF Needs
  <2> HIDE DEF Lead, T, w
  <2> QED BY <1>a, <1>b, <2>1, <2>2
<1>3. CASE call \in {"receive", "poll"}
  <2>1. mNetMutex \in Own(w, call)
    BY <1>3 DEF Own
  <2>2. \/ y = Do("lock", mNetMutex) \/ y.op \in {"fragment", "unlock"}
        \/ ~Threaded /\ y.op = "processNacks"
    BY <1>3, DoFacts DEF Needs
  <2>3. CASE ~Threaded /\ y.op = "processNacks"
    <3>1. Lead(Range(w.onReceive)) /\ Lead(Range(w.onNack))
      BY <1>3, <2>3 DEF Leads, Threaded
    <3>2. Reach(w, y) = Takes(w, Range(w.onNack)) \cup Takes(w, Range(w.onReceive))
      BY <2>3 DEF Reach, Pass, Handover, Threaded
    <3> HIDE DEF Lead, T, w
    <3> QED BY <1>0, <3>1, <3>2
  <2> HIDE DEF Lead, T, w
  <2> QED BY <1>a, <1>b, <2>1, <2>2, <2>3
<1>4. CASE call = "stop"
  <2>1. Own(w, call) = {mDeliveryMutex} \cup Loops
    BY <1>4 DEF Own
  <2>2. y = Do("lock", mDeliveryMutex) \/ y.op = "stop"
    BY <1>4, DoFacts DEF Needs
  <2>3. CASE y.op = "stop"
    BY <1>0, <2>1, <2>3 DEF Reach
  <2> HIDE DEF Lead, T, w
  <2> QED BY <1>a, <2>1, <2>2, <2>3
<1>5. CASE call \in {"efp_send_data", "efp_receive_fragment", "efp_end_send",
                     "efp_end_receive"}
  <2>1. gHandlesMutex \in Own(w, call)
    BY <1>5 DEF Own
  <2>2. \/ y = Do("lock", gHandlesMutex) \/ y.op \in {"unlock", "endSend"}
        \/ y.op = "findSender" /\ call = "efp_send_data"
        \/ y.op = "findReceiver" /\ call = "efp_receive_fragment"
        \/ y.op = "endReceive" /\ call = "efp_end_receive"
    BY <1>5, DoFacts DEF Needs
  <2>3. CASE y.op = "findSender" /\ call = "efp_send_data"
    <3>1. Reach(w, y) = Takes(w, {"send"}) /\ Lead({"send"})
      BY <2>3 DEF Reach, Leads
    <3> HIDE DEF Lead, T, w
    <3> QED BY <1>c, <3>1
  <2>4. CASE y.op = "findReceiver" /\ call = "efp_receive_fragment"
    <3>1. Reach(w, y) = Takes(w, {"receive"}) /\ Lead({"receive"})
      BY <2>4 DEF Reach, Leads
    <3> HIDE DEF Lead, T, w
    <3> QED BY <1>c, <3>1
  <2>5. CASE y.op = "endReceive" /\ call = "efp_end_receive"
    <3>1. Reach(w, y) = Takes(w, {"stop"}) /\ Lead({"stop"})
      BY <2>5 DEF Reach, Leads
    <3> HIDE DEF Lead, T, w
    <3> QED BY <1>c, <3>1
  <2> HIDE DEF Lead, T, w
  <2> QED BY <1>a, <1>b, <2>1, <2>2, <2>3, <2>4, <2>5
<1> QED BY <1>1, <1>2, <1>3, <1>4, <1>5 DEF Calls, Carrying

LEMMA WiredReach ==
    ASSUME wiring \in Wirings, NEW wired, NEW p, NEW y \in CallsNeed(wired, p),
           Range(wired) \subseteq Calls
    PROVE  Reach(wiring, y) \subseteq Takes(wiring, Range(wired))
<1>1. PICK i \in DOMAIN wired : y \in Needs(wired[i], p)
  BY DEF CallsNeed
<1>2. wired[i] \in Range(wired)
  BY DEF Range
<1> QED BY <1>1, <1>2, NeedsReach

LEMMA MakesReach ==
    ASSUME wiring \in Wirings, NEW x \in Instrs, NEW y \in Makes(x)
    PROVE  Reach(wiring, y) \subseteq Reach(wiring, x)
<1> DEFINE w == wiring
<1>0. /\ Range(w.onSend) \subseteq Calls /\ Range(w.onReceive) \subseteq Calls
      /\ Range(w.onNack) \subseteq Calls
  BY WiredSets
<1>a. ASSUME y.op \in {"unlock", "sent", "erase", "push", "notifyAll", "delete"}
      PROVE  Reach(w, y) \subseteq Reach(w, x)
  BY <1>a DEF Reach
<1>b. ASSUME NEW l, y = Do("lock", l), l \in Reach(w, x)
      PROVE  Reach(w, y) \subseteq Reach(w, x)
  <2>1. Reach(w, y) = {l}
    BY <1>b, DoFacts DEF Reach
  <2> QED BY <1>b, <2>1
<1>1. CASE x.op = "sendCallback"
  <2>1. y \in CallsNeed(w.onSend, x.on)
    BY <1>1 DEF Makes
  <2>2. Reach(w, x) = Takes(w, Range(w.onSend))
    BY <1>1 DEF Reach
  <2> QED BY <1>0, <2>1, <2>2, WiredReach
<1>2. CASE x.op = "callback"
  <2>1. y \in CallsNeed(w.onReceive, Ended(x.on))
    BY <1>2 DEF Makes
  <2>2. Reach(w, x) = Takes(w, Range(w.onReceive))
    BY <1>2 DEF Reach
  <2> QED BY <1>0, <2>1, <2>2, WiredReach
<1>3. CASE x.op = "nack"
  <2>1. y \in CallsNeed(w.onNack, x.on) \/ y.op = "sent"
    BY <1>3, DoFacts DEF Makes
  <2>2. Reach(w, x) = Takes(w, Range(w.onNack))
    BY <1>3 DEF Reach
  <2> QED BY <1>0, <1>a, <2>1, <2>2, WiredReach
<1>4. CASE x.op \in {"retransmit", "processNacks", "collect"}
  <2>1. \/ x.op = "retransmit" /\ y.op \in {"sendCallback", "retransmit"}
        \/ x.op = "processNacks" /\ y.op \in {"nack", "collect"}
        \/ x.op = "collect" /\ y.op = "deliver"
    BY <1>4, DoFacts DEF Makes
  <2> QED BY <2>1 DEF Reach, Pass
<1>5. CASE x.op = "deliver"
  <2>1. \/ Threaded /\ y = Do("lock", mDeliveryMutex)
        \/ y.op \in {"push", "unlock", "erase"}
        \/ ~Threaded /\ y.op = "callback"
    BY <1>5, DoFacts DEF Makes
  <2>2. CASE Threaded /\ y = Do("lock", mDeliveryMutex)
    <3>1. mDeliveryMutex \in Reach(w, x)
      BY <1>5, <2>2 DEF Reach, Handover, Threaded
    <3> QED BY <1>b, <2>2, <3>1
  <2>3. CASE ~Threaded /\ y.op = "callback"
    BY <1>5, <2>3 DEF Reach, Handover, Threaded
  <2> QED BY <1>a, <2>1, <2>2, <2>3
<1>6. CASE x.op \in {"await", "sleep", "wake", "take"}
  <2>1. \/ x.op = "await" /\ y.op \in {"take", "sleep"}
        \/ x.op = "sleep" /\ y.op = "wake"
        \/ x.op = "wake" /\ (y = Do("lock", mDeliveryMutex) \/ y.op = "await")
        \/ x.op = "take" /\ y.op \in {"unlock", "callback"}
    BY <1>6, DoFacts DEF Makes
  <2>2. CASE y = Do("lock", mDeliveryMutex) /\ x.op = "wake"
    <3>1. mDeliveryMutex \in Reach(w, x)
      BY <2>2 DEF Reach
    <3> QED BY <1>b, <2>2, <3>1
  <2>3. CASE y.op \in {"take", "sleep", "wake", "await", "callback"}
    BY <2>1, <2>3, DoFacts DEF Reach
  <2> QED BY <1>a, <2>1, <2>2, <2>3
<1>7. CASE x.op = "stop"
  <2>1. y.op \in {"unlock", "notifyAll"} \/ (y.op = "join" /\ y.on \in Loops)
    BY <1>7, DoFacts DEF Makes, Loops
  <2>2. CASE y.op = "join" /\ y.on \in Loops
    BY <1>7, <2>2 DEF Reach
  <2> QED BY <1>a, <2>1, <2>2
<1>8. CASE x.op = "findSender"
  <2>1. y \in Needs("send", x.on) /\ {"send"} \in SUBSET Calls
    BY <1>8 DEF Makes, Calls, Carrying
  <2>2. Reach(w, x) = Takes(w, {"send"})
    BY <1>8 DEF Reach
  <2> QED BY <2>1, <2>2, NeedsReach
<1>9. CASE x.op = "findReceiver"
  <2>1. y \in Needs("receive", x.on) /\ {"receive"} \in SUBSET Calls
    BY <1>9 DEF Makes, Calls, Carrying
  <2>2. Reach(w, x) = Takes(w, {"receive"})
    BY <1>9 DEF Reach
  <2> QED BY <2>1, <2>2, NeedsReach
<1>10. CASE x.op = "endReceive"
  <2>1. y = Do("lock", mDeliveryMutex) \/ y.op \in {"stop", "delete"}
    BY <1>10, DoFacts DEF Makes
  <2>2. "stop" \in {"stop"} /\ {"stop"} \in SUBSET Calls
    BY DEF Calls
  <2>3. Own(w, "stop") \subseteq Takes(w, {"stop"})
    BY <2>2, TakesFacts
  <2>4. Own(w, "stop") = {mDeliveryMutex} \cup Loops
    BY DEF Own
  <2>5. Reach(w, x) = Takes(w, {"stop"})
    BY <1>10 DEF Reach
  <2>6. CASE y.op = "stop"
    BY <2>3, <2>4, <2>5, <2>6 DEF Reach
  <2> QED BY <1>a, <1>b, <2>1, <2>3, <2>4, <2>5, <2>6
<1>11. CASE x.op = "endSend"
  BY <1>11, <1>a, DoFacts DEF Makes
<1>12. CASE x.op \in {"lock", "unlock", "fragment", "request", "sent", "push",
                      "erase", "join", "delete", "notifyAll"}
  BY <1>12 DEF Makes
<1> QED BY <1>1, <1>2, <1>3, <1>4, <1>5, <1>6, <1>7, <1>8, <1>9, <1>10,
           <1>11, <1>12, InstrFacts

\* These give mDeliveryMutex back before anything else.
Handing == {"await", "take", "sleep", "stop"}

Fits(w, x, l) ==
    Reach(w, x) \subseteq After(w, l) \/ (l = mDeliveryMutex /\ x.op \in Handing)

\* What is done under a mutex waits for what comes after it.
LEMMA GuardedFits ==
    ASSUME LockOrder, NEW w \in Wirings, NEW l \in Mutexes, NEW x,
           x.op \in Guarded(l) \cup {"unlock"}
    PROVE  Fits(w, x, l)
<1>1. Within(w, l) \subseteq After(w, l)
  BY OrderFacts DEF Waited
<1>2. l \in {mNetMutex, mDeliveryMutex, mMutex, gHandlesMutex}
  BY GuardedFacts
<1>a. ASSUME Reach(w, x) = {}
      PROVE  Fits(w, x, l)
  BY <1>a DEF Fits
<1>b. ASSUME Reach(w, x) \subseteq Within(w, l)
      PROVE  Fits(w, x, l)
  BY <1>1, <1>b DEF Fits
<1>3. CASE x.op = "unlock"
  <2>1. Reach(w, x) = {}
    BY <1>3 DEF Reach
  <2> QED BY <1>a, <2>1
<1>4. CASE l = mNetMutex /\ x.op # "unlock"
  <2>1. x.op \in {"fragment", "processNacks", "nack", "sent", "collect",
                  "deliver", "push", "erase"}
    BY <1>4, GuardedFacts
  <2>2. Within(w, l) = Pass(w)
    BY <1>4 DEF Within, mNetMutex, mMutex, mDeliveryMutex, gHandlesMutex
  <2>3. Reach(w, x) \subseteq Pass(w)
    BY <2>1 DEF Reach, Pass
  <2> QED BY <1>b, <2>2, <2>3
<1>5. CASE l = mDeliveryMutex /\ x.op # "unlock"
  <2>1. x.op = "push" \/ x.op \in Handing
    BY <1>5, GuardedFacts DEF Handing
  <2>2. x.op = "push" => Reach(w, x) = {}
    BY DEF Reach
  <2> QED BY <1>5, <1>a, <2>1, <2>2 DEF Fits
<1>6. CASE l = mMutex /\ x.op # "unlock"
  <2>1. x.op \in {"sendCallback", "request", "retransmit"}
    BY <1>6, GuardedFacts
  <2>2. Within(w, l) = Takes(w, Range(w.onSend))
    BY <1>6 DEF Within, mNetMutex, mMutex, gHandlesMutex
  <2>3. Reach(w, x) \subseteq Takes(w, Range(w.onSend))
    BY <2>1 DEF Reach
  <2> QED BY <1>b, <2>2, <2>3
<1>7. CASE l = gHandlesMutex /\ x.op # "unlock"
  <2> DEFINE C == {"send", "receive", "stop"}
  <2>1. x.op \in {"findSender", "findReceiver", "endSend", "endReceive",
                  "delete"}
    BY <1>7, GuardedFacts
  <2>2. Within(w, l) = Takes(w, C)
    BY <1>7 DEF Within, mNetMutex, mMutex, gHandlesMutex
  <2>3. /\ {"send"} \subseteq C /\ {"receive"} \subseteq C /\ {"stop"} \subseteq C
        /\ C \in SUBSET Calls
    BY DEF Calls, Carrying
  <2> HIDE DEF C
  <2>4. /\ Takes(w, {"send"}) \subseteq Takes(w, C)
        /\ Takes(w, {"receive"}) \subseteq Takes(w, C)
        /\ Takes(w, {"stop"}) \subseteq Takes(w, C)
    BY <2>3, TakesMore
  <2>5. Reach(w, x) \subseteq Takes(w, C)
    <3>1. \/ Reach(w, x) = Takes(w, {"send"}) \/ Reach(w, x) = Takes(w, {"receive"})
          \/ Reach(w, x) = Takes(w, {"stop"}) \/ Reach(w, x) = {}
      BY <2>1 DEF Reach
    <3> QED BY <2>4, <3>1
  <2> QED BY <1>b, <2>2, <2>5
<1> QED BY <1>2, <1>3, <1>4, <1>5, <1>6, <1>7

\* How deep a thread may hold l when it does an instruction, and a sequence that
\* takes the depth from a to b so.
Ordered(w, l) == [x \in Instrs |-> {n \in Nat : n >= 1 => Fits(w, x, l)}]

Rises(s, l, a, b) == Walk(s, Turns(l), a, b, Ordered(wiring, l))

LEMMA OrderedFacts ==
    ASSUME NEW w, NEW l, NEW x \in Instrs, NEW n
    PROVE  n \in Ordered(w, l)[x] <=> n \in Nat /\ (n >= 1 => Fits(w, x, l))
  BY DEF Ordered

LEMMA RisesCat ==
    ASSUME NEW s, NEW t, NEW l, NEW a, NEW b, NEW c,
           Rises(s, l, a, b), Rises(t, l, b, c)
    PROVE  Rises(s \o t, l, a, c)
  BY WalkCat DEF Rises

LEMMA RisesEmpty ==
    ASSUME NEW l, NEW a \in Nat
    PROVE  Rises(<<>>, l, a, a)
  BY WalkEmpty DEF Rises

\* Not held and not touched.
LEMMA RisesStill ==
    ASSUME NEW s \in Seq(Instrs), NEW l,
           \A y \in Range(s) : Change(y, l) = 0
    PROVE  Rises(s, l, 0, 0)
<1> DEFINE c == Turns(l)
           P == Ordered(wiring, l)
<1>1. ASSUME NEW y \in Range(s)
      PROVE  c[y] = 0 /\ 0 \in P[y]
  <2>1. y \in Instrs
    BY PlacesOfSeq
  <2> QED BY <2>1, TurnsFacts, OrderedFacts
<1> HIDE DEF c, P
<1>2. Walk(s, c, 0, 0, P)
  BY <1>1, WalkStill
<1> QED BY <1>2 DEF Rises, c, P

\* Taken and given back by what is done under it.
LEMMA RisesBrief ==
    ASSUME LockOrder, wiring \in Wirings, NEW l \in Mutexes, NEW s, Brief(s, l)
    PROVE  Rises(s, l, 0, 0)
<1> DEFINE c == Turns(l)
           P == Sparing(l)
           Q == Ordered(wiring, l)
<1>1. Walk(s, c, 0, 0, P)
  BY DEF Brief
<1>2. s \in Seq(Instrs)
  BY <1>1, WalkEnds
<1>3. ASSUME NEW y \in Range(s)
      PROVE  c[y] \in Int /\ \A n \in Nat : n \in P[y] => n + 0 \in Q[y]
  <2>1. y \in Instrs
    BY <1>2, PlacesOfSeq
  <2>2. ASSUME NEW n \in Nat, n \in P[y]
        PROVE  n \in Q[y]
    <3>1. n >= 1 => y.op \in Guarded(l) \cup {"unlock"}
      BY <2>1, <2>2, SparingFacts
    <3>2. n >= 1 => Fits(wiring, y, l)
      BY <3>1, GuardedFits
    <3> QED BY <2>1, <3>2, OrderedFacts
  <2>3. c[y] \in Int
    BY <2>1, TurnsFacts
  <2> HIDE DEF P, Q, c
  <2> QED BY <2>2, <2>3
<1> HIDE DEF P, Q, c
<1>4. Walk(s, c, 0 + 0, 0 + 0, Q)
  BY <1>1, <1>3, WalkMove
<1> QED BY <1>4 DEF Rises, c, Q

\* All of it fits.
LEMMA RisesFrag ==
    ASSUME NEW s, NEW l, NEW a, NEW b, NEW K, Frag(s, l, a, b, K),
           \A y \in Range(s) : Fits(wiring, y, l)
    PROVE  Rises(s, l, a, b)
<1> DEFINE c == Turns(l)
           P == Finding(K)
           Q == Ordered(wiring, l)
<1>1. Walk(s, c, a, b, P)
  BY DEF Frag
<1>2. s \in Seq(Instrs) /\ a \in Nat /\ b \in Nat
  BY <1>1, WalkEnds
<1>3. ASSUME NEW y \in Range(s)
      PROVE  c[y] \in Int /\ \A n \in Nat : n \in P[y] => n + 0 \in Q[y]
  <2>1. y \in Instrs
    BY <1>2, PlacesOfSeq
  <2>2. \A n \in Nat : n \in Q[y]
    BY <2>1, OrderedFacts
  <2>3. c[y] \in Int
    BY <2>1, TurnsFacts
  <2> HIDE DEF P, Q, c
  <2> QED BY <2>2, <2>3
<1> HIDE DEF P, Q, c
<1>4. Walk(s, c, a + 0, b + 0, Q)
  BY <1>1, <1>3, WalkMove
<1>5. a + 0 = a /\ b + 0 = b
  BY <1>2
<1> QED BY <1>4, <1>5 DEF Rises, c, Q

LEMMA MadeRange ==
    ASSUME wiring \in Wirings, NEW x \in Instrs, NEW b \in Expand(x)
    PROVE  /\ b \in Seq(Instrs) /\ Range(b) \subseteq Makes(x)
           /\ \A y \in Range(b) : y.op \in MadeOps(x.op)
<1>1. b \in Seq(Makes(x))
  BY ExpandMakes
<1>2. Range(b) \subseteq Makes(x)
  BY <1>1, PlacesOfSeq
<1> QED BY <1>2, ExpandOps

\* What comes of an instruction done without l.
LEMMA FreeExpand ==
    ASSUME LockOrder, wiring \in Wirings, NEW x \in Instrs, NEW b \in Expand(x),
           NEW l \in Mutexes,
           x.op \notin {"lock", "unlock", "sleep"} \cup Guarded(l)
    PROVE  Rises(b, l, 0, 0)
<1>0. /\ b \in Seq(Instrs) /\ Range(b) \subseteq Makes(x)
      /\ \A y \in Range(b) : y.op \in MadeOps(x.op)
  BY MadeRange
<1>a. ASSUME NEW s, Brief(s, l)
      PROVE  Rises(s, l, 0, 0)
  BY <1>a, RisesBrief
<1>b. ASSUME \A y \in Range(b) :
               y.op \notin {"lock", "unlock", "await", "take", "sleep", "stop"}
      PROVE  Rises(b, l, 0, 0)
  BY <1>0, <1>b, ChangePlain, RisesStill
<1>c. /\ \A i \in DOMAIN wiring.onSend : wiring.onSend[i] \in Calls \ {"receiveNack"}
      /\ \A i \in DOMAIN wiring.onReceive :
           wiring.onReceive[i] \in Calls \ {"receiveNack"}
      /\ \A i \in DOMAIN wiring.onNack : wiring.onNack[i] \in Calls \ Carrying
      /\ wiring.onSend \in Seq(Calls) /\ wiring.onReceive \in Seq(Calls)
      /\ wiring.onNack \in Seq(Calls)
  BY WiredCalls
<1>d. ASSUME NEW y \in Instrs,
             y.op \notin {"lock", "unlock", "await", "take", "sleep", "stop"}
      PROVE  Rises(<<y>>, l, 0, 0)
  <2> DEFINE S == {y}
             s == <<y>>
  <2>1. s \in Seq(Instrs) /\ s \in Seq(S)
    BY <1>d, SmallSeqs
  <2>2. Change(y, l) = 0
    BY <1>d, ChangePlain
  <2>3. \A z \in S : Change(z, l) = 0
    BY <2>2
  <2> HIDE DEF s, S
  <2>4. \A z \in Range(s) : Change(z, l) = 0
    BY <2>1, <2>3, PlacesOfSeq
  <2>5. Rises(s, l, 0, 0)
    BY <2>1, <2>4, RisesStill
  <2> QED BY <2>5 DEF s
<1>1. CASE x.op = "sendCallback"
  <2>1. b = Callback(wiring.onSend, x.on) /\ x.on \in Packets
    BY <1>1, InstrFacts DEF Expand
  <2>2. \A i \in DOMAIN wiring.onSend : Suits(wiring.onSend[i], x.on)
    BY <1>c, <2>1 DEF Suits
  <2> QED BY <1>a, <1>c, <2>1, <2>2, BriefCallback
<1>2. CASE x.op = "callback"
  <2>1. b = Callback(wiring.onReceive, Ended(x.on)) /\ Ended(x.on) \in Packets
    BY <1>2, InstrFacts, EndedIsPacket DEF Expand
  <2>2. \A i \in DOMAIN wiring.onReceive : Suits(wiring.onReceive[i], Ended(x.on))
    BY <1>c, <2>1 DEF Suits
  <2> QED BY <1>a, <1>c, <2>1, <2>2, BriefCallback
<1>3. CASE x.op = "nack"
  <2> DEFINE c == Callback(wiring.onNack, x.on)
             y == Do("sent", x.on)
  <2>1. (b = <<>> \/ b = c \o <<y>>) /\ x.on \in Frames
    BY <1>3, InstrFacts DEF Expand
  <2>2. \A i \in DOMAIN wiring.onNack : Suits(wiring.onNack[i], x.on)
    BY <1>c, <2>1 DEF Suits
  <2>3. Rises(c, l, 0, 0)
    BY <1>a, <1>c, <2>2, BriefCallback
  <2>4. y \in Instrs /\ y.op = "sent"
    BY <2>1, DoIsInstr, DoFacts
  <2> HIDE DEF c, y
  <2>5. Rises(<<y>>, l, 0, 0)
    BY <1>d, <2>4
  <2>6. Rises(c \o <<y>>, l, 0, 0)
    BY <2>3, <2>5, RisesCat
  <2> QED BY <2>1, <2>6, RisesEmpty
<1>4. CASE x.op \in {"retransmit", "processNacks", "collect", "endSend"}
  <2>1. MadeOps(x.op) \subseteq {"sendCallback", "retransmit", "nack", "collect",
                                 "deliver", "delete"}
    BY <1>4 DEF MadeOps
  <2> QED BY <1>0, <1>b, <2>1
<1>5. CASE x.op = "deliver"
  <2>0. x.on \in Frames /\ l # mNetMutex
    BY <1>5, InstrFacts, GuardedFacts
  <2>1. CASE ~Threaded
    <3>1. MadeOps(x.op) = {"callback", "erase"}
      BY <1>5, <2>1 DEF MadeOps
    <3> QED BY <1>0, <1>b, <3>1
  <2>2. CASE Threaded
    <3> DEFINE p == Do("push", x.on)
               e == Do("erase", x.on)
               u == Under(mDeliveryMutex, <<p>>)
    <3>1. b = u \o <<e>>
      BY <1>5, <2>2 DEF Expand
    <3>2. /\ p \in Instrs /\ p.op = "push" /\ e \in Instrs /\ e.op = "erase"
          /\ mDeliveryMutex \in Mutexes
      BY <2>0, DoIsInstr, DoFacts DEF Mutexes
    <3>3. p.op \in Guarded(l) <=> mDeliveryMutex = l
      BY <2>0, <3>2, GuardedFacts
    <3>4. Brief(u, l)
      <4> HIDE DEF p
      <4> QED BY <3>2, <3>3, BriefUnder
    <3> HIDE DEF p, e, u
    <3>5. Rises(u, l, 0, 0) /\ Rises(<<e>>, l, 0, 0)
      BY <1>a, <1>d, <3>2, <3>4
    <3> QED BY <3>1, <3>5, RisesCat
  <2> QED BY <2>1, <2>2
<1>6. CASE x.op \in {"await", "take", "stop"}
  <2>1. l # mDeliveryMutex
    BY <1>6, GuardedFacts
  <2>2. Makes(x) \subseteq {Do("unlock", mDeliveryMutex)}
                             \cup {y \in Makes(x) : y.op # "unlock"}
    BY <1>6, DoFacts DEF Makes
  <2>3. \A y \in Range(b) : y = Do("unlock", mDeliveryMutex) \/ y.op # "unlock"
    BY <1>0, <2>2
  <2>4. MadeOps(x.op) \subseteq {"unlock", "take", "sleep", "callback",
                                 "notifyAll", "join"}
    BY <1>6 DEF MadeOps
  <2>5. ASSUME NEW y \in Range(b)
        PROVE  Change(y, l) = 0
    <3>1. CASE y = Do("unlock", mDeliveryMutex)
      BY <2>1, <3>1, ChangeLock
    <3>2. CASE y.op \in {"take", "sleep"}
      BY <2>1, <3>2, ChangeHanded
    <3>3. CASE y.op \in {"callback", "notifyAll", "join"}
      BY <3>3, ChangePlain
    <3>4. y.op \in MadeOps(x.op)
      BY <1>0
    <3> QED BY <2>3, <2>4, <3>1, <3>2, <3>3, <3>4
  <2> QED BY <1>0, <2>5, RisesStill
<1>7. CASE x.op = "wake"
  <2>1. b = Awaiting
    BY <1>7 DEF Expand
  <2>2. Brief(Awaiting, l)
    BY BriefHanded DEF Awaiting
  <2> QED BY <1>a, <2>1, <2>2
<1>8. CASE x.op \in {"findSender", "findReceiver"}
  <2>0. x.on \in Packets
    BY <1>8, InstrFacts
  <2>1. Suits("send", x.on) /\ Suits("receive", x.on)
    BY <2>0 DEF Suits, Calls, Carrying
  <2>2. b = <<>> \/ b = Body("send", x.on) \/ b = Body("receive", x.on)
    BY <1>8 DEF Expand
  <2> QED BY <1>a, <2>1, <2>2, BriefBody, BriefEmpty
<1>9. CASE x.op = "endReceive"
  <2> DEFINE y == Do("delete", "receiver")
  <2>1. b = <<>> \/ b = StopBody \o StopBody \o <<y>>
    BY <1>9 DEF Expand
  <2>2. Brief(StopBody, l)
    BY BriefHanded DEF StopBody
  <2>3. y \in Instrs /\ y.op = "delete"
    BY DoIsInstr, DoFacts
  <2> HIDE DEF y
  <2>4. Rises(StopBody, l, 0, 0) /\ Rises(<<y>>, l, 0, 0)
    BY <1>a, <1>d, <2>2, <2>3
  <2>5. Rises((StopBody \o StopBody) \o <<y>>, l, 0, 0)
    BY <2>4, RisesCat
  <2> QED BY <2>1, <2>5, RisesEmpty
<1>10. CASE x.op \in {"fragment", "request", "sent", "push", "erase", "join",
                      "delete", "notifyAll"}
  <2>1. b = <<>>
    BY <1>10 DEF Expand
  <2> QED BY <2>1, RisesEmpty
<1> QED BY <1>1, <1>2, <1>3, <1>4, <1>5, <1>6, <1>7, <1>8, <1>9, <1>10,
           InstrFacts

\* What comes of an instruction done with l held.
LEMMA HeldExpand ==
    ASSUME LockOrder, wiring \in Wirings, NEW x \in Instrs,
           x.op \notin {"lock", "unlock", "sleep"}, NEW b \in Expand(x),
           NEW l \in Mutexes, NEW a \in Nat, a >= 1, a + Change(x, l) \in Nat,
           l \notin Recursive => a <= 1, Fits(wiring, x, l)
    PROVE  Rises(b, l, a, a + Change(x, l))
<1>0. /\ b \in Seq(Instrs) /\ Range(b) \subseteq Makes(x)
  BY MadeRange
<1>1. Frag(b, l, a, a + Change(x, l), Guarded(l))
  BY FragExpand
<1>2. CASE Reach(wiring, x) \subseteq After(wiring, l)
  <2>1. \A y \in Range(b) : Fits(wiring, y, l)
    BY <1>0, <1>2, MakesReach DEF Fits
  <2> QED BY <1>1, <2>1, RisesFrag
<1>3. CASE l = mDeliveryMutex /\ x.op = "await"
  <2>1. Makes(x) = {Do("take", 0), Do("sleep", 0)}
    BY <1>3 DEF Makes
  <2>2. \A y \in Range(b) : y.op \in Handing
    BY <1>0, <2>1, DoFacts DEF Handing
  <2>3. \A y \in Range(b) : Fits(wiring, y, l)
    BY <1>3, <2>2 DEF Fits
  <2> QED BY <1>1, <2>3, RisesFrag
<1>4. CASE l = mDeliveryMutex /\ x.op \in {"take", "stop"}
  <2> DEFINE u == Do("unlock", mDeliveryMutex)
             c == Turns(l)
             P == Ordered(wiring, l)
  <2>1. PICK s \in Seq(Instrs) :
          /\ b = <<u>> \o s
          /\ \A y \in Range(s) : y.op \in {"callback", "notifyAll", "join"}
    BY <1>4, HandsOver
  <2>2. u \in Instrs /\ u.op = "unlock"
    BY DoIsInstr, DoFacts DEF Mutexes
  <2>3. Change(u, l) = -1 /\ Change(x, l) = -1
    BY <1>4, ChangeLock, ChangeHanded
  <2>4. a = 1
    BY <1>4 DEF Recursive, mDeliveryMutex, mNetMutex, gHandlesMutex
  <2> HIDE DEF u
  <2>5. Fits(wiring, u, l)
    BY <2>2, GuardedFits
  <2>6. Rises(<<u>>, l, 1, 0)
    <3>1. c[u] = -1 /\ 1 \in P[u] /\ 1 + c[u] = 0
      BY <2>2, <2>3, <2>5, TurnsFacts, OrderedFacts
    <3> HIDE DEF c, P
    <3>2. 1 \in Nat /\ 1 + c[u] \in Nat /\ u \in Instrs
      BY <2>2, <3>1
    <3>3. Walk(<<u>>, c, 1, 1 + c[u], P)
      BY ONLY <3>1, <3>2, WalkOne
    <3>4. Walk(<<u>>, c, 1, 0, P)
      BY <3>1, <3>3
    <3> QED BY <3>4 DEF Rises, c, P
  <2>7. \A y \in Range(s) : Change(y, l) = 0
    <3>1. \A y : y.op \in {"callback", "notifyAll", "join"} => Change(y, l) = 0
      BY ONLY ChangePlain
    <3> QED BY ONLY <2>1, <3>1
  <2>8. Rises(s, l, 0, 0)
    BY <2>7, RisesStill
  <2>9. Rises(<<u>> \o s, l, 1, 0)
    BY ONLY <2>6, <2>8, RisesCat
  <2>10. a + Change(x, l) = 0
    BY <2>3, <2>4
  <2> QED BY <2>1, <2>4, <2>9, <2>10
<1> QED BY <1>2, <1>3, <1>4 DEF Fits, Handing

LEMMA ExpandRises ==
    ASSUME LockOrder, wiring \in Wirings, NEW x \in Instrs,
           x.op \notin {"lock", "unlock", "sleep"}, NEW b \in Expand(x),
           NEW l \in Mutexes, NEW a \in Nat, a + Change(x, l) \in Nat,
           x.op \in Guarded(l) => a >= 1, l \notin Recursive => a <= 1,
           a \in Ordered(wiring, l)[x]
    PROVE  Rises(b, l, a, a + Change(x, l))
<1>1. CASE a >= 1
  <2>1. Fits(wiring, x, l)
    BY <1>1, OrderedFacts
  <2> QED BY <1>1, <2>1, HeldExpand
<1>2. CASE a = 0
  <2>1. x.op \notin Guarded(l)
    BY <1>2
  <2>2. Rises(b, l, 0, 0)
    BY <2>1, FreeExpand
  <2>3. Change(x, l) = 0
    <3>1. CASE x.op \in {"await", "take", "stop"}
      <4>1. Change(x, l) = IF l = mDeliveryMutex THEN -1 ELSE 0
        BY <3>1, ChangeHanded
      <4>2. l # mDeliveryMutex
        BY <2>1, <3>1, GuardedFacts
      <4> QED BY <4>1, <4>2
    <3>2. CASE x.op \notin {"await", "take", "stop"}
      BY <3>2, ChangePlain
    <3> QED BY <3>1, <3>2
  <2> QED BY <1>2, <2>2, <2>3
<1> QED BY <1>1, <1>2

\* Each thread takes its mutexes in the order.
OrderKept ==
    \A t \in Threads : \A l \in Mutexes :
      Rises(todo[t], l, Held(mutex, t, l), 0)

\* A step puts b in front of the rest.
LEMMA WalkGoes ==
    ASSUME TodoOK, NEW t \in Threads, todo[t] # <<>>, NEW b \in Seq(Instrs),
           Goes(t, b), NEW c, NEW P, NEW a, NEW z,
           Walk(todo[t], c, a, 0, P), Walk(b, c, z, a + c[todo[t][1]], P)
    PROVE  Walk(todo'[t], c, z, 0, P)
<1> DEFINE s == todo[t]
           n == todo'[t]
<1>1. n = b \o Tail(s)
  BY GoesFacts
<1>2. /\ s # <<>> /\ Walk(s, c, a, 0, P) /\ Walk(b, c, z, a + c[s[1]], P)
  OBVIOUS
<1> HIDE DEF s, n
<1>3. Walk(Tail(s), c, a + c[s[1]], 0, P)
  BY <1>2, WalkTail
<1>4. Walk(b \o Tail(s), c, z, 0, P)
  BY <1>2, <1>3, WalkCat
<1>5. Walk(n, c, z, 0, P)
  BY <1>1, <1>4
<1> QED BY <1>5 DEF n

LEMMA LocksLeaveNothing ==
    ASSUME NEW x
    PROVE  /\ x.op \in {"lock", "unlock"} => Expand(x) = {<<>>}
           /\ x.op = "sleep" => Expand(x) = {<<Do("wake", 0)>>}
  BY DEF Expand

LEMMA OrderKeptByStep ==
    ASSUME LockOrder, Typed, LockInv, OrderKept, [Next]_vars,
           NEW t \in Threads, Acquire(t) \/ Step(t)
    PROVE  OrderKept'
<1> DEFINE x == todo[t][1]
<1>1. PICK b \in Expand(x) : todo[t] # <<>> /\ x \in Instrs /\ Goes(t, b)
  BY StepExpands
<1>2. wiring' = wiring /\ wiring \in Wirings /\ TodoOK
  BY WiringStays DEF Typed, TodoOK
<1>3. b \in Seq(Instrs)
  BY <1>1, <1>2, ExpandTyped
<1>4. \A u \in Threads \ {t} : todo'[u] = todo[u]
  BY <1>1, <1>2, <1>3, GoesFacts
<1>5. ASSUME NEW l \in Mutexes
      PROVE  Walk(todo'[t], Turns(l), Held(mutex', t, l), 0, Ordered(wiring, l))
  <2> DEFINE a == Held(mutex, t, l)
             z == Held(mutex', t, l)
             c == Turns(l)
             P == Ordered(wiring, l)
  <2>1. /\ z = IF x.op \in {"lock", "unlock", "sleep"} THEN a + Change(x, l) ELSE a
        /\ z \in Nat
    BY StepHolds
  <2>2. /\ a \in Nat /\ a + Change(x, l) \in Nat
        /\ x.op \in Guarded(l) => a >= 1
    BY <1>1, FirstFits DEF LockInv
  <2>3. l \notin Recursive => a <= 1
    BY DEF LockInv, MutexInv, Held
  <2>4. Walk(todo[t], c, a, 0, P)
    BY DEF OrderKept, Rises
  <2>5. a \in P[x]
    <3> HIDE DEF a, c, P
    <3> QED BY <1>1, <2>4, WalkTail
  <2>6. c[x] = Change(x, l)
    BY <1>1, TurnsFacts
  <2> HIDE DEF a, z, c
  <2>7. Walk(b, c, z, a + c[x], P)
    <3>1. CASE x.op \in {"lock", "unlock"}
      <4>1. b = <<>>
        BY <1>1, <3>1, LocksLeaveNothing
      <4>2. z = a + c[x]
        BY <2>1, <2>6, <3>1
      <4>3. z \in Nat
        BY <2>1
      <4> HIDE DEF P
      <4>4. Walk(<<>>, c, z, z, P)
        BY ONLY <4>3, WalkEmpty
      <4> QED BY ONLY <4>1, <4>2, <4>4
    <3>2. CASE x.op = "sleep"
      <4> DEFINE y == Do("wake", 0)
                 S == {y}
      <4>1. b = <<y>>
        BY <1>1, <3>2, LocksLeaveNothing
      <4>2. y \in Instrs /\ y.op = "wake"
        BY DoIsInstr, DoFacts
      <4>3. c[y] = 0
        BY <4>2, TurnsFacts, ChangePlain DEF c
      <4>4. z \in P[y]
        <5>1. CASE l = mDeliveryMutex
          <6>1. Change(x, l) = -1
            BY <3>2, <5>1, ChangeHanded
          <6>2. l \notin Recursive
            BY <5>1 DEF Recursive, mDeliveryMutex, mNetMutex, gHandlesMutex
          <6>3. ~(z >= 1)
            BY <2>1, <2>2, <2>3, <3>2, <6>1, <6>2
          <6> QED BY <2>1, <4>2, <6>3, OrderedFacts
        <5>2. CASE l # mDeliveryMutex
          <6>1. Change(x, l) = 0
            BY <3>2, <5>2, ChangeHanded
          <6>2. z = a
            BY <2>1, <2>2, <3>2, <6>1
          <6>3. a >= 1 => Reach(wiring, x) \subseteq After(wiring, l)
            BY <1>1, <2>5, <5>2, OrderedFacts DEF Fits
          <6>4. Reach(wiring, y) = Reach(wiring, x)
            BY <3>2, <4>2 DEF Reach
          <6>5. z >= 1 => Fits(wiring, y, l)
            BY <6>2, <6>3, <6>4 DEF Fits
          <6> QED BY <2>1, <4>2, <6>5, OrderedFacts
        <5> QED BY <5>1, <5>2
      <4>5. z = a + c[x]
        BY <2>1, <2>6, <3>2
      <4>6. z + c[y] = z /\ z + c[y] \in Nat
        BY <2>1, <4>3
      <4> HIDE DEF P, y
      <4>7. Walk(<<y>>, c, z, z + c[y], P)
        BY <2>1, <4>2, <4>4, <4>6, WalkOne
      <4> QED BY <4>1, <4>5, <4>6, <4>7
    <3>3. CASE x.op \notin {"lock", "unlock", "sleep"}
      <4>1. Rises(b, l, a, a + Change(x, l))
        BY <1>1, <1>2, <2>2, <2>3, <2>5, <3>3, ExpandRises
      <4>2. z = a
        BY <2>1, <3>3
      <4> QED BY <2>6, <4>1, <4>2 DEF Rises, c
    <3> QED BY <3>1, <3>2, <3>3
  <2> HIDE DEF P
  <2>8. Walk(todo'[t], c, z, 0, P)
    BY <1>1, <1>2, <1>3, <2>4, <2>7, WalkGoes
  <2> QED BY <2>8 DEF z, c, P
<1>6. ASSUME NEW u \in Threads, NEW l \in Mutexes
      PROVE  Walk(todo'[u], Turns(l), Held(mutex', u, l), 0, Ordered(wiring', l))
  <2>1. CASE u = t
    BY <1>2, <1>5, <2>1
  <2>2. CASE u # t
    <3>1. Held(mutex', u, l) = Held(mutex, u, l)
      BY <2>2, StepHolds
    <3>2. Walk(todo[u], Turns(l), Held(mutex, u, l), 0, Ordered(wiring, l))
      BY DEF OrderKept, Rises
    <3> QED BY <1>2, <1>4, <2>2, <3>1, <3>2
  <2> QED BY <2>1, <2>2
<1> QED BY <1>6 DEF OrderKept, Rises

\* A thread that starts anew holds nothing.
LEMMA OrderKeptByStart ==
    ASSUME LockOrder, Typed, OrderKept, wiring' = wiring, mutex' = mutex,
           NEW t \in Threads, NEW b \in Seq(Instrs), Starts(t, b),
           \A l \in Mutexes : Brief(b, l)
    PROVE  OrderKept'
<1>1. todo[t] = <<>> /\ todo'[t] = b /\ \A u \in Threads \ {t} : todo'[u] = todo[u]
  BY StartsGives DEF StartsFacts, Typed, Starts
<1>2. wiring \in Wirings
  BY DEF Typed, TodoOK
<1>3. ASSUME NEW u \in Threads, NEW l \in Mutexes
      PROVE  Walk(todo'[u], Turns(l), Held(mutex', u, l), 0, Ordered(wiring', l))
  <2>1. Walk(todo[u], Turns(l), Held(mutex, u, l), 0, Ordered(wiring, l))
    BY DEF OrderKept, Rises
  <2>2. CASE u = t
    <3>1. Walk(<<>>, Turns(l), Held(mutex, u, l), 0, Ordered(wiring, l))
      BY <1>1, <2>1, <2>2
    <3>2. Held(mutex, u, l) = 0
      BY <3>1, WalkNone
    <3>3. Walk(b, Turns(l), 0, 0, Ordered(wiring, l))
      BY <1>2, RisesBrief DEF Rises
    <3> QED BY <1>1, <2>2, <3>2, <3>3
  <2>3. CASE u # t
    BY <1>1, <2>1, <2>3
  <2> QED BY <2>2, <2>3
<1> QED BY <1>3 DEF OrderKept, Rises

\* By how much gHandlesMutex is held more often than mMutex.
Ahead == [x \in Instrs |-> Change(x, gHandlesMutex) - Change(x, mMutex)]

Anyhow == [x \in Instrs |-> Nat]

\* Used by its handle only, the sender is locked with gHandlesMutex held.
HandlesFirst ==
    SenderByHandle(wiring) =>
      \A t \in Threads :
        Walk(todo[t], Ahead,
             Held(mutex, t, gHandlesMutex) - Held(mutex, t, mMutex), 0, Anyhow)

LEMMA AheadFacts ==
    ASSUME NEW x \in Instrs
    PROVE  /\ Ahead[x] = Change(x, gHandlesMutex) - Change(x, mMutex)
           /\ Anyhow[x] = Nat
           /\ x.op \notin {"lock", "unlock"} => Ahead[x] = 0
           /\ Change(x, gHandlesMutex) \in Int /\ Change(x, mMutex) \in Int
<1>1. Ahead[x] = Change(x, gHandlesMutex) - Change(x, mMutex) /\ Anyhow[x] = Nat
  BY DEF Ahead, Anyhow
<1>2. ASSUME x.op \notin {"lock", "unlock"}
      PROVE  Change(x, gHandlesMutex) = 0 /\ Change(x, mMutex) = 0
  <2>1. mDeliveryMutex # gHandlesMutex /\ mDeliveryMutex # mMutex
    BY DEF mDeliveryMutex, gHandlesMutex, mMutex
  <2>2. CASE x.op \in {"await", "take", "sleep", "stop"}
    BY <2>1, <2>2, ChangeHanded
  <2>3. CASE x.op \notin {"await", "take", "sleep", "stop"}
    BY <1>2, <2>3, ChangePlain
  <2> QED BY <2>2, <2>3
<1>3. Change(x, gHandlesMutex) \in Int /\ Change(x, mMutex) \in Int
  BY ChangeIsInt
<1> QED BY <1>1, <1>2, <1>3

\* What leaves mMutex alone.
LEMMA NoSenderLock ==
    ASSUME NEW y, \/ y.op \notin {"lock", "unlock"}
                  \/ \E l \in Mutexes \ {mMutex} :
                       y = Do("lock", l) \/ y = Do("unlock", l)
    PROVE  Change(y, mMutex) = 0
<1>1. mDeliveryMutex # mMutex
  BY DEF mDeliveryMutex, mMutex
<1>2. CASE y.op \notin {"lock", "unlock"}
  <2>1. CASE y.op \in {"await", "take", "sleep", "stop"}
    BY <1>1, <2>1, ChangeHanded
  <2>2. CASE y.op \notin {"await", "take", "sleep", "stop"}
    BY <1>2, <2>2, ChangePlain
  <2> QED BY <2>1, <2>2
<1>3. ASSUME NEW l \in Mutexes \ {mMutex},
             y = Do("lock", l) \/ y = Do("unlock", l)
      PROVE  Change(y, mMutex) = 0
  BY <1>3, ChangeLock
<1> QED BY <1>2, <1>3

SenderCalls == {"send", "receiveNack", "processRetransmits"}

LEMMA NeedsNoSender ==
    ASSUME NEW call \in Calls \ SenderCalls, NEW p, NEW y \in Needs(call, p)
    PROVE  Change(y, mMutex) = 0
<1>1. /\ mNetMutex \in Mutexes \ {mMutex} /\ mDeliveryMutex \in Mutexes \ {mMutex}
      /\ gHandlesMutex \in Mutexes \ {mMutex}
  BY DEF Mutexes, mNetMutex, mDeliveryMutex, mMutex, gHandlesMutex
<1>2. \/ y.op \notin {"lock", "unlock"}
      \/ \E l \in {mNetMutex, mDeliveryMutex, gHandlesMutex} :
           y = Do("lock", l) \/ y = Do("unlock", l)
  <2>1. CASE call \in {"receive", "poll"}
    BY <2>1, DoFacts DEF Needs
  <2>2. CASE call = "stop"
    BY <2>2, DoFacts DEF Needs
  <2>3. CASE call \in {"efp_send_data", "efp_receive_fragment"}
    BY <2>3, DoFacts DEF Needs
  <2>4. CASE call \in {"efp_end_send", "efp_end_receive"}
    BY <2>4, DoFacts DEF Needs
  <2> QED BY <2>1, <2>2, <2>3, <2>4 DEF Calls, Carrying, SenderCalls
<1> QED BY <1>1, <1>2, NoSenderLock

LEMMA MakesNoSender ==
    ASSUME wiring \in Wirings, SenderByHandle(wiring), NEW x \in Instrs,
           x.op # "findSender", NEW y \in Makes(x)
    PROVE  Change(y, mMutex) = 0
<1>0. /\ mNetMutex \in Mutexes \ {mMutex} /\ mDeliveryMutex \in Mutexes \ {mMutex}
      /\ gHandlesMutex \in Mutexes \ {mMutex}
  BY DEF Mutexes, mNetMutex, mDeliveryMutex, mMutex, gHandlesMutex
<1>a. ASSUME NEW wired, \A i \in DOMAIN wired : wired[i] \in Calls \ SenderCalls,
             NEW p, y \in CallsNeed(wired, p)
      PROVE  Change(y, mMutex) = 0
  BY <1>a, NeedsNoSender DEF CallsNeed
<1>b. /\ \A i \in DOMAIN wiring.onSend : wiring.onSend[i] \in Calls \ SenderCalls
      /\ \A i \in DOMAIN wiring.onReceive :
           wiring.onReceive[i] \in Calls \ SenderCalls
      /\ \A i \in DOMAIN wiring.onNack : wiring.onNack[i] \in Calls \ SenderCalls
  BY WiredSets DEF SenderByHandle, CalledBack, SenderCalls
<1>1. CASE x.op \in {"sendCallback", "callback", "nack"}
  <2>1. \/ y \in CallsNeed(wiring.onSend, x.on)
        \/ y \in CallsNeed(wiring.onReceive, Ended(x.on))
        \/ y \in CallsNeed(wiring.onNack, x.on)
        \/ y.op = "sent"
    BY <1>1, DoFacts DEF Makes
  <2> QED BY <1>a, <1>b, <2>1, NoSenderLock
<1>2. CASE x.op \in {"retransmit", "processNacks", "collect", "endSend"}
  <2>1. y.op \in {"sendCallback", "retransmit", "nack", "collect", "deliver",
                  "delete"}
    BY <1>2, DoFacts DEF Makes
  <2> QED BY <2>1, NoSenderLock
<1>3. CASE x.op \in {"deliver", "wake", "endReceive", "take", "stop", "await",
                     "sleep"}
  <2>1. \/ y \in {Do("lock", mDeliveryMutex), Do("unlock", mDeliveryMutex)}
        \/ y.op \in {"push", "erase", "callback", "await", "stop", "delete",
                     "notifyAll", "join", "take", "sleep", "wake"}
    <3>1. CASE x.op = "deliver"
      BY <3>1, DoFacts DEF Makes
    <3>2. CASE x.op \in {"wake", "endReceive"}
      BY <3>2, DoFacts DEF Makes
    <3>3. CASE x.op \in {"take", "stop"}
      BY <3>3, DoFacts DEF Makes
    <3>4. CASE x.op \in {"await", "sleep"}
      BY <3>4, DoFacts DEF Makes
    <3> QED BY <1>3, <3>1, <3>2, <3>3, <3>4
  <2> QED BY <1>0, <2>1, NoSenderLock
<1>4. CASE x.op = "findReceiver"
  <2>1. y \in Needs("receive", x.on) /\ "receive" \in Calls \ SenderCalls
    BY <1>4 DEF Makes, Calls, Carrying, SenderCalls
  <2> QED BY <2>1, NeedsNoSender
<1>5. CASE x.op \in {"lock", "unlock", "fragment", "request", "sent", "push",
                     "erase", "join", "delete", "notifyAll"}
  BY <1>5 DEF Makes
<1> QED BY <1>1, <1>2, <1>3, <1>4, <1>5, InstrFacts

\* Instructions that leave mMutex alone, and gHandlesMutex as it was.
LEMMA AheadFrag ==
    ASSUME NEW s, NEW d, NEW K, Frag(s, gHandlesMutex, d, d, K),
           \A y \in Range(s) : Change(y, mMutex) = 0
    PROVE  Walk(s, Ahead, d, d, Anyhow)
<1> DEFINE c == Turns(gHandlesMutex)
           P == Finding(K)
<1>1. Walk(s, c, d, d, P)
  BY DEF Frag
<1>2. s \in Seq(Instrs) /\ d \in Nat
  BY <1>1, WalkEnds
<1>3. ASSUME NEW y \in Range(s)
      PROVE  /\ Ahead[y] = c[y] /\ c[y] \in Int
             /\ \A n \in Nat : n \in P[y] => n + 0 \in Anyhow[y]
  <2>1. y \in Instrs
    BY <1>2, PlacesOfSeq
  <2>2. Change(y, mMutex) = 0 /\ Change(y, gHandlesMutex) \in Int
    BY <2>1, AheadFacts
  <2>3. Ahead[y] = Change(y, gHandlesMutex) /\ Anyhow[y] = Nat
    BY <2>1, <2>2, AheadFacts
  <2>4. c[y] = Change(y, gHandlesMutex)
    BY <2>1, TurnsFacts
  <2> HIDE DEF c, P
  <2> QED BY <2>2, <2>3, <2>4
<1> HIDE DEF c, P
<1>4. Walk(s, Ahead, d + 0, d + 0, Anyhow)
  BY <1>1, <1>3, WalkMove
<1>5. d + 0 = d
  BY <1>2
<1> QED BY <1>4, <1>5

LEMMA AheadExpand ==
    ASSUME wiring \in Wirings, SenderByHandle(wiring), NEW x \in Instrs,
           NEW b \in Expand(x), NEW d \in Nat, x.op = "findSender" => d >= 1
    PROVE  Walk(b, Ahead, d, d, Anyhow)
<1>1. CASE x.op # "findSender"
  <2>1. Frag(b, gHandlesMutex, d, d, {})
    BY ExpandKeepsHandles
  <2>2. \A y \in Range(b) : Change(y, mMutex) = 0
    BY <1>1, MadeRange, MakesNoSender
  <2> QED BY <2>1, <2>2, AheadFrag
<1>2. CASE x.op = "findSender"
  <2> DEFINE p == Do("lock", mMutex)
             y == Do("sendCallback", x.on)
             v == Do("unlock", mMutex)
  <2>1. b = <<>> \/ b = (<<p>> \o <<y>>) \o <<v>>
    BY <1>2 DEF Expand, Body, Under
  <2>2. /\ p \in Instrs /\ v \in Instrs /\ y \in Instrs /\ y.op = "sendCallback"
    BY <1>2, InstrFacts, DoIsInstr, DoFacts DEF Mutexes
  <2>3. gHandlesMutex # mMutex
    BY DEF gHandlesMutex, mMutex
  <2>4. Ahead[p] = 0 - 1 /\ Ahead[v] = 1 /\ Ahead[y] = 0
    BY <2>2, <2>3, AheadFacts, ChangeLock
  <2>5. Anyhow[p] = Nat /\ Anyhow[v] = Nat /\ Anyhow[y] = Nat
    BY <2>2, AheadFacts
  <2> HIDE DEF p, y, v
  <2> DEFINE e == d + Ahead[p]
  <2>6. e \in Nat /\ e + Ahead[y] = e /\ e + Ahead[v] = d
    BY <1>2, <2>4
  <2>7. Walk(<<p>>, Ahead, d, e, Anyhow)
    BY <2>2, <2>5, <2>6, WalkOne
  <2> HIDE DEF e
  <2>8. Walk(<<y>>, Ahead, e, e, Anyhow)
    <3>1. Walk(<<y>>, Ahead, e, e + Ahead[y], Anyhow)
      BY <2>2, <2>5, <2>6, WalkOne
    <3> QED BY <2>6, <3>1
  <2>9. Walk(<<v>>, Ahead, e, d, Anyhow)
    <3>1. Walk(<<v>>, Ahead, e, e + Ahead[v], Anyhow)
      BY <2>2, <2>5, <2>6, WalkOne
    <3> QED BY <2>6, <3>1
  <2>10. Walk((<<p>> \o <<y>>) \o <<v>>, Ahead, d, d, Anyhow)
    <3>1. Walk(<<p>> \o <<y>>, Ahead, d, e, Anyhow)
      BY ONLY <2>7, <2>8, WalkCat
    <3> QED BY ONLY <2>9, <3>1, WalkCat
  <2>11. Walk(<<>>, Ahead, d, d, Anyhow)
    BY WalkEmpty
  <2> QED BY <2>1, <2>10, <2>11
<1> QED BY <1>1, <1>2

LEMMA RoundInstrs ==
    /\ Range(Round) \subseteq {Do("lock", mNetMutex), Do("processNacks", 0),
                               Do("unlock", mNetMutex)}
    /\ Range(Awaiting) \subseteq {Do("lock", mDeliveryMutex), Do("await", 0)}
<1> DEFINE S == {Do("lock", mNetMutex), Do("processNacks", 0),
                 Do("unlock", mNetMutex)}
           T == {Do("lock", mDeliveryMutex), Do("await", 0)}
<1>1. Round \in Seq(S)
  BY SmallSeqs DEF Round, Under
<1>2. Awaiting \in Seq(T)
  BY SmallSeqs DEF Awaiting
<1> QED BY <1>1, <1>2, PlacesOfSeq

LEMMA HandlesFirstByStep ==
    ASSUME LockOrder, Typed, LockInv, OrderKept, HandlesFirst, [Next]_vars,
           NEW t \in Threads, Acquire(t) \/ Step(t)
    PROVE  HandlesFirst'
<1> DEFINE x == todo[t][1]
           g == gHandlesMutex
           m == mMutex
           Lead(mx, u) == Held(mx, u, g) - Held(mx, u, m)
<1>1. PICK b \in Expand(x) : todo[t] # <<>> /\ x \in Instrs /\ Goes(t, b)
  BY StepExpands
<1>2. wiring' = wiring /\ wiring \in Wirings /\ TodoOK
  BY WiringStays DEF Typed, TodoOK
<1>3. b \in Seq(Instrs)
  BY <1>1, <1>2, ExpandTyped
<1>4. \A u \in Threads \ {t} : todo'[u] = todo[u]
  BY <1>1, <1>2, <1>3, GoesFacts
<1>5. g \in Mutexes /\ m \in Mutexes
  BY DEF Mutexes
<1>6. ASSUME SenderByHandle(wiring)
      PROVE  Walk(todo'[t], Ahead, Lead(mutex', t), 0, Anyhow)
  <2> DEFINE a == Lead(mutex, t)
             z == Lead(mutex', t)
  <2>1. Walk(todo[t], Ahead, a, 0, Anyhow)
    BY <1>6 DEF HandlesFirst
  <2>2. a \in Nat /\ a + Ahead[x] \in Nat
    <3> HIDE DEF a
    <3> QED BY <1>1, <2>1, WalkTail, WalkEnds
  <2>3. /\ Held(mutex, t, g) \in Nat /\ Held(mutex, t, m) \in Nat
        /\ x.op \in Guarded(g) => Held(mutex, t, g) >= 1
    BY <1>1, <1>5, FirstFits DEF LockInv
  <2>4. Ahead[x] = Change(x, g) - Change(x, m)
        /\ Change(x, g) \in Int /\ Change(x, m) \in Int
    BY <1>1, AheadFacts
  <2>5. x.op \notin {"lock", "unlock"} => Ahead[x] = 0
    BY <1>1, AheadFacts
  <2>6. z = a + Ahead[x]
    <3>1. CASE x.op \in {"lock", "unlock", "sleep"}
      <4>1. /\ Held(mutex', t, g) = Held(mutex, t, g) + Change(x, g)
            /\ Held(mutex', t, m) = Held(mutex, t, m) + Change(x, m)
        BY <1>5, <3>1, StepHolds
      <4> HIDE DEF x
      <4> QED BY <2>3, <2>4, <4>1
    <3>2. CASE x.op \notin {"lock", "unlock", "sleep"}
      <4>1. /\ Held(mutex', t, g) = Held(mutex, t, g)
            /\ Held(mutex', t, m) = Held(mutex, t, m)
        BY <1>5, <3>2, StepHolds
      <4>2. Ahead[x] = 0
        BY <2>5, <3>2
      <4> HIDE DEF x
      <4> QED BY <2>3, <4>1, <4>2
    <3> QED BY <3>1, <3>2
  <2>7. x.op = "findSender" => a >= 1
    <3> SUFFICES ASSUME x.op = "findSender" PROVE a >= 1
      OBVIOUS
    <3>1. Held(mutex, t, g) >= 1
      BY <1>5, <2>3, GuardedFacts
    <3>2. Held(mutex, t, m) = 0
      <4> SUFFICES ASSUME Held(mutex, t, m) >= 1 PROVE FALSE
        BY <2>3
      <4>1. Held(mutex, t, m) \in Ordered(wiring, m)[x]
        <5> DEFINE c == Turns(m)
                   P == Ordered(wiring, m)
                   h == Held(mutex, t, m)
        <5>1. Walk(todo[t], c, h, 0, P)
          BY <1>5 DEF OrderKept, Rises
        <5> HIDE DEF c, P, h
        <5>2. h \in P[todo[t][1]]
          BY <1>1, <5>1, WalkTail
        <5> QED BY <5>2 DEF P, h
      <4>2. Fits(wiring, x, m)
        BY <1>1, <4>1, OrderedFacts
      <4>3. Reach(wiring, x) \subseteq After(wiring, m)
        BY <4>2 DEF Fits, mMutex, mDeliveryMutex
      <4>4. mMutex \in Reach(wiring, x)
        <5>1. Reach(wiring, x) = Takes(wiring, {"send"})
          BY DEF Reach
        <5>2. {"send"} \in SUBSET Calls /\ "send" \in {"send"}
          BY DEF Calls, Carrying
        <5>3. Own(wiring, "send") = {mMutex}
          BY DEF Own
        <5> QED BY <1>2, <5>1, <5>2, <5>3, TakesFacts
      <4>5. PICK o \in Orders : After(wiring, m) = AfterIn(wiring, o, m)
        BY <1>2, <1>5, OrderFacts DEF Waited
      <4>6. m \notin AfterIn(wiring, o, m)
        <5>1. o[m] \in 1..6
          BY <1>5 DEF Orders, Waited
        <5> QED BY <5>1 DEF AfterIn, Recursive, mMutex, mNetMutex, gHandlesMutex
      <4> QED BY <4>3, <4>4, <4>5, <4>6
    <3> QED BY <2>3, <3>1, <3>2
  <2> HIDE DEF a, z
  <2>8. Walk(b, Ahead, z, a + Ahead[x], Anyhow)
    <3>1. CASE x.op \in {"lock", "unlock"}
      <4>1. b = <<>>
        BY <1>1, <3>1, LocksLeaveNothing
      <4>2. z \in Nat
        BY <2>2, <2>6
      <4>3. Walk(<<>>, Ahead, z, z, Anyhow)
        BY ONLY <4>2, WalkEmpty
      <4> QED BY ONLY <2>6, <4>1, <4>3
    <3>2. CASE x.op \notin {"lock", "unlock"}
      <4>1. Walk(b, Ahead, a, a, Anyhow)
        BY <1>1, <1>2, <1>6, <2>2, <2>7, AheadExpand
      <4>2. a + Ahead[x] = a
        BY <2>2, <2>5, <3>2
      <4> QED BY <2>6, <4>1, <4>2
    <3> QED BY <3>1, <3>2
  <2>9. Walk(todo'[t], Ahead, z, 0, Anyhow)
    BY <1>1, <1>2, <1>3, <2>1, <2>8, WalkGoes
  <2> QED BY <2>9 DEF z
<1>7. ASSUME SenderByHandle(wiring), NEW u \in Threads
      PROVE  Walk(todo'[u], Ahead, Lead(mutex', u), 0, Anyhow)
  <2>1. CASE u = t
    BY <1>6, <1>7, <2>1
  <2>2. CASE u # t
    <3>1. Lead(mutex', u) = Lead(mutex, u)
      <4>1. Held(mutex', u, g) = Held(mutex, u, g)
            /\ Held(mutex', u, m) = Held(mutex, u, m)
        BY <1>5, <2>2, StepHolds
      <4> QED BY <4>1
    <3>2. Walk(todo[u], Ahead, Lead(mutex, u), 0, Anyhow)
      BY <1>7 DEF HandlesFirst
    <3> HIDE DEF Lead
    <3> QED BY <1>4, <2>2, <3>1, <3>2
  <2> QED BY <2>1, <2>2
<1> QED BY <1>2, <1>7 DEF HandlesFirst

LEMMA HandlesFirstByStart ==
    ASSUME Typed, LockInv, HandlesFirst, wiring' = wiring, mutex' = mutex,
           NEW t \in Threads, NEW b \in Seq(Instrs), Starts(t, b),
           SenderByHandle(wiring) => \A y \in Range(b) : Change(y, mMutex) = 0,
           Brief(b, gHandlesMutex)
    PROVE  HandlesFirst'
<1> DEFINE Lead(u) == Held(mutex, u, gHandlesMutex) - Held(mutex, u, mMutex)
<1>1. todo[t] = <<>> /\ todo'[t] = b /\ \A u \in Threads \ {t} : todo'[u] = todo[u]
  BY StartsGives DEF StartsFacts, Typed, Starts
<1>2. ASSUME SenderByHandle(wiring), NEW u \in Threads
      PROVE  Walk(todo'[u], Ahead, Lead(u), 0, Anyhow)
  <2>1. Walk(todo[u], Ahead, Lead(u), 0, Anyhow)
    BY <1>2 DEF HandlesFirst
  <2> HIDE DEF Lead
  <2>2. CASE u = t
    <3>1. Walk(<<>>, Ahead, Lead(u), 0, Anyhow)
      BY <1>1, <2>1, <2>2
    <3>2. Lead(u) = 0
      BY ONLY <3>1, WalkNone
    <3>3. Frag(b, gHandlesMutex, 0, 0, Guarded(gHandlesMutex))
      BY BriefFrag
    <3>4. Walk(b, Ahead, 0, 0, Anyhow)
      BY <1>2, <3>3, AheadFrag
    <3> QED BY <1>1, <2>2, <3>2, <3>4
  <2>3. CASE u # t
    BY <1>1, <2>1, <2>3
  <2> QED BY <2>2, <2>3
<1> QED BY <1>2 DEF HandlesFirst

\* What the loops do comes after them.
LoopsInOrder ==
    /\ ~Threaded => Loops \subseteq ended
    /\ \A w \in Loops : todo[w] # <<>> => Threaded
    /\ \A w \in Loops : \A y \in Range(todo[w]) :
         Reach(wiring, y) \subseteq After(wiring, w)

LEMMA LoopsInOrderByStep ==
    ASSUME LockOrder, Typed, LoopsInOrder, [Next]_vars,
           ended' = ended, NEW t \in Threads, NEW b \in Expand(todo[t][1]),
           todo[t] # <<>>, todo[t][1] \in Instrs, Goes(t, b)
    PROVE  LoopsInOrder'
<1> DEFINE x == todo[t][1]
<1>1. wiring' = wiring /\ wiring \in Wirings /\ TodoOK
  BY WiringStays DEF Typed, TodoOK
<1>2. b \in Seq(Instrs) /\ Range(b) \subseteq Makes(x)
  BY <1>1, MadeRange
<1>3. \A u \in Threads \ {t} : todo'[u] = todo[u]
  BY <1>1, <1>2, GoesFacts
<1>4. /\ Range(todo'[t]) \subseteq Range(b) \cup Range(todo[t])
      /\ x \in Range(todo[t])
  BY <1>1, <1>2, GoesRanges
<1>5. Loops \subseteq Threads
  BY LoopsAreThreads
<1>6. ASSUME NEW w \in Loops, NEW y \in Range(todo'[w])
      PROVE  Reach(wiring, y) \subseteq After(wiring, w)
  <2>1. CASE w = t
    <3>1. Reach(wiring, x) \subseteq After(wiring, w)
      BY <1>4, <2>1 DEF LoopsInOrder
    <3>2. CASE y \in Range(b)
      BY <1>1, <1>2, <3>1, <3>2, MakesReach
    <3>3. CASE y \in Range(todo[t])
      BY <2>1, <3>3 DEF LoopsInOrder
    <3> QED BY <1>4, <1>6, <2>1, <3>2, <3>3
  <2>2. CASE w # t
    BY <1>3, <1>5, <1>6, <2>2 DEF LoopsInOrder
  <2> QED BY <2>1, <2>2
<1>7. \A w \in Loops : todo'[w] # <<>> => Threaded
  BY <1>3, <1>5 DEF LoopsInOrder
<1>8. Threaded' <=> Threaded
  BY <1>1 DEF Threaded
<1> QED BY <1>1, <1>6, <1>7, <1>8 DEF LoopsInOrder

LEMMA LoopsInOrderByStart ==
    ASSUME LockOrder, Typed, LoopsInOrder, [Next]_vars, ended' = ended,
           NEW t \in Threads, NEW b \in Seq(Instrs), Starts(t, b),
           t \in Loops => b \in {Round, Awaiting} /\ t \notin ended,
           t = "worker" => b = Round, t = "delivery" => b = Awaiting
    PROVE  LoopsInOrder'
<1>1. wiring' = wiring /\ wiring \in Wirings
  BY WiringStays DEF Typed, TodoOK
<1>2. todo'[t] = b /\ \A u \in Threads \ {t} : todo'[u] = todo[u]
  BY StartsGives DEF StartsFacts, Typed
<1>3. Loops \subseteq Threads
  BY LoopsAreThreads
<1>4. Threaded' <=> Threaded
  BY <1>1 DEF Threaded
<1>5. t \in Loops => Threaded
  BY DEF LoopsInOrder
<1>6. ASSUME t \in Loops, NEW y \in Range(b)
      PROVE  Reach(wiring, y) \subseteq After(wiring, t)
  <2>0. wiring.mode = "THREADED"
    BY <1>5, <1>6 DEF Threaded
  <2>1. Within(wiring, t) \subseteq After(wiring, t)
    BY <1>1, <1>6, OrderFacts DEF Waited
  <2>2. Reach(wiring, y) \subseteq Within(wiring, t)
    <3>1. CASE t = "worker"
      <4>1. y \in {Do("lock", mNetMutex), Do("processNacks", 0),
                   Do("unlock", mNetMutex)}
        BY <1>6, <3>1, RoundInstrs
      <4>2. \/ Reach(wiring, y) = {mNetMutex} \/ Reach(wiring, y) = Pass(wiring)
            \/ Reach(wiring, y) = {}
        BY <4>1, DoFacts DEF Reach
      <4>3. Within(wiring, t) = {mNetMutex} \cup Pass(wiring)
        BY <2>0, <3>1 DEF Within, mMutex, mNetMutex, gHandlesMutex
      <4> QED BY <4>2, <4>3
    <3>2. CASE t = "delivery"
      <4>1. y \in {Do("lock", mDeliveryMutex), Do("await", 0)}
        BY <1>6, <3>2, RoundInstrs
      <4>2. \/ Reach(wiring, y) = {mDeliveryMutex}
            \/ Reach(wiring, y) = {mDeliveryMutex}
                                    \cup Takes(wiring, Range(wiring.onReceive))
        BY <4>1, DoFacts DEF Reach
      <4>3. Within(wiring, t) = {mDeliveryMutex}
                                  \cup Takes(wiring, Range(wiring.onReceive))
        BY <2>0, <3>2 DEF Within, mMutex, mNetMutex, gHandlesMutex
      <4> QED BY <4>2, <4>3
    <3> QED BY <1>6, <3>1, <3>2 DEF Loops
  <2> QED BY <2>1, <2>2
<1>7. ASSUME NEW w \in Loops, NEW y \in Range(todo'[w])
      PROVE  Reach(wiring, y) \subseteq After(wiring, w)
  <2>1. CASE w = t
    BY <1>2, <1>6, <1>7, <2>1
  <2>2. CASE w # t
    BY <1>2, <1>3, <1>7, <2>2 DEF LoopsInOrder
  <2> QED BY <2>1, <2>2
<1>8. \A w \in Loops : todo'[w] # <<>> => Threaded
  BY <1>2, <1>3, <1>5 DEF LoopsInOrder
<1> QED BY <1>1, <1>4, <1>7, <1>8 DEF LoopsInOrder

LEMMA LoopsInOrderByEnd ==
    ASSUME LoopsInOrder, [Next]_vars, todo' = todo, ended \subseteq ended'
    PROVE  LoopsInOrder'
<1>1. wiring' = wiring
  BY WiringStays
<1>2. Threaded' <=> Threaded
  BY <1>1 DEF Threaded
<1> QED BY <1>1, <1>2 DEF LoopsInOrder

OrderInv == OrderKept /\ HandlesFirst /\ LoopsInOrder

LEMMA OrderByStep ==
    ASSUME LockOrder, Typed, LockInv, OrderInv, [Next]_vars,
           NEW t \in Threads, Acquire(t) \/ Step(t)
    PROVE  OrderInv'
<1>1. PICK b \in Expand(todo[t][1]) :
        todo[t] # <<>> /\ todo[t][1] \in Instrs /\ Goes(t, b)
  BY StepExpands
<1>2. ended' = ended
  BY DEF Acquire, Step, life, Unlock, SendCallback, Request, Retransmit,
         Fragment, ProcessNacks, Nack, NackSent, Collect, Deliver, Push,
         Erase, ReceiveCallback, Await, Sleep, Wake, Take, Stop, NotifyAll,
         Join, Find, Delete
<1>3. LoopsInOrder'
  BY <1>1, <1>2, LoopsInOrderByStep DEF OrderInv
<1> QED BY <1>3, OrderKeptByStep, HandlesFirstByStep DEF OrderInv

LEMMA OrderByStart ==
    ASSUME LockOrder, Typed, LockInv, OrderInv, [Next]_vars, mutex' = mutex,
           ended' = ended, NEW t \in Threads, NEW b \in Seq(Instrs), Starts(t, b),
           \A l \in Mutexes : Brief(b, l),
           SenderByHandle(wiring) => \A y \in Range(b) : Change(y, mMutex) = 0,
           t \in Loops => b \in {Round, Awaiting} /\ t \notin ended,
           t = "worker" => b = Round, t = "delivery" => b = Awaiting
    PROVE  OrderInv'
<1>1. wiring' = wiring
  BY WiringStays
<1>2. gHandlesMutex \in Mutexes
  BY DEF Mutexes
<1>3. OrderKept'
  BY <1>1, OrderKeptByStart DEF OrderInv
<1>4. HandlesFirst'
  BY <1>1, <1>2, HandlesFirstByStart DEF OrderInv
<1>5. LoopsInOrder'
  BY LoopsInOrderByStart DEF OrderInv
<1> QED BY <1>3, <1>4, <1>5 DEF OrderInv

LEMMA OrderByCall ==
    ASSUME LockOrder, Typed, LockInv, OrderInv, [Next]_vars,
           NEW t \in Apps, Call(t)
    PROVE  OrderInv'
<1>1. PICK call, p : /\ call \in wiring.menu[t] /\ Suits(call, p)
                     /\ Starts(t, Body(call, p))
  BY CallBegins DEF Begins
<1> DEFINE b == Body(call, p)
<1>2. mutex' = mutex /\ ended' = ended
  BY DEF Call, life
<1>3. call \in Calls
  BY <1>1 DEF Suits
<1>4. b \in Seq(Instrs) /\ b \in Seq(Needs(call, p))
  BY <1>1, <1>3, BodyTyped, BodyNeeds
<1>5. \A l \in Mutexes : Brief(b, l)
  BY <1>1, BriefBody
<1>6. t \in Threads /\ t \notin Loops /\ t \notin {"worker", "delivery"}
  BY LoopsAreThreads DEF Loops
<1> HIDE DEF b
<1>7. Range(b) \subseteq Needs(call, p)
  BY <1>4, PlacesOfSeq
<1>8. ASSUME SenderByHandle(wiring), NEW y \in Range(b)
      PROVE  Change(y, mMutex) = 0
  <2>1. call \in OnMenus(wiring)
    BY <1>1 DEF OnMenus
  <2>2. call \notin SenderCalls
    BY <1>8, <2>1 DEF SenderByHandle, SenderCalls
  <2> QED BY <1>3, <1>7, <2>2, NeedsNoSender
<1>9. Starts(t, b)
  BY <1>1 DEF b
<1> QED BY <1>2, <1>4, <1>5, <1>6, <1>8, <1>9, OrderByStart

LEMMA OrderByRound ==
    ASSUME LockOrder, Typed, LockInv, OrderInv, [Next]_vars, mutex' = mutex,
           ended' = ended, NEW t \in Loops, t \notin ended,
           NEW b, t = "worker" => b = Round, t = "delivery" => b = Awaiting,
           Starts(t, b)
    PROVE  OrderInv'
<1>1. t \in Threads /\ b \in {Round, Awaiting} /\ b \in Seq(Instrs)
  BY LoopsAreThreads, LoopsTyped DEF Loops
<1>2. \A l \in Mutexes : Brief(b, l)
  BY <1>1, BriefRound, BriefHanded DEF Awaiting
<1>3. ASSUME NEW y \in Range(b)
      PROVE  Change(y, mMutex) = 0
  <2>1. \/ y.op \notin {"lock", "unlock"}
        \/ y \in {Do("lock", mNetMutex), Do("unlock", mNetMutex),
                  Do("lock", mDeliveryMutex)}
    BY <1>1, RoundInstrs, DoFacts
  <2>2. mNetMutex \in Mutexes \ {mMutex} /\ mDeliveryMutex \in Mutexes \ {mMutex}
    BY DEF Mutexes, mNetMutex, mDeliveryMutex, mMutex
  <2> QED BY <2>1, <2>2, NoSenderLock
<1> QED BY <1>1, <1>2, <1>3, OrderByStart

LEMMA OrderInvariance ==
    ASSUME LockOrder, Typed, LockInv, OrderInv, [Next]_vars
    PROVE  OrderInv'
<1>1. ASSUME todo' = todo, mutex' = mutex, ended \subseteq ended'
      PROVE  OrderInv'
  <2>1. wiring' = wiring
    BY WiringStays
  <2>2. LoopsInOrder'
    BY <1>1, LoopsInOrderByEnd DEF OrderInv
  <2>3. OrderKept'
    BY <1>1, <2>1 DEF OrderInv, OrderKept, Rises
  <2>4. HandlesFirst'
    BY <1>1, <2>1 DEF OrderInv, HandlesFirst
  <2> QED BY <2>2, <2>3, <2>4 DEF OrderInv
<1>2. CASE WorkerLoop
  <2>1. /\ "worker" \in Loops /\ "worker" \notin ended /\ mutex' = mutex
        /\ \/ Starts("worker", Round) /\ ended' = ended
           \/ todo' = todo /\ ended' = ended \cup {"worker"}
    BY <1>2 DEF WorkerLoop, Loops, Starts
  <2> QED BY <1>1, <2>1, OrderByRound
<1>3. CASE DeliveryLoop
  <2>1. /\ "delivery" \in Loops /\ "delivery" \notin ended /\ mutex' = mutex
        /\ \/ Starts("delivery", Awaiting) /\ ended' = ended
           \/ todo' = todo /\ ended' = ended \cup {"delivery"}
    BY <1>3 DEF DeliveryLoop, Loops, Starts
  <2> QED BY <1>1, <2>1, OrderByRound
<1>4. CASE WakeSpuriously \/ UNCHANGED vars
  <2>1. todo' = todo /\ mutex' = mutex /\ ended' = ended
    BY <1>4 DEF WakeSpuriously, vars
  <2> QED BY <1>1, <2>1
<1>5. CASE \E t \in Threads : Acquire(t) \/ Step(t)
  BY <1>5, OrderByStep
<1>6. CASE \E t \in Apps : Call(t)
  BY <1>6, OrderByCall
<1> QED BY <1>2, <1>3, <1>4, <1>5, <1>6 DEF Next

LEMMA OrderInitially == Init => OrderInv
<1> SUFFICES ASSUME Init PROVE OrderInv
  OBVIOUS
<1>1. \A t \in Threads : todo[t] = <<>>
  BY DEF Init
<1>2. \A l \in Mutexes : \A t \in Threads : Held(mutex, t, l) = 0
  BY DEF Init, Held
<1>3. gHandlesMutex \in Mutexes /\ mMutex \in Mutexes
  BY DEF Mutexes
<1>4. OrderKept
  BY <1>1, <1>2, RisesEmpty DEF OrderKept
<1>5. Walk(<<>>, Ahead, 0, 0, Anyhow)
  BY WalkEmpty
<1>6. HandlesFirst
  <2>1. ASSUME NEW t \in Threads
        PROVE  Walk(todo[t], Ahead,
                 Held(mutex, t, gHandlesMutex) - Held(mutex, t, mMutex), 0, Anyhow)
    <3>1. Held(mutex, t, gHandlesMutex) - Held(mutex, t, mMutex) = 0
      BY <1>2, <1>3
    <3> QED BY <1>1, <1>5, <3>1
  <2> QED BY <2>1 DEF HandlesFirst
<1>7. LoopsInOrder
  <2>1. \A w \in Loops : todo[w] = <<>> /\ Range(todo[w]) = {}
    BY <1>1, LoopsAreThreads, NoneInEmpty
  <2>2. ~Threaded => Loops \subseteq ended
    BY DEF Init, Loops
  <2> QED BY <2>1, <2>2 DEF LoopsInOrder
<1> QED BY <1>4, <1>6, <1>7 DEF OrderInv

\* A thread that waits for another, and what it waits for.
Wants(t) == todo[t][1].on

Stuck(t, u) ==
    /\ todo[t] # <<>> /\ todo[t][1] \in Instrs
    /\ \/ /\ todo[t][1].op = "lock" /\ ~Free(t, Wants(t))
          /\ u = mutex[Wants(t)].owner
       \/ todo[t][1].op = "join" /\ u = Wants(t) /\ u \notin ended

LEMMA WaitsStuck ==
    ASSUME Typed, NEW t \in Threads, NEW u \in WaitsFor(t)
    PROVE  Stuck(t, u)
<1>1. \/ At(t, "lock") /\ ~Free(t, Arg(t)) /\ u = mutex[Arg(t)].owner
      \/ At(t, "join") /\ u = Arg(t) /\ u \notin ended
  BY DEF WaitsFor
<1>2. CASE At(t, "lock") /\ ~Free(t, Arg(t)) /\ u = mutex[Arg(t)].owner
  BY <1>2, AtFacts DEF Typed, Stuck, Wants
<1>3. CASE At(t, "join") /\ u = Arg(t) /\ u \notin ended
  BY <1>3, AtFacts DEF Typed, Stuck, Wants
<1> QED BY <1>1, <1>2, <1>3

\* What the other one waits for comes later.
LEMMA StuckRises ==
    ASSUME LockOrder, Typed, LockInv, OrderInv, NEW t \in Threads,
           NEW u \in Threads, NEW v, Stuck(t, u), Stuck(u, v),
           NEW o \in Orders,
           \A l \in Waited : After(wiring, l) = AfterIn(wiring, o, l)
    PROVE  o[Wants(t)] < o[Wants(u)]
<1> DEFINE w == wiring
           r == Wants(t)
           y == todo[u][1]
           q == Wants(u)
<1>1. /\ todo[u] # <<>> /\ y \in Instrs /\ y.op \in {"lock", "join"} /\ q = y.on
      /\ y.op = "lock" => q \in Mutexes /\ ~Free(u, q)
      /\ y.op = "join" => q \in Loops
  BY InstrFacts DEF Stuck, Wants, Loops
<1>2. Reach(w, y) = {q} /\ y.op \notin Handing
  BY <1>1 DEF Reach, Handing
<1>3. Mutexes \cap Loops = {}
  BY DEF Mutexes, Loops, mNetMutex, mDeliveryMutex, mMutex, gHandlesMutex
<1>4. CASE todo[t][1].op = "lock"
  <2>1. r \in Mutexes /\ u = mutex[r].owner
    BY <1>4, InstrFacts DEF Stuck, Wants
  <2>2. Held(mutex, u, r) \in Nat /\ Held(mutex, u, r) >= 1
    BY <2>1, NobodyApart DEF Held, LockInv, MutexInv
  <2>3. q \in After(w, r)
    <3> DEFINE c == Turns(r)
               P == Ordered(wiring, r)
               h == Held(mutex, u, r)
    <3>1. Walk(todo[u], c, h, 0, P)
      BY <2>1 DEF OrderInv, OrderKept, Rises
    <3>2. h \in P[todo[u][1]]
      <4> HIDE DEF c, P, h
      <4> QED BY <1>1, <3>1, WalkTail
    <3>3. Fits(w, y, r)
      BY <1>1, <2>2, <3>2, OrderedFacts
    <3> QED BY <1>2, <3>3 DEF Fits
  <2>4. \/ o[r] < o[q]
        \/ q = r /\ r \in Recursive
        \/ q = gHandlesMutex /\ r = mMutex /\ SenderByHandle(w)
    BY <2>1, <2>3 DEF AfterIn, Waited
  <2>5. ~(q = r /\ r \in Recursive)
    BY <1>1, <1>3, <2>1 DEF Free
  <2>6. ~(q = gHandlesMutex /\ r = mMutex /\ SenderByHandle(w))
    <3> SUFFICES ASSUME q = gHandlesMutex, r = mMutex, SenderByHandle(w)
                 PROVE  FALSE
      OBVIOUS
    <3>1. gHandlesMutex \in Mutexes /\ gHandlesMutex \in Recursive
      BY DEF Mutexes, Recursive
    <3> DEFINE hg == Held(mutex, u, gHandlesMutex)
               hm == Held(mutex, u, mMutex)
    <3>2. Walk(todo[u], Ahead, hg - hm, 0, Anyhow)
      BY DEF OrderInv, HandlesFirst
    <3>3. hg - hm \in Nat
      <4> HIDE DEF hg, hm
      <4> QED BY <3>2, WalkEnds
    <3>4. hg \in Nat
      BY <1>1, <3>1, FirstFits DEF LockInv
    <3>5. hg >= 1
      <4> HIDE DEF hg
      <4> QED BY <2>2, <3>3, <3>4
    <3>6. mutex[gHandlesMutex].owner = u
      BY <3>5 DEF Held
    <3>7. ~Free(u, gHandlesMutex)
      BY <1>1, <1>3, <3>1
    <3> QED BY <3>1, <3>6, <3>7 DEF Free
  <2> QED BY <2>4, <2>5, <2>6
<1>5. CASE todo[t][1].op = "join"
  <2>1. r \in Loops /\ u = r
    BY <1>5, InstrFacts DEF Stuck, Wants, Loops
  <2>2. y \in Range(todo[u])
    BY <1>1, FirstIsThere DEF Typed, TodoOK
  <2>3. q \in After(w, r)
    BY <1>2, <2>1, <2>2 DEF OrderInv, LoopsInOrder
  <2>4. \/ o[r] < o[q]
        \/ r \in Recursive \/ r = mMutex
    BY <2>1, <2>3 DEF AfterIn, Waited
  <2>5. r \notin Recursive /\ r # mMutex
    BY <1>3, <2>1 DEF Mutexes, Recursive
  <2> QED BY <2>4, <2>5
<1> QED BY <1>4, <1>5 DEF Stuck

LEMMA NobodyStuck ==
    ASSUME LockOrder, Typed, LockInv, OrderInv
    PROVE  NoCircularWait
<1> SUFFICES ASSUME NEW S \in (SUBSET Threads) \ {{}},
                    \A t \in S : WaitsFor(t) \cap S # {}
             PROVE  FALSE
  BY DEF NoCircularWait
<1>1. wiring \in Wirings
  BY DEF Typed, TodoOK
<1>2. PICK o \in Orders : \A l \in Waited : After(wiring, l) = AfterIn(wiring, o, l)
  BY <1>1, OrderFacts
<1>3. \A t \in S : \E u \in S : Stuck(t, u)
  BY WaitsStuck
<1>4. \A t \in S : o[Wants(t)] \in 1..6
  <2> SUFFICES ASSUME NEW t \in S PROVE o[Wants(t)] \in 1..6
    OBVIOUS
  <2>1. PICK u \in S : Stuck(t, u)
    BY <1>3
  <2>2. Wants(t) \in Waited
    BY <2>1, InstrFacts DEF Stuck, Wants, Waited, Loops
  <2> QED BY <2>2 DEF Orders
<1>5. \A t \in S : \E u \in S : o[Wants(t)] < o[Wants(u)]
  <2> SUFFICES ASSUME NEW t \in S PROVE \E u \in S : o[Wants(t)] < o[Wants(u)]
    OBVIOUS
  <2>1. PICK u \in S : Stuck(t, u)
    BY <1>3
  <2>2. PICK v \in S : Stuck(u, v)
    BY <1>3
  <2> QED BY <1>2, <2>1, <2>2, StuckRises
<1> DEFINE Up(n) == \E t \in S : o[Wants(t)] >= n
<1>6. Up(1)
  <2>1. PICK t \in S : TRUE
    OBVIOUS
  <2>2. o[Wants(t)] \in 1..6
    BY <1>4
  <2>3. o[Wants(t)] >= 1
    BY ONLY <2>2
  <2> QED BY <2>3
<1>7. ASSUME NEW m \in Nat, NEW n \in Nat, Up(m), n = m + 1
      PROVE  Up(n)
  <2>1. PICK t \in S : o[Wants(t)] >= m
    BY <1>7
  <2>2. PICK u \in S : o[Wants(t)] < o[Wants(u)]
    BY <1>5
  <2>3. o[Wants(t)] \in Nat /\ o[Wants(u)] \in Nat
    BY <1>4
  <2>4. o[Wants(u)] >= n
    BY ONLY <1>7, <2>1, <2>2, <2>3
  <2> QED BY <2>4
<1>8. ~Up(7)
  BY <1>4
<1> HIDE DEF Up
<1>9. Up(2)
  BY <1>6, <1>7
<1>10. Up(3)
  BY <1>7, <1>9
<1>11. Up(4)
  BY <1>7, <1>10
<1>12. Up(5)
  BY <1>7, <1>11
<1>13. Up(6)
  BY <1>7, <1>12
<1>14. Up(7)
  BY <1>7, <1>13
<1> QED BY <1>8, <1>14

\* Whatever sequence of send, receive, processTimeouts, stop and calls of the C
\* API is made, from threads and from callbacks, no set of threads waits on
\* itself, when the wiring has an order in which its mutexes and loops are
\* waited for.
THEOREM NobodyWaitsInCircles ==
    ASSUME LockOrder
    PROVE  Spec => []NoCircularWait
<1>1. Typed /\ LockInv /\ [Next]_vars => LockInv'
  BY LockInvariance
<1>2. Typed /\ LockInv /\ OrderInv /\ [Next]_vars => OrderInv'
  BY OrderInvariance
<1>3. Typed /\ LockInv /\ OrderInv => NoCircularWait
  BY NobodyStuck
<1> QED BY <1>1, <1>2, <1>3, LockInvInitially, OrderInitially, TypedInvariance,
           PTL DEF Spec
====
