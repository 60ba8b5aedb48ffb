-------------------------------- MODULE Threads --------------------------------
(***************************************************************************)
(* The threads of a program that uses EFP: the receiver's worker and       *)
(* delivery threads and the application's own, with the four mutexes, the  *)
(* condition variable, stop, and the callbacks through which one component *)
(* calls another while its mutex is held.                                  *)
(*                                                                         *)
(* What a thread has left to do is a sequence of instructions, todo[t].  A *)
(* call or a callback puts the instructions of its body in front.  What a  *)
(* callback of the application calls is the wiring, chosen once.  What     *)
(* Receiver.tla and Sender.tla say of fragments is reduced to this: a      *)
(* frame's bucket has all its fragments or lacks some, and a               *)
(* retransmission supplies them.                                           *)
(***************************************************************************)
EXTENDS Integers, Sequences, FiniteSets, SequencesExt

CONSTANTS
    Apps,        \* threads of the application
    Wirings,     \* records: mode, onSend, onReceive, onNack, menu
    MaxFrames,   \* bound: frames
    MaxCalls     \* bound: calls made by application threads

Frames == 1..MaxFrames
Threads == Apps \cup {"worker", "delivery"}

mNetMutex == "mNetMutex"             \* Receiver
mDeliveryMutex == "mDeliveryMutex"   \* Receiver
mMutex == "mMutex"                   \* Sender
gHandlesMutex == "gHandlesMutex"     \* C API
Mutexes == {mNetMutex, mDeliveryMutex, mMutex, gHandlesMutex}
Recursive == {mNetMutex, gHandlesMutex}

Nobody == "nobody"

\* The public calls.  Carrying ones bring a frame: all its fragments arrive, or
\* some are lost.
Carrying == {"send", "receive", "efp_send_data", "efp_receive_fragment"}
Calls == Carrying \cup {"receiveNack", "processRetransmits", "poll", "stop",
                       "efp_end_send", "efp_end_receive"}

\* A callback has a packet, or a frame, to hand on.
WiringOK(w) ==
    /\ w.mode \in {"THREADED", "RUN_TO_COMPLETION"}
    /\ w.onSend \in Seq(Calls \ {"receiveNack"})
    /\ w.onReceive \in Seq(Calls \ {"receiveNack"})
    /\ w.onNack \in Seq(Calls \ Carrying)
    /\ w.menu \in [Apps -> SUBSET Calls]

ASSUME ThreadsAssumption ==
    /\ MaxFrames \in Nat /\ MaxCalls \in Nat
    /\ Apps \cap {"worker", "delivery", Nobody} = {}
    /\ \A w \in Wirings : WiringOK(w)

VARIABLES
    wiring,
    todo,             \* instructions each thread has left
    mutex,            \* owner and depth of each mutex
    ended,            \* threads of the receiver that have ended, or never ran
    asleep,           \* the delivery thread waits on mDeliveryCondition
    mRunning, mDeliveryReady, mDeliveryQueue,
    bucket,           \* state of each frame's bucket
    nacked,           \* frames whose one NACK was sent
    mRetransmitQueue,
    handles,          \* objects the C API, or the program, still has
    nextFrame, calls,
    pushed, delivered \* history: frames queued, and given to the application

vars == <<wiring, todo, mutex, ended, asleep, mRunning, mDeliveryReady,
          mDeliveryQueue, bucket, nacked, mRetransmitQueue, handles, nextFrame,
          calls, pushed, delivered>>

\* What an action leaves alone, in groups.
app == <<wiring, nextFrame, calls, handles>>
life == <<ended, asleep, mRunning>>
line == <<mDeliveryReady, mDeliveryQueue, pushed, delivered>>
fragments == <<bucket, nacked, mRetransmitQueue>>

Threaded == wiring.mode = "THREADED"

\* The constructors.
Init ==
    /\ wiring \in Wirings
    /\ todo = [t \in Threads |-> <<>>]
    /\ mutex = [l \in Mutexes |-> [owner |-> Nobody, depth |-> 0]]
    /\ ended = IF Threaded THEN {} ELSE {"worker", "delivery"}
    /\ asleep = FALSE
    /\ mRunning = Threaded
    /\ mDeliveryReady = FALSE /\ mDeliveryQueue = <<>>
    /\ bucket = [f \in Frames |-> "absent"]
    /\ nacked = {}
    /\ mRetransmitQueue = <<>>
    /\ handles = {"sender", "receiver"}
    /\ nextFrame = 1 /\ calls = 0
    /\ pushed = <<>> /\ delivered = <<>>

------------------------------------------------------------------------------
(***************************************************************************)
(* Bodies.                                                                 *)
(***************************************************************************)
Do(op, x) == [op |-> op, on |-> x]

Under(l, body) == <<Do("lock", l)>> \o body \o <<Do("unlock", l)>>

\* Slip: the worker's round without mNetMutex.
BareRound == <<Do("processNacks", 0)>>

\* processTimeouts, by the worker, poll or the end of receive.
Round == Under(mNetMutex, <<Do("processNacks", 0)>>)

StopBody == <<Do("lock", mDeliveryMutex), Do("stop", 0)>>

\* Slip: the handle is looked up and used after the unlock.
ByHandleUnlocked(op, p) == Under(gHandlesMutex, <<>>) \o <<Do(op, p)>>

\* A call of the C API that takes a handle.
ByHandle(op, p) == Under(gHandlesMutex, <<Do(op, p)>>)

\* Instructions of each public call; p is the packet or the frame it is about.
Body(call, p) ==
    CASE call = "send" -> Under(mMutex, <<Do("sendCallback", p)>>)
      [] call = "receiveNack" -> Under(mMutex, <<Do("request", p)>>)
      [] call = "processRetransmits" -> Under(mMutex, <<Do("retransmit", 0)>>)
      [] call = "receive" ->
           Under(mNetMutex, <<Do("fragment", p)>>)
             \o (IF Threaded THEN <<>> ELSE Round)
      [] call = "poll" -> IF Threaded THEN <<>> ELSE Round
      [] call = "stop" -> StopBody
      [] call = "efp_send_data" -> ByHandle("findSender", p)
      [] call = "efp_receive_fragment" -> ByHandle("findReceiver", p)
      [] call = "efp_end_send" -> ByHandle("endSend", 0)
      [] call = "efp_end_receive" -> ByHandle("endReceive", 0)

\* The application's callback: its calls one after the other.
Callback(wired, p) ==
    FlattenSeq([i \in DOMAIN wired |-> Body(wired[i], p)])

\* One instruction for each frame, in delivery order.
InOrder(S) ==
    CHOOSE s \in [1..Cardinality(S) -> S] :
      \A i, j \in 1..Cardinality(S) : i < j => s[i] < s[j]

Each(op, S) == [i \in 1..Cardinality(S) |-> Do(op, InOrder(S)[i])]

------------------------------------------------------------------------------
(***************************************************************************)
(* One instruction of one thread.                                          *)
(***************************************************************************)
At(t, op) == todo[t] # <<>> /\ Head(todo[t]).op = op
Arg(t) == Head(todo[t]).on

\* The instruction is done and the given ones come before the rest.
Then(t, body) == todo' = [todo EXCEPT ![t] = body \o Tail(@)]

Free(t, l) ==
    \/ mutex[l].owner = Nobody
    \/ mutex[l].owner = t /\ l \in Recursive

Acquire(t) ==
    /\ At(t, "lock") /\ Free(t, Arg(t))
    /\ mutex' = [mutex EXCEPT ![Arg(t)] =
                   [owner |-> t, depth |-> @.depth + 1]]
    /\ Then(t, <<>>)
    /\ UNCHANGED <<app, life, line, fragments>>

\* Slip: the first unlock of several gives the mutex away.
ReleasedAtOnce(l) ==
    [mutex EXCEPT ![l] = [owner |-> Nobody, depth |-> @.depth - 1]]

Released(l) ==
    LET left == mutex[l].depth - 1
    IN  [mutex EXCEPT ![l] =
           [owner |-> IF left = 0 THEN Nobody ELSE mutex[l].owner,
            depth |-> left]]

Unlock(t) ==
    /\ At(t, "unlock")
    /\ mutex' = Released(Arg(t))
    /\ Then(t, <<>>)
    /\ UNCHANGED <<app, life, line, fragments>>

\* mCallback of the Sender, which holds mMutex.
SendCallback(t) ==
    /\ At(t, "sendCallback")
    /\ Then(t, Callback(wiring.onSend, Arg(t)))
    /\ UNCHANGED <<mutex, app, life, line, fragments>>

\* receiveNack: a fragment already queued is not queued again.
Request(t) ==
    /\ At(t, "request")
    /\ mRetransmitQueue' = IF Contains(mRetransmitQueue, Arg(t))
                           THEN mRetransmitQueue
                           ELSE Append(mRetransmitQueue, Arg(t))
    /\ Then(t, <<>>)
    /\ UNCHANGED <<mutex, app, life, line, bucket, nacked>>

\* processRetransmits: one pass of its loop.
Retransmit(t) ==
    /\ At(t, "retransmit")
    /\ IF mRetransmitQueue = <<>>
         THEN Then(t, <<>>) /\ UNCHANGED mRetransmitQueue
         ELSE /\ mRetransmitQueue' = Tail(mRetransmitQueue)
              /\ Then(t, <<Do("sendCallback",
                              [frame |-> Head(mRetransmitQueue),
                               whole |-> TRUE]),
                           Do("retransmit", 0)>>)
    /\ UNCHANGED <<mutex, app, life, line, bucket, nacked>>

------------------------------------------------------------------------------
(***************************************************************************)
(* The receiver under mNetMutex.                                           *)
(***************************************************************************)

\* handleType1 and its like.  A fragment of a frame already handed on is late.
Fragment(t) ==
    LET p == Arg(t)
        b == bucket[p.frame]
    IN  /\ At(t, "fragment")
        /\ bucket' = [bucket EXCEPT ![p.frame] =
                        IF b \in {"absent", "partial"} /\ p.whole THEN "whole"
                        ELSE IF b = "absent" THEN "partial" ELSE b]
        /\ Then(t, <<>>)
        /\ UNCHANGED <<mutex, app, life, line, nacked, mRetransmitQueue>>

Partial == {f \in Frames : bucket[f] = "partial"}

\* processTimeouts: processNacks first, for the buckets whose NACK is due.
ProcessNacks(t) ==
    /\ At(t, "processNacks")
    /\ \E due \in SUBSET (Partial \ nacked) :
         Then(t, Each("nack", due) \o <<Do("collect", 0)>>)
    /\ UNCHANGED <<mutex, app, life, line, fragments>>

\* mNackCallback, which an earlier one of the round may have made unnecessary.
Nack(t) ==
    /\ At(t, "nack")
    /\ Then(t, IF Arg(t) \in Partial
               THEN Callback(wiring.onNack, Arg(t)) \o <<Do("sent", Arg(t))>>
               ELSE <<>>)
    /\ UNCHANGED <<mutex, app, life, line, fragments>>

\* mNackCount is raised when the callback has returned.
NackSent(t) ==
    /\ At(t, "sent")
    /\ nacked' = nacked \cup {Arg(t)}
    /\ Then(t, <<>>)
    /\ UNCHANGED <<mutex, app, life, line, bucket, mRetransmitQueue>>

\* Complete buckets and those out of time, in delivery order.
Collect(t) ==
    /\ At(t, "collect")
    /\ \E late \in SUBSET Partial :
         Then(t, Each("deliver",
                      late \cup {f \in Frames :
                                   bucket[f] \in {"whole", "moved"}}))
    /\ UNCHANGED <<mutex, app, life, line, fragments>>

\* deliverFrame: to the delivery thread, or straight to the application.
Deliver(t) ==
    LET f == Arg(t)
    IN  /\ At(t, "deliver")
        /\ IF Threaded
             THEN /\ Then(t, Under(mDeliveryMutex, <<Do("push", f)>>)
                               \o <<Do("erase", f)>>)
                  /\ UNCHANGED bucket
             ELSE /\ Then(t, <<Do("callback", f), Do("erase", f)>>)
                  /\ bucket' = [bucket EXCEPT ![f] = "moved"]
        /\ UNCHANGED <<mutex, app, life, line, nacked, mRetransmitQueue>>

\* Slip: nobody is notified.
PushQuietly(t) ==
    /\ At(t, "push")
    /\ mDeliveryQueue' = Append(mDeliveryQueue, Arg(t))
    /\ mDeliveryReady' = TRUE
    /\ bucket' = [bucket EXCEPT ![Arg(t)] = "moved"]
    /\ pushed' = Append(pushed, Arg(t))
    /\ Then(t, <<>>)
    /\ UNCHANGED <<mutex, app, life, nacked, mRetransmitQueue, delivered>>

\* Into mDeliveryQueue, with notify_one.
Push(t) ==
    /\ At(t, "push")
    /\ mDeliveryQueue' = Append(mDeliveryQueue, Arg(t))
    /\ mDeliveryReady' = TRUE
    /\ asleep' = FALSE
    /\ bucket' = [bucket EXCEPT ![Arg(t)] = "moved"]
    /\ pushed' = Append(pushed, Arg(t))
    /\ Then(t, <<>>)
    /\ UNCHANGED <<mutex, app, ended, mRunning, nacked, mRetransmitQueue,
                   delivered>>

Erase(t) ==
    /\ At(t, "erase")
    /\ bucket' = [bucket EXCEPT ![Arg(t)] = "delivered"]
    /\ Then(t, <<>>)
    /\ UNCHANGED <<mutex, app, life, line, nacked, mRetransmitQueue>>

\* mCallback of the Receiver.
ReceiveCallback(t) ==
    /\ At(t, "callback")
    /\ delivered' = Append(delivered, Arg(t))
    /\ Then(t, Callback(wiring.onReceive, [frame |-> Arg(t), whole |-> TRUE]))
    /\ UNCHANGED <<mutex, app, life, fragments, mDeliveryReady,
                   mDeliveryQueue, pushed>>

------------------------------------------------------------------------------
(***************************************************************************)
(* The two loops and stop.                                                 *)
(***************************************************************************)

\* workerLoop: its condition, then a round.
WorkerLoop ==
    /\ "worker" \notin ended /\ todo["worker"] = <<>>
    /\ IF mRunning
         THEN /\ todo' = [todo EXCEPT !["worker"] = Round]
              /\ UNCHANGED ended
         ELSE ended' = ended \cup {"worker"} /\ UNCHANGED todo
    /\ UNCHANGED <<mutex, app, line, fragments, asleep, mRunning>>

Awaiting == <<Do("lock", mDeliveryMutex), Do("await", 0)>>

DeliveryLoop ==
    /\ "delivery" \notin ended /\ todo["delivery"] = <<>>
    /\ IF mRunning
         THEN /\ todo' = [todo EXCEPT !["delivery"] = Awaiting]
              /\ UNCHANGED ended
         ELSE ended' = ended \cup {"delivery"} /\ UNCHANGED todo
    /\ UNCHANGED <<mutex, app, line, fragments, asleep, mRunning>>

\* The predicate of the wait, under mDeliveryMutex.
Await(t) ==
    /\ At(t, "await")
    /\ Then(t, IF mDeliveryReady \/ ~mRunning THEN <<Do("take", 0)>>
               ELSE <<Do("sleep", 0)>>)
    /\ UNCHANGED <<mutex, app, life, line, fragments>>

\* The wait gives the mutex back and sleeps in one step; awake, it takes the
\* mutex and looks again.
Sleep(t) ==
    /\ At(t, "sleep")
    /\ mutex' = Released(mDeliveryMutex)
    /\ asleep' = TRUE
    /\ Then(t, <<Do("wake", 0)>>)
    /\ UNCHANGED <<app, line, fragments, ended, mRunning>>

Wake(t) ==
    /\ At(t, "wake") /\ ~asleep
    /\ Then(t, Awaiting)
    /\ UNCHANGED <<mutex, app, life, line, fragments>>

\* A condition variable may wake up by itself.
WakeSpuriously ==
    /\ asleep /\ asleep' = FALSE
    /\ UNCHANGED <<todo, mutex, app, line, fragments, ended, mRunning>>

\* Slip: the frame is copied out of the queue and left there.
TakeCopy(t) ==
    /\ At(t, "take")
    /\ IF mDeliveryQueue = <<>>
         THEN Then(t, <<Do("unlock", mDeliveryMutex)>>)
         ELSE Then(t, <<Do("unlock", mDeliveryMutex),
                        Do("callback", Head(mDeliveryQueue))>>)
    /\ mDeliveryReady' = (mDeliveryQueue # <<>>)
    /\ UNCHANGED <<mutex, app, life, fragments, mDeliveryQueue, pushed,
                   delivered>>

\* The front frame, if there is one, and mDeliveryReady put down with the last.
\* Stopped with nothing queued, the loop breaks, as its condition would make it.
Take(t) ==
    LET rest == IF mDeliveryQueue = <<>> THEN <<>> ELSE Tail(mDeliveryQueue)
    IN  /\ At(t, "take")
        /\ Then(t, <<Do("unlock", mDeliveryMutex)>> \o
                    IF mDeliveryQueue = <<>> THEN <<>>
                    ELSE <<Do("callback", Head(mDeliveryQueue))>>)
        /\ mDeliveryQueue' = rest
        /\ mDeliveryReady' = (mDeliveryReady /\ rest # <<>>)
        /\ UNCHANGED <<mutex, app, life, fragments, pushed, delivered>>

\* Slip: stop goes on before the delivery thread has ended.
StopJoiningWorker(t) ==
    /\ At(t, "stop")
    /\ mRunning' = FALSE
    /\ Then(t, <<Do("unlock", mDeliveryMutex)>> \o
                IF mRunning THEN <<Do("notifyAll", 0), Do("join", "worker")>>
                ELSE <<>>)
    /\ UNCHANGED <<mutex, app, line, fragments, ended, asleep>>

\* Slip: mDeliveryMutex is held while joining.
StopHoldingMutex(t) ==
    /\ At(t, "stop")
    /\ mRunning' = FALSE
    /\ Then(t, IF mRunning
                  THEN <<Do("notifyAll", 0), Do("join", "worker"),
                         Do("join", "delivery"), Do("unlock", mDeliveryMutex)>>
                ELSE <<Do("unlock", mDeliveryMutex)>>)
    /\ UNCHANGED <<mutex, app, line, fragments, ended, asleep>>

\* stop, under mDeliveryMutex: only the first call goes on to join.
Stop(t) ==
    /\ At(t, "stop")
    /\ mRunning' = FALSE
    /\ Then(t, <<Do("unlock", mDeliveryMutex)>> \o
                IF mRunning
                  THEN <<Do("notifyAll", 0), Do("join", "worker"),
                         Do("join", "delivery")>>
                ELSE <<>>)
    /\ UNCHANGED <<mutex, app, line, fragments, ended, asleep>>

\* Slip: the sleeper is not notified.
NotifyNobody(t) ==
    /\ At(t, "notifyAll")
    /\ Then(t, <<>>)
    /\ UNCHANGED <<mutex, app, life, line, fragments>>

NotifyAll(t) ==
    /\ At(t, "notifyAll")
    /\ asleep' = FALSE
    /\ Then(t, <<>>)
    /\ UNCHANGED <<mutex, app, line, fragments, ended, mRunning>>

Join(t) ==
    /\ At(t, "join") /\ Arg(t) \in ended
    /\ Then(t, <<>>)
    /\ UNCHANGED <<mutex, app, life, line, fragments>>

------------------------------------------------------------------------------
(***************************************************************************)
(* Handles of the C API, looked up under gHandlesMutex.                    *)
(***************************************************************************)

\* A handle that is not found ends the call.
Find(t) ==
    /\ \/ /\ At(t, "findSender")
          /\ Then(t, IF "sender" \in handles THEN Body("send", Arg(t))
                     ELSE <<>>)
       \/ /\ At(t, "findReceiver")
          /\ Then(t, IF "receiver" \in handles THEN Body("receive", Arg(t))
                     ELSE <<>>)
       \/ /\ At(t, "endReceive")
          /\ Then(t, IF "receiver" \in handles
                       THEN StopBody \o StopBody \o <<Do("delete", "receiver")>>
                     ELSE <<>>)
       \/ /\ At(t, "endSend")
          /\ Then(t, IF "sender" \in handles THEN <<Do("delete", "sender")>>
                     ELSE <<>>)
    /\ UNCHANGED <<mutex, app, life, line, fragments>>

\* The object is freed and its handle erased.
Delete(t) ==
    /\ At(t, "delete")
    /\ handles' = handles \ {Arg(t)}
    /\ Then(t, <<>>)
    /\ UNCHANGED <<wiring, nextFrame, calls, mutex, life, line, fragments>>

------------------------------------------------------------------------------
(***************************************************************************)
(* Calls made by the application, and the whole.                           *)
(***************************************************************************)

Call(t) ==
    /\ todo[t] = <<>> /\ calls < MaxCalls
    /\ calls' = calls + 1
    /\ \E call \in wiring.menu[t] :
         \/ /\ call \in Carrying /\ nextFrame <= MaxFrames
            /\ \E whole \in BOOLEAN :
                 todo' = [todo EXCEPT ![t] =
                   Body(call, [frame |-> nextFrame, whole |-> whole])]
            /\ nextFrame' = nextFrame + 1
         \/ /\ call = "receiveNack"
            /\ \E f \in nacked : todo' = [todo EXCEPT ![t] = Body(call, f)]
            /\ UNCHANGED nextFrame
         \/ /\ call \notin Carrying \cup {"receiveNack"}
            /\ todo' = [todo EXCEPT ![t] = Body(call, 0)]
            /\ UNCHANGED nextFrame
    /\ UNCHANGED <<wiring, handles, mutex, life, line, fragments>>

\* Everything a thread does once it is under way, waiting for a mutex apart.
Step(t) ==
    \/ Unlock(t) \/ SendCallback(t) \/ Request(t) \/ Retransmit(t)
    \/ Fragment(t) \/ ProcessNacks(t) \/ Nack(t) \/ NackSent(t)
    \/ Collect(t) \/ Deliver(t) \/ Push(t) \/ Erase(t)
    \/ ReceiveCallback(t)
    \/ Await(t) \/ Sleep(t) \/ Wake(t) \/ Take(t)
    \/ Stop(t) \/ NotifyAll(t) \/ Join(t)
    \/ Find(t) \/ Delete(t)

Next ==
    \/ \E t \in Apps : Call(t)
    \/ \E t \in Threads : Acquire(t) \/ Step(t)
    \/ WorkerLoop \/ DeliveryLoop
    \/ WakeSpuriously

Spec == Init /\ [][Next]_vars

\* Threads are scheduled.  A mutex is got by a thread that keeps asking for it:
\* the worker sleeps for 10 ms between its rounds, with no mutex held.
Fairness ==
    /\ \A t \in Threads : SF_vars(Acquire(t)) /\ WF_vars(Step(t))
    /\ WF_vars(WorkerLoop) /\ WF_vars(DeliveryLoop)

FairSpec == Spec /\ Fairness

------------------------------------------------------------------------------
(***************************************************************************)
(* Properties.                                                             *)
(***************************************************************************)

\* Every owner, frame and flag in its range.
TypeOK ==
    /\ wiring \in Wirings
    /\ DOMAIN todo = Threads
    /\ \A l \in Mutexes :
         /\ mutex[l].owner \in Threads \cup {Nobody} /\ mutex[l].depth \in Nat
         /\ mutex[l].depth = 0 <=> mutex[l].owner = Nobody
         /\ l \notin Recursive => mutex[l].depth <= 1
    /\ ended \subseteq {"worker", "delivery"}
    /\ asleep \in BOOLEAN /\ mRunning \in BOOLEAN
    /\ mDeliveryReady \in BOOLEAN
    /\ mDeliveryQueue \in Seq(Frames) /\ mRetransmitQueue \in Seq(Frames)
    /\ bucket \in [Frames -> {"absent", "partial", "whole", "moved",
                              "delivered"}]
    /\ nacked \subseteq Frames /\ handles \subseteq {"sender", "receiver"}
    /\ nextFrame \in 1..(MaxFrames + 1) /\ calls \in 0..MaxCalls

\* Threads without which t does not go on: the owner of the mutex it wants,
\* itself when that mutex is not recursive, or the thread it joins.
WaitsFor(t) ==
    IF At(t, "lock") /\ ~Free(t, Arg(t)) THEN {mutex[Arg(t)].owner}
    ELSE IF At(t, "join") THEN {Arg(t)} \ ended
    ELSE {}

\* send, receive, processTimeouts, stop and the C API take their mutexes in
\* different orders and call each other through callbacks; no set of threads
\* ever waits on itself.
NoCircularWait ==
    \A S \in (SUBSET Threads) \ {{}} : \E t \in S : WaitsFor(t) \cap S = {}

\* mDeliveryQueue between the worker and the delivery thread: the frames given
\* to the application, the one on its way there and those queued are, in that
\* order, the frames pushed, whatever wake-ups, stop and new frames have raced.
InHand ==
    FlattenSeq([i \in DOMAIN todo["delivery"] |->
                  IF todo["delivery"][i].op = "callback"
                    THEN <<todo["delivery"][i].on>> ELSE <<>>])

FramesConserved ==
    Threaded => pushed = delivered \o InHand \o mDeliveryQueue

\* deliverFrame moves mpFrame out of the bucket before it erases the bucket
\* from mBucketMap: nobody else may collect the same bucket in between.
FrameStillThere ==
    \A t \in Threads :
      At(t, "deliver") \/ At(t, "push") => bucket[Arg(t)] \in {"partial", "whole"}

Ops(t) == {todo[t][i].op : i \in DOMAIN todo[t]}

\* When the call of stop that stopped the receiver has returned, both threads
\* have ended and no callback comes any more.
QuietAfterStop ==
    ~mRunning /\ (\A t \in Threads : Ops(t) \cap {"notifyAll", "join"} = {})
      => {"worker", "delivery"} \subseteq ended

ReceiverOps == {"fragment", "processNacks", "nack", "collect", "deliver",
                "push", "erase", "await", "take", "stop", "notifyAll"}

\* efp_end_receive deletes the receiver while other threads may be anywhere in
\* the C API or in its loops: none of them is inside the receiver then, nor
\* ever again.
NobodyInDeleted ==
    "receiver" \notin handles =>
      \A t \in Threads : Ops(t) \cap ReceiverOps = {}

\* stop returns: notify_all reaches the delivery thread, and neither thread
\* goes back to sleep or takes another round.
Joining == \E t \in Threads : At(t, "join")

StopReturns == Joining ~> ~Joining

\* A frame whose fragments have all arrived reaches the application, unless the
\* receiver is stopped: no wake-up is lost on the way.
Undelivered == pushed # delivered \/ \E f \in Frames : bucket[f] = "whole"

WholeIsDelivered == Threaded /\ Undelivered ~> ~mRunning \/ ~Undelivered
==============================================================================
