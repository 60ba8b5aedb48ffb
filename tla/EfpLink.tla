------------------------------- MODULE EfpLink -------------------------------
(***************************************************************************)
(* A Sender and a Receiver joined by a datagram network and a return path  *)
(* for NACKs, the arrangement of README.md and tests/test_integration.cpp. *)
(* The receiver is module Receiver itself; the sender, its own instance.   *)
(*                                                                         *)
(* wire holds every packet that may still arrive.  A packet stays there    *)
(* when it is received, so it may arrive again, and it may never be        *)
(* received: loss, duplication and reordering need no actions of their     *)
(* own.  The same holds of NACKs on the way back.  What the network does   *)
(* not do is keep a packet while Window further SuperFrames are sent; a    *)
(* retransmission counts as part of that path.                             *)
(*                                                                         *)
(* The receiver may join at any time: the sender's first number here is    *)
(* any number in StartNos.                                                 *)
(***************************************************************************)
EXTENDS Receiver

CONSTANTS
    Mtu, Mode, RetentionMs, RetentionMaxBytes, Frames, MaxCounts, MaxSends,
    MaxQueue,     \* the sender's
    StartNos,     \* numbers the sender may have reached when the receiver joins
    Window        \* SuperFrames a packet's life spans

VARIABLES
    mSuperFrameNo, ret, task, out, sent,   \* Sender; now is shared
    wire,                                  \* network
    origin        \* history: the place in sent of the unwrapped number 0

S == INSTANCE Sender WITH Nacks <- {}

\* A packet never meets the SuperFrame that reuses its bucket, and an old one
\* is never taken for a new one.
ASSUME LinkAssumption ==
    /\ S!SenderAssumption
    /\ MaxSends \in Nat
    /\ Window \in 1..Slots
    /\ 2 * Window <= SeqSpace
    /\ StartNos \subseteq 0..(SeqSpace - 1)
    /\ \A m \in Frames : m.mPts \in 0..UINT64_MAX /\ m.mDts \in 0..UINT64_MAX

senderVars == <<mSuperFrameNo, ret, task, out, sent>>
receiverVars == <<mMode, rx, bundle, returning, mDeliveryQueue, callbacks,
                  nacks, origin>>
linkVars == <<now, senderVars, receiverVars, wire>>

LinkInit ==
    /\ \E n \in StartNos : S!InitAt(n)
    /\ Init
    /\ wire = {}
    /\ origin = 0

\* The SuperFrames, by their places in sent, that a packet carries data of.
Carries(p) ==
    IF p.mFrameType = 4 THEN {p.frames[i].frame : i \in 1..Len(p.frames)}
    ELSE {p.frame}

\* The send callback is the network: what the sender hands out is on the wire,
\* and what is too old by then is gone.
Transmit ==
    wire' = {p \in wire \cup Range(out') :
               \A f \in Carries(p) : f > Len(sent') - Window}

SenderStep ==
    /\ \/ \E m \in Frames : S!Send(m)
       \/ \E c \in MaxCounts : S!ProcessRetransmits(c)
       \/ S!Internal
    /\ Transmit
    /\ UNCHANGED receiverVars

\* A NACK reaches the sender.
NackArrives ==
    /\ \E n \in nacks : S!ReceiveNack(n)
    /\ Transmit
    /\ UNCHANGED receiverVars

\* Losses stay within what 16 bits can tell apart: what arrives is less than
\* half of the sequence space ahead of the SuperFrame that last took a bucket,
\* and no SuperFrame is still incomplete when its number comes round again.
InReach(p) ==
    \A f \in Carries(p) :
      /\ rx.mFirstFrame \/ 2 * (f - rx.mFrameNoRecalc - origin) < SeqSpace
      /\ \A b \in ActiveBuckets : f - b.mDeliveryOrder - origin < SeqSpace

\* The first fragment to be numbered fixes which SuperFrame has number 0.
Joins(p) ==
    origin' = IF rx.mFirstFrame /\ ~rx'.mFirstFrame
                THEN p.frame - rx'.mFrameNoRecalc ELSE origin

\* A packet reaches the receiver.
PacketArrives ==
    /\ \E p \in wire, aSourceId \in Sources :
         InReach(p) /\ Receive(p, aSourceId) /\ Joins(p)
    /\ UNCHANGED <<senderVars, wire>>

ReceiverStep ==
    /\ Internal
    /\ Joins(Head(bundle.frames))
    /\ UNCHANGED <<senderVars, wire>>

LinkTick ==
    /\ S!Tick /\ Tick
    /\ UNCHANGED <<wire, origin>>

LinkNext ==
    \/ SenderStep \/ NackArrives \/ PacketArrives \/ ReceiverStep \/ LinkTick

LinkSpec == LinkInit /\ [][LinkNext]_linkVars

------------------------------------------------------------------------------
(***************************************************************************)
(* Properties.                                                             *)
(***************************************************************************)

\* The place in sent of a frame in the receiver's Log.
Place(frame) == frame.mDeliveryOrder + origin

\* The number on the wire of the f-th SuperFrame.
NumberOf(f) == (mSuperFrameNo - (Len(sent) - f) - 1) % SeqSpace

\* The DTS of a SuperFrame, or none where the 32-bit difference to the PTS
\* that travels in its stead cannot express it.
DtsSent(m) ==
    IF /\ m.mDts <= m.mPts /\ m.mPts - m.mDts < UINT32_MAX
       /\ m.mPts # UINT64_MAX
      THEN m.mDts ELSE UINT64_MAX

\* A SuperFrame with its data: byte k of the n-th is <<n, k>>.
Content(n, m) ==
    [data |-> [k \in 0..(m.size - 1) |-> <<n, k>>],
     mPts |-> m.mPts, mDts |-> DtsSent(m), mPayload |-> m.mPayload,
     mStreamId |-> m.mStreamId]

\* A SuperFrame as the receive callback sees it.
Received(frame) ==
    [data |-> [k \in 0..(frame.mSize - 1) |-> frame.mpData[k]],
     mPts |-> frame.mPts, mDts |-> frame.mDts, mPayload |-> frame.mPayload,
     mStreamId |-> frame.mStreamId]

\* What the sending application gave, and what the receiving one got of it.
Given == [n \in DOMAIN sent |-> Content(n, sent[n])]

Delivered ==
    [i \in DOMAIN Log |-> [place |-> Place(Log[i]), broken |-> Log[i].mBroken,
                           content |-> Received(Log[i])]]

Promise == INSTANCE FrameDelivery WITH
    SuperFrames <- {Content(n, m) : n \in 1..MaxSends, m \in Frames},
    sent <- Given, delivered <- Delivered

\* The link implements FrameDelivery: a SuperFrame delivered as not broken is
\* one the application sent, byte for byte, with its size, timestamps, payload
\* type and stream, none comes twice, and those of one pass come in the order
\* they were sent, whatever was lost, repeated, reordered, retransmitted or
\* bundled, and whichever of Type1, Type2 and Type3 came first.
DeliversFrames == Promise!Spec

\* The unwrapped numbers the receiver sorts by count SuperFrames: once the
\* first fragment has fixed where 0 is, each delivered frame's delivery order
\* leads to a SuperFrame that was sent, under the number the frame carries,
\* across every wrap of the 16 bits.
OrderTracksIndex ==
    \A i \in 1..Len(Log) :
      /\ Place(Log[i]) \in 1..Len(sent)
      /\ Log[i].mSuperFrameNo = NumberOf(Place(Log[i]))
==============================================================================
