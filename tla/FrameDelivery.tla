---------------------------- MODULE FrameDelivery ----------------------------
(***************************************************************************)
(* What an EFP link promises an application, with no packets in sight: it  *)
(* sends SuperFrames, and some of them come out at the other end, each at  *)
(* most once, whole and unaltered or marked as broken.  They come out in   *)
(* passes; the SuperFrames of one pass are in the order they were sent.    *)
(***************************************************************************)
EXTENDS Naturals, Sequences

CONSTANT SuperFrames     \* what an application may send

VARIABLES
    sent,        \* the SuperFrames accepted by send
    delivered    \* of each one handed on: its place in sent, whether it is
                 \* broken, and its content

vars == <<sent, delivered>>

Init == sent = <<>> /\ delivered = <<>>

Send ==
    /\ \E m \in SuperFrames : sent' = Append(sent, m)
    /\ UNCHANGED delivered

Places(log) == {log[i].place : i \in DOMAIN log}

\* One pass of the receiver.
Deliver ==
    LET n    == Len(delivered)
        pass == SubSeq(delivered', n + 1, Len(delivered'))
    IN  /\ SubSeq(delivered', 1, n) = delivered
        /\ pass # <<>>
        /\ Places(pass) \subseteq DOMAIN sent \ Places(delivered)
        /\ \A i, j \in DOMAIN pass : i < j => pass[i].place < pass[j].place
        /\ \A i \in DOMAIN pass :
             ~pass[i].broken => pass[i].content = sent[pass[i].place]
        /\ UNCHANGED sent

Next == Send \/ Deliver

Spec == Init /\ [][Next]_vars
==============================================================================
