------------------------------ MODULE MCEfpLink ------------------------------
(***************************************************************************)
(* SuperFrames for the runs of the composed model.                         *)
(***************************************************************************)
EXTENDS EfpLink

Frame(size) ==
    [size |-> size, mPts |-> 5, mDts |-> 3, mStreamId |-> 1, mPayload |-> 1,
     mFlags |-> 0]

\* Mtu = 5, SINGLE: Type1 + Type2, and Type1 + Type3 + Type2.
SingleFrames == {Frame(6), Frame(8)}

\* Mtu = 7, HALF: a bundle of two Type1 fragments and a Type2.
HalfFrames == {Frame(6)}
==============================================================================
