----------------------------- MODULE MCReceiver -----------------------------
(***************************************************************************)
(* Packet sets for the receiver's runs.                                    *)
(***************************************************************************)
EXTENDS Receiver

Bytes(n) == [i \in 1..n |-> "x"]

Type1(sfn, frag, of, n) ==
    [mFrameType |-> 1, mFlags |-> 0, mStreamId |-> 1, mSuperFrameNo |-> sfn,
     mFragmentNo |-> frag, mOfFragmentNo |-> of, data |-> Bytes(n)]

Type2(sfn, of, t1, size, n) ==
    [mFrameType |-> 2, mFlags |-> 0, mStreamId |-> 1, mSuperFrameNo |-> sfn,
     mOfFragmentNo |-> of, mType1PacketSize |-> t1, mSizeOfData |-> size,
     mPts |-> 0, mDtsPtsDiff |-> 0, mPayload |-> 1, data |-> Bytes(n)]

Type3(sfn, of, t1, n) ==
    [mFrameType |-> 3, mFlags |-> 0, mStreamId |-> 1, mSuperFrameNo |-> sfn,
     mOfFragmentNo |-> of, mType1PacketSize |-> t1, data |-> Bytes(n)]

Type4(frames) == [mFrameType |-> 4, frames |-> frames]
Type0 == [mFrameType |-> 0]

\* Any shape of fragment, consistent or not, on two superframe numbers that
\* share a bucket.
AnyShape ==
    LET sfns == {0, Slots}
    IN  {Type1(s, f, o, n) : s \in sfns, f \in 0..2, o \in 0..2, n \in 0..2}
          \cup {Type2(s, o, t, n, n) :
                  s \in sfns, o \in 0..3, t \in 0..2, n \in 0..2}
          \cup {Type2(0, 1, 1, 1, 2)}
          \cup {Type3(s, o, t, n) :
                  s \in sfns, o \in 0..3, t \in 1..2, n \in 0..3}

\* Every superframe number, with frames of one or two fragments, bundles of
\* two frames and a signal.
Numbered ==
    LET sfns == 0..(SeqSpace - 1)
    IN  {Type1(s, f, 1, 1) : s \in sfns, f \in 0..1}
          \cup {Type2(s, 0, 0, 1, 1) : s \in sfns}
          \cup {Type4(<<Type1(s, 0, 1, 1), Type1(t, 0, 1, 1)>>) :
                  s \in sfns, t \in 0..1}
          \cup {Type4(<<>>), Type4(<<Type2(0, 1, 1, 1, 1)>>), Type0}

\* Two frames of two fragments and one lone Type2.
Few ==
    {Type1(s, 0, 1, 1) : s \in 0..1} \cup {Type2(s, 1, 1, 1, 1) : s \in 0..1}
      \cup {Type2(2, 0, 0, 1, 1)}
==============================================================================
