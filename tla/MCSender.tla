------------------------------ MODULE MCSender ------------------------------
(***************************************************************************)
(* SuperFrames and NACKs for the sender's runs.                            *)
(***************************************************************************)
EXTENDS Sender

Frame(size) ==
    [size |-> size, mPts |-> 5, mDts |-> 3, mStreamId |-> 1, mPayload |-> 1,
     mFlags |-> 0]

\* A lone Type2, frames of two and three Type1 fragments and a Type2, and a
\* frame of more fragments than are allowed, for Mtu = 7 and HALF.  No Type2 has
\* the size of a Type1 frame.
HalfFrames == {Frame(n) : n \in {5, 6, 8, 15}}

\* HalfFrames and a lone Type2 packet of exactly the size of a Type1 frame.
HalfFramesAnySize == HalfFrames \cup {Frame(1)}

Entry(frag, count) == [mFragmentNo |-> frag, mFragmentCount |-> count]

\* Every fragment of one SuperFrame, of the right and of a wrong stream, and a
\* NACK whose second entry is refused.
AnyNacks ==
    {[mStreamId |-> 1, mSuperFrameNo |-> s, entries |-> <<Entry(0, 2)>>] :
       s \in 0..(SeqSpace - 1)}
      \cup {[mStreamId |-> 2, mSuperFrameNo |-> 0, entries |-> <<Entry(0, 0)>>],
            [mStreamId |-> 1, mSuperFrameNo |-> 0,
             entries |-> <<Entry(0, 0), Entry(MaxFragmentNo, 1), Entry(1, 0)>>]}
=============================================================================
