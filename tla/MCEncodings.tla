----------------------------- MODULE MCEncodings ------------------------------
(***************************************************************************)
(* The three encodings one end writes and the other reads back: the cut of *)
(* a SuperFrame into fragments, the ranges of a NACK, and the chunks of    *)
(* embedded data.  They share no state; part says which one a behaviour    *)
(* explores, and the others keep their initial values.                     *)
(*                                                                         *)
(* The fragmenter has the code's own header sizes and limits.              *)
(***************************************************************************)
EXTENDS Fragmenter, NackRanges, EmbeddedData, FiniteSets, Functions

CONSTANTS MaxMultiple,   \* bound: multiples of a Type1 payload visited
          MaxOf,         \* bound: largest mOfFragmentNo of a NACK
          MaxChunks,     \* bound: chunks of embedded data in a frame
          MaxPayload     \* bound: octets of payload behind them

\* mOfFragmentNo is a uint16_t.
ASSUME EncodingsAssumption ==
    /\ MaxOf \in Nat /\ MaxOf <= MaxFragmentNo
    /\ MaxPayload \in Nat

VARIABLES
    part,                                \* the encoding explored
    mOfFragmentNo, mReceivedFragments,   \* a bucket
    entries,                             \* the NACK it produced
    asked,                               \* what the sender read from it
    payload,                             \* the application's payload
    added,                               \* the chunks put in front of it
    frame                                \* the octets of the SuperFrame

cutVars == vars
nackVars == <<mOfFragmentNo, mReceivedFragments, entries, asked>>
embeddedVars == <<payload, added, frame>>
allVars == <<part, cutVars, nackVars, embeddedVars>>

------------------------------------------------------------------------------
(***************************************************************************)
(* Sizes next to every boundary of the cut: the Type2 limit, multiples of  *)
(* the Type1 payload, the Type3 window above such a multiple, and the two  *)
(* limits of a SuperFrame.                                                 *)
(***************************************************************************)
Around(n, d) == (n - d)..(n + d)

BoundarySizes(mtu, mode) ==
    LET p   == Type1PayloadSize(mtu, mode)
        cap == Type2PayloadSize(mtu)
        top == p * MAX_FRAGMENTS_PER_SUPERFRAME
    IN  Around(cap, 1)
          \cup UNION {Around(k * p, 1) : k \in 1..MaxMultiple}
          \cup UNION {Around(k * p + cap, 1) : k \in 1..MaxMultiple}
          \cup Around(top, 1) \cup Around(top - p + cap, 1)

MCMtus == {0, 256, 1456, 65535}

MCSizes ==
    {0, 1, MAX_SUPERFRAME_SIZE - 1, MAX_SUPERFRAME_SIZE,
     MAX_SUPERFRAME_SIZE + 1}
      \cup UNION {BoundarySizes(m, mode) :
                    m \in {256, 1456, 65535},
                    mode \in SubFragmentMode}

\* Timestamps with a reduced UINT32_MAX and UINT64_MAX: the differences cross
\* both limits.
MCStamps == {0, 1, UINT32_MAX, UINT32_MAX + 1, UINT64_MAX - 1, UINT64_MAX}

CutInit ==
    IF part = "cut" THEN Init
    ELSE /\ mMtu = MinMtu
         /\ mSubFragmentMode = SINGLE
         /\ call = NoCall

CutNext == part = "cut" /\ Next /\ UNCHANGED <<part, nackVars, embeddedVars>>

------------------------------------------------------------------------------
(***************************************************************************)
(* Every pattern of received fragments, turned into a NACK and read back.  *)
(***************************************************************************)
None == <<[mFragmentNo |-> -1, mFragmentCount |-> 0]>>

NackInit ==
    /\ IF part = "nack"
         THEN /\ mOfFragmentNo \in 0..MaxOf
              /\ mReceivedFragments \in SUBSET (0..mOfFragmentNo)
         ELSE mOfFragmentNo = 0 /\ mReceivedFragments = {}
    /\ entries = None
    /\ asked = {}

\* processNacks builds the NACK.
Build ==
    /\ entries = None
    /\ entries' = buildNack(mReceivedFragments, mOfFragmentNo)
    /\ UNCHANGED <<mOfFragmentNo, mReceivedFragments, asked>>

\* receiveNack walks the entries.
Read ==
    /\ entries # None /\ entries # <<>>
    /\ ~EntryRefused(Head(entries))
    /\ asked' = asked \cup EntryFragments(Head(entries))
    /\ entries' = Tail(entries)
    /\ UNCHANGED <<mOfFragmentNo, mReceivedFragments>>

\* A fragment arrives, or a new frame takes the bucket, and the next NACK is
\* due.
Retry ==
    /\ entries = <<>>
    /\ \/ \E k \in (0..mOfFragmentNo) \ mReceivedFragments :
            mReceivedFragments' = mReceivedFragments \cup {k}
       \/ mReceivedFragments = 0..mOfFragmentNo /\ mReceivedFragments' = {}
    /\ entries' = None
    /\ asked' = {}
    /\ UNCHANGED mOfFragmentNo

NackNext ==
    /\ part = "nack"
    /\ Build \/ Read \/ Retry
    /\ UNCHANGED <<part, cutVars, embeddedVars>>

------------------------------------------------------------------------------
(***************************************************************************)
(* An application puts chunks in front of a payload, the one next to the   *)
(* payload first and marked as the last.                                   *)
(***************************************************************************)
Octets == 0..(Base - 1)

\* Contents that look like headers, and the longest there is.
ChunkData ==
    {<<>>, <<0>>, <<EFP_EMBEDDED_LAST, 0, 0>>, [i \in 1..(Base + 1) |-> 1],
     [i \in 1..MaxChunkSize |-> Base - 1]}

EmbeddedInit ==
    /\ payload \in IF part = "embedded"
                   THEN UNION {[1..n -> Octets] : n \in 0..MaxPayload}
                   ELSE {<<>>}
    /\ added = <<>>
    /\ frame = payload

Add(type, data) ==
    /\ Len(added) < MaxChunks
    /\ added' = <<[type |-> type, data |-> data]>> \o added
    /\ frame' = efp_add_embedded_data(data, frame, type, added = <<>>)
    /\ UNCHANGED payload

\* The application takes the first chunk off.
Extract ==
    /\ added # <<>>
    /\ added' = Tail(added)
    /\ frame' = SubSeq(frame,
                       efp_extract_embedded_data(frame).payloadOffset + 1,
                       Len(frame))
    /\ UNCHANGED payload

EmbeddedNext ==
    /\ part = "embedded"
    /\ \/ \E type \in 1..(EFP_EMBEDDED_LAST - 1), data \in ChunkData :
            Add(type, data)
       \/ Extract
    /\ UNCHANGED <<part, cutVars, nackVars>>

------------------------------------------------------------------------------
EncodingsInit ==
    /\ part \in {"cut", "nack", "embedded"}
    /\ CutInit /\ NackInit /\ EmbeddedInit

EncodingsNext == CutNext \/ NackNext \/ EmbeddedNext

EncodingsSpec == EncodingsInit /\ [][EncodingsNext]_allVars

------------------------------------------------------------------------------
Missing == (0..mOfFragmentNo) \ mReceivedFragments
Named == IF entries = None THEN {}
         ELSE UNION {EntryFragments(entries[i]) : i \in 1..Len(entries)}

\* A NACK names missing fragments only, each one once, lowest first, and all of
\* them unless it is full; no entry exceeds its 8-bit range.
NackIsExact ==
    LET named == Named \cup asked
    IN  /\ named \subseteq Missing
        /\ Named \cap asked = {}
        /\ entries # None =>
             /\ \A i \in 1..Len(entries) :
                  entries[i].mFragmentCount \in 0..(MaxRange - 1)
             /\ SumFunction([i \in 1..Len(entries) |->
                               entries[i].mFragmentCount + 1])
                  = Cardinality(Named)
             /\ \A k \in Missing \ named : \A n \in named : n < k
             /\ asked = {} /\ Len(entries) < MaxEntries => Named = Missing

\* The sender reads back every fragment the receiver named: the walk of
\* receiveNack refuses no entry that buildNack makes.  (The fragment numbers of
\* the code stay below 8192; a range that ends at the last number the octets
\* can say, where the overflow check begins, is met in the scaled model only.)
EveryEntryIsRead ==
    entries # None => \A i \in 1..Len(entries) : ~EntryRefused(entries[i])

\* Whatever the octets of chunks and payload look like, the receiver's
\* callbacks get every chunk, in the order of the frame, with its type and its
\* data, and then exactly the payload.  efp_extract_embedded_data agrees with
\* them on the first chunk.
EmbeddedRoundTrip ==
    added # <<>> =>
      LET received == ReceiveCallback(frame, TRUE, TRUE, FALSE)
          first    == efp_extract_embedded_data(frame)
      IN  /\ received.calls = added
          /\ SubSeq(frame, received.payloadOffset + 1, Len(frame)) = payload
          /\ first = [result |-> "EFP_OK", type |-> Head(added).type,
                      data |-> Head(added).data,
                      payloadOffset |-> HeaderSize + Len(Head(added).data)]
===============================================================================
