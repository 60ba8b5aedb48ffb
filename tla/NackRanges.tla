------------------------------ MODULE NackRanges ------------------------------
(***************************************************************************)
(* The contents of a Type0 NACK: Receiver::buildNack turns the missing     *)
(* fragments of a bucket into ranges, Sender::receiveNack walks them.      *)
(***************************************************************************)
EXTENDS Integers, Sequences

CONSTANTS MaxRange,     \* fragments one NackEntry can name: 256 in the code
          MaxEntries,   \* entries one NACK can carry: 255 in the code
          MaxFragmentNo \* UINT16_MAX, the largest fragment number on the wire

ASSUME RangeAssumption ==
    MaxRange \in Nat \ {0} /\ MaxEntries \in Nat \ {0} /\ MaxFragmentNo \in Nat

NoStart == -1           \* lRangeStart == UINT16_MAX

NackEntry(start, count) == [mFragmentNo |-> start, mFragmentCount |-> count]

\* Slip: a range is closed where it ends, whatever its length.
ScanStepUnlimited(scan, i, missing) ==
    CASE missing /\ scan.start = NoStart ->
           [scan EXCEPT !.start = i, !.count = 0]
      [] missing /\ scan.start # NoStart -> [scan EXCEPT !.count = @ + 1]
      [] ~missing /\ scan.start # NoStart ->
           [start |-> NoStart, count |-> 0,
            entries |-> Append(scan.entries, NackEntry(scan.start, scan.count))]
      [] OTHER -> scan

\* One round of the scan: scan.start and scan.count are the pending range.
ScanStep(scan, i, missing) ==
    CASE missing /\ scan.start = NoStart ->
           [scan EXCEPT !.start = i, !.count = 0]
      [] missing /\ scan.start # NoStart /\ scan.count < MaxRange - 1 ->
           [scan EXCEPT !.count = @ + 1]
      [] missing /\ scan.start # NoStart /\ scan.count >= MaxRange - 1 ->
           [start |-> i, count |-> 0,
            entries |-> Append(scan.entries, NackEntry(scan.start, scan.count))]
      [] ~missing /\ scan.start # NoStart ->
           [start |-> NoStart, count |-> 0,
            entries |-> Append(scan.entries, NackEntry(scan.start, scan.count))]
      [] OTHER -> scan

\* All ranges of fragments 0..of that are not in received.
AllRanges(received, of) ==
    LET scan[i \in -1..of] ==
          IF i = -1 THEN [start |-> NoStart, count |-> 0, entries |-> <<>>]
          ELSE ScanStep(scan[i - 1], i, i \notin received)
        last == scan[of]
    IN  IF last.start = NoStart THEN last.entries
        ELSE Append(last.entries, NackEntry(last.start, last.count))

\* buildNack: at most MaxEntries of them.
buildNack(received, of) ==
    LET all == AllRanges(received, of)
    IN  IF Len(all) > MaxEntries THEN SubSeq(all, 1, MaxEntries) ELSE all

\* Slip: >= for >.
EntryRefusedEarly(e) == e.mFragmentNo + e.mFragmentCount >= MaxFragmentNo

\* receiveNack: an entry that runs past the last fragment number is refused.
EntryRefused(e) == e.mFragmentNo + e.mFragmentCount > MaxFragmentNo

\* receiveNack: the fragments one entry asks for.
EntryFragments(e) == e.mFragmentNo..(e.mFragmentNo + e.mFragmentCount)
==============================================================================
