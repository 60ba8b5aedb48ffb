------------------------------ MODULE NackProofs ------------------------------
(***************************************************************************)
(* What buildNack computes, for every pattern of received fragments and    *)
(* every width and number of NACK entries.                                 *)
(***************************************************************************)
EXTENDS NackRanges, DataLemmas

NoScan == [start |-> NoStart, count |-> 0, entries |-> <<>>]

\* The scan of AllRanges.
IsScan(received, of, g) ==
    g = [i \in -1..of |-> IF i = -1 THEN NoScan
                          ELSE ScanStep(g[i - 1], i, i \notin received)]

\* The ranges name what is missing below n: each within its width, one behind
\* the other.
RangesOK(received, ranges, n) ==
    /\ IsSeq(ranges)
    /\ \A j \in 1..Len(ranges) :
         /\ ranges[j].mFragmentNo \in Nat
         /\ ranges[j].mFragmentCount \in 0..(MaxRange - 1)
         /\ ranges[j].mFragmentNo + ranges[j].mFragmentCount < n
    /\ \A j, k \in 1..Len(ranges) :
         j < k => ranges[j].mFragmentNo + ranges[j].mFragmentCount
                    < ranges[k].mFragmentNo
    /\ \A k \in 0..(n - 1) :
         k \notin received
           <=> \E j \in 1..Len(ranges) : k \in EntryFragments(ranges[j])

\* The scan after fragment i: the closed ranges reach up to the pending one.
ScanOK(received, s, i) ==
    /\ s = [start |-> s.start, count |-> s.count, entries |-> s.entries]
    /\ IF s.start = NoStart
         THEN RangesOK(received, s.entries, i + 1)
         ELSE /\ s.start \in 0..i
              /\ s.count \in 0..(MaxRange - 1)
              /\ s.start + s.count = i
              /\ RangesOK(received, s.entries, s.start)
              /\ \A k \in s.start..i : k \notin received

LEMMA RangesGrow ==
    ASSUME NEW received, NEW ranges, NEW n \in Nat,
           RangesOK(received, ranges, n), n \in received
    PROVE  RangesOK(received, ranges, n + 1)
<1>1. \A j \in 1..Len(ranges) : n \notin EntryFragments(ranges[j])
  BY DEF RangesOK, EntryFragments
<1>2. ASSUME NEW k \in 0..((n + 1) - 1)
      PROVE  k \notin received
               <=> \E j \in 1..Len(ranges) : k \in EntryFragments(ranges[j])
  <2>1. k \in 0..(n - 1) \/ k = n
    OBVIOUS
  <2> QED BY <1>1, <2>1 DEF RangesOK
<1>3. \A j \in 1..Len(ranges) :
        ranges[j].mFragmentNo + ranges[j].mFragmentCount < n + 1
  BY DEF RangesOK
<1> QED BY <1>2, <1>3 DEF RangesOK

LEMMA RangesAppend ==
    ASSUME NEW received, NEW ranges, NEW n \in Nat, NEW c \in 0..(MaxRange - 1),
           RangesOK(received, ranges, n), \A k \in n..(n + c) : k \notin received
    PROVE  RangesOK(received, Append(ranges, NackEntry(n, c)), n + c + 1)
<1> DEFINE e == NackEntry(n, c)
           more == Append(ranges, e)
           len == Len(ranges)
<1>1. e.mFragmentNo = n /\ e.mFragmentCount = c /\ EntryFragments(e) = n..(n + c)
  BY DEF NackEntry, EntryFragments
<1>2. IsSeq(ranges) /\ len \in Nat
  BY LenIsNat DEF RangesOK
<1>3. MaxRange \in Nat /\ c \in Nat
  BY RangeAssumption
<1> HIDE DEF e
<1>4. /\ IsSeq(more) /\ Len(more) = len + 1 /\ more[len + 1] = e
      /\ \A j \in 1..len : more[j] = ranges[j]
  BY <1>2, AppendFacts
<1> HIDE DEF more
<1>5. ASSUME NEW j \in 1..Len(more)
      PROVE  \/ j \in 1..len /\ more[j] = ranges[j]
             \/ j = len + 1 /\ more[j] = e
  BY <1>2, <1>4
<1>6. ASSUME NEW j \in 1..Len(more)
      PROVE  /\ more[j].mFragmentNo \in Nat
             /\ more[j].mFragmentCount \in 0..(MaxRange - 1)
             /\ more[j].mFragmentNo + more[j].mFragmentCount < n + c + 1
  <2>1. CASE j \in 1..len /\ more[j] = ranges[j]
    BY <1>3, <2>1 DEF RangesOK
  <2>2. CASE more[j] = e
    BY <1>1, <1>3, <2>2
  <2> QED BY <1>5, <2>1, <2>2
<1>7. ASSUME NEW j \in 1..Len(more), NEW k \in 1..Len(more), j < k
      PROVE  more[j].mFragmentNo + more[j].mFragmentCount < more[k].mFragmentNo
  <2>1. j \in 1..len /\ more[j] = ranges[j]
    BY <1>2, <1>4, <1>7
  <2>2. CASE k \in 1..len /\ more[k] = ranges[k]
    BY <1>7, <2>1, <2>2 DEF RangesOK
  <2>3. CASE more[k] = e
    BY <1>1, <2>1, <2>3 DEF RangesOK
  <2> QED BY <1>5, <2>2, <2>3
<1>8. ASSUME NEW k \in 0..((n + c + 1) - 1)
      PROVE  k \notin received
               <=> \E j \in 1..Len(more) : k \in EntryFragments(more[j])
  <2>1. CASE k < n
    <3>1. k \notin EntryFragments(e) /\ k \in 0..(n - 1)
      BY <1>1, <2>1
    <3>2. (\E j \in 1..Len(more) : k \in EntryFragments(more[j]))
            <=> \E j \in 1..len : k \in EntryFragments(ranges[j])
      <4>1. ASSUME NEW j \in 1..Len(more), k \in EntryFragments(more[j])
            PROVE  \E l \in 1..len : k \in EntryFragments(ranges[l])
        BY <1>5, <3>1, <4>1
      <4>2. ASSUME NEW j \in 1..len, k \in EntryFragments(ranges[j])
            PROVE  \E l \in 1..Len(more) : k \in EntryFragments(more[l])
        <5>1. j \in 1..Len(more) /\ more[j] = ranges[j]
          BY <1>2, <1>4
        <5> QED BY <4>2, <5>1
      <4> QED BY <4>1, <4>2
    <3> QED BY <3>1, <3>2 DEF RangesOK
  <2>2. CASE k >= n
    <3>1. k \in n..(n + c) /\ len + 1 \in 1..Len(more)
      BY <1>2, <1>3, <1>4, <2>2
    <3> QED BY <1>1, <1>4, <3>1
  <2> QED BY <2>1, <2>2
<1> QED BY <1>4, <1>6, <1>7, <1>8 DEF RangesOK, more, e

LEMMA ScanStepOK ==
    ASSUME NEW received, NEW s, NEW i \in Nat, ScanOK(received, s, i - 1)
    PROVE  ScanOK(received, ScanStep(s, i, i \notin received), i)
<1> DEFINE t == ScanStep(s, i, i \notin received)
           closed == Append(s.entries, NackEntry(s.start, s.count))
<1>1. s = [start |-> s.start, count |-> s.count, entries |-> s.entries]
  BY DEF ScanOK
<1>2. MaxRange \in Nat \ {0} /\ (i - 1) + 1 = i /\ NoStart \notin Nat
  BY RangeAssumption DEF NoStart
<1>3. CASE s.start = NoStart
  <2>1. RangesOK(received, s.entries, i)
    BY <1>2, <1>3 DEF ScanOK
  <2>2. CASE i \notin received
    <3>1. t = [start |-> i, count |-> 0, entries |-> s.entries]
      BY <1>1, <1>3, <2>2 DEF ScanStep
    <3> QED BY <1>2, <2>1, <2>2, <3>1 DEF ScanOK
  <2>3. CASE i \in received
    <3>1. t = s
      BY <1>3, <2>3 DEF ScanStep
    <3> QED BY <1>1, <1>3, <2>1, <2>3, <3>1, RangesGrow DEF ScanOK
  <2> QED BY <2>2, <2>3
<1>4. CASE s.start # NoStart
  <2>1. /\ s.start \in 0..(i - 1) /\ s.count \in 0..(MaxRange - 1)
        /\ s.start + s.count = i - 1 /\ RangesOK(received, s.entries, s.start)
        /\ \A k \in s.start..(i - 1) : k \notin received
    BY <1>4 DEF ScanOK
  <2>2. RangesOK(received, closed, i)
    <3>1. s.start \in Nat /\ s.start + s.count + 1 = i
      BY <1>2, <2>1
    <3>2. RangesOK(received, closed, s.start + s.count + 1)
      <4>1. \A k \in s.start..(s.start + s.count) : k \notin received
        BY <2>1
      <4> QED BY <2>1, <3>1, <4>1, RangesAppend
    <3> QED BY <3>1, <3>2
  <2>3. CASE i \in received
    <3>1. t = [start |-> NoStart, count |-> 0, entries |-> closed]
      BY <1>1, <1>4, <2>3 DEF ScanStep
    <3>2. RangesOK(received, closed, i + 1)
      BY <2>2, <2>3, RangesGrow
    <3> HIDE DEF closed
    <3> QED BY <3>1, <3>2 DEF ScanOK
  <2>4. CASE i \notin received /\ s.count < MaxRange - 1
    <3>1. t = [start |-> s.start, count |-> s.count + 1, entries |-> s.entries]
      <4>1. ~(s.count >= MaxRange - 1)
        BY <1>2, <2>1, <2>4
      <4>2. t = [s EXCEPT !.count = s.count + 1]
        BY <1>4, <2>4, <4>1 DEF ScanStep
      <4> QED BY <1>1, <4>2
    <3>2. \A k \in s.start..i : k \notin received
      <4> SUFFICES ASSUME NEW k \in s.start..i
                   PROVE  k \notin received
        OBVIOUS
      <4>1. k = i \/ k \in s.start..(i - 1)
        BY <2>1
      <4> QED BY <2>1, <2>4, <4>1
    <3>3. /\ s.start \in 0..i /\ s.count + 1 \in 0..(MaxRange - 1)
          /\ s.start + (s.count + 1) = i
      BY <1>2, <2>1, <2>4
    <3> QED BY <1>4, <2>1, <3>1, <3>2, <3>3 DEF ScanOK
  <2>5. CASE i \notin received /\ s.count >= MaxRange - 1
    <3>1. t = [start |-> i, count |-> 0, entries |-> closed]
      <4>1. ~(s.count < MaxRange - 1)
        BY <1>2, <2>1, <2>5
      <4> QED BY <1>1, <1>4, <2>5, <4>1 DEF ScanStep
    <3> HIDE DEF closed
    <3>2. 0 \in 0..(MaxRange - 1) /\ i \in 0..i /\ i + 0 = i /\ i # NoStart
      BY <1>2
    <3>3. \A k \in i..i : k \notin received
      BY <2>5
    <3> QED BY <2>2, <3>1, <3>2, <3>3 DEF ScanOK
  <2> QED BY <1>2, <2>1, <2>3, <2>4, <2>5
<1> QED BY <1>3, <1>4

LEMMA ScanExists ==
    ASSUME NEW received, NEW of \in Nat
    PROVE  \E g : IsScan(received, of, g)
<1> DEFINE Good == {n \in Nat : \E g : IsScan(received, n, g)}
<1>1. 0 \in Good
  <2> DEFINE g == [i \in -1..0 |-> IF i = -1 THEN NoScan
                                   ELSE ScanStep(NoScan, 0, 0 \notin received)]
  <2>1. g[-1] = NoScan
    OBVIOUS
  <2>2. \A i \in -1..0 : i # -1 => i = 0 /\ i - 1 = -1
    OBVIOUS
  <2>3. g = [i \in -1..0 |-> IF i = -1 THEN NoScan
                             ELSE ScanStep(g[i - 1], i, i \notin received)]
    BY <2>1, <2>2
  <2> QED BY <2>3 DEF IsScan
<1>2. ASSUME NEW n \in Nat, n \in Good
      PROVE  n + 1 \in Good
  <2>1. PICK g : IsScan(received, n, g)
    BY <1>2
  <2> DEFINE last == ScanStep(g[n], n + 1, (n + 1) \notin received)
             h == [i \in -1..(n + 1) |-> IF i = n + 1 THEN last ELSE g[i]]
  <2>2. ASSUME NEW i \in -1..(n + 1)
        PROVE  h[i] = IF i = -1 THEN NoScan
                      ELSE ScanStep(h[i - 1], i, i \notin received)
    <3>1. CASE i = n + 1
      <4>1. i # -1 /\ i - 1 = n /\ n \in -1..(n + 1) /\ n # n + 1
        BY <3>1
      <4> QED BY <3>1, <4>1
    <3>2. CASE i # n + 1 /\ i # -1
      <4>1. /\ i \in -1..n /\ i - 1 \in -1..(n + 1) /\ i - 1 # n + 1
        BY <3>2
      <4>2. h[i] = g[i] /\ h[i - 1] = g[i - 1]
        BY <3>2, <4>1
      <4>3. g[i] = ScanStep(g[i - 1], i, i \notin received)
        BY <2>1, <3>2, <4>1 DEF IsScan
      <4> QED BY <3>2, <4>2, <4>3
    <3>3. CASE i = -1
      <4>1. -1 \in -1..n /\ -1 # n + 1
        OBVIOUS
      <4>2. g[-1] = NoScan
        BY <2>1, <4>1 DEF IsScan
      <4> QED BY <3>3, <4>1, <4>2
    <3> QED BY <3>1, <3>2, <3>3
  <2>3. IsScan(received, n + 1, h)
    <3>1. h = [i \in -1..(n + 1) |-> h[i]]
      OBVIOUS
    <3> HIDE DEF h
    <3> QED BY <2>2, <3>1 DEF IsScan
  <2> QED BY <2>3
<1> HIDE DEF Good
<1>3. \A n \in Nat : n \in Good
  BY <1>1, <1>2, NatStepByStep
<1> QED BY <1>3 DEF Good

LEMMA ScanIsOK ==
    ASSUME NEW received, NEW of \in Nat, NEW g, IsScan(received, of, g)
    PROVE  ScanOK(received, g[of], of)
<1> DEFINE Good == {n \in Nat : n <= of + 1 => ScanOK(received, g[n - 1], n - 1)}
<1>1. 0 \in Good
  <2>1. -1 \in -1..of /\ 0 - 1 = -1
    OBVIOUS
  <2>2. g[-1] = NoScan
    BY <2>1 DEF IsScan
  <2>3. RangesOK(received, <<>>, (0 - 1) + 1)
    <3>1. IsSeq(<<>>) /\ Len(<<>>) = 0
      BY EmptyIsSeq
    <3> QED BY <3>1 DEF RangesOK
  <2> QED BY <2>1, <2>2, <2>3 DEF ScanOK, NoScan
<1>2. ASSUME NEW n \in Nat, n \in Good
      PROVE  n + 1 \in Good
  <2>1. SUFFICES ASSUME n + 1 <= of + 1
                 PROVE  ScanOK(received, g[(n + 1) - 1], (n + 1) - 1)
    OBVIOUS
  <2>2. ScanOK(received, g[n - 1], n - 1)
    BY <1>2, <2>1
  <2>3. n \in -1..of /\ n # -1 /\ (n + 1) - 1 = n
    BY <2>1
  <2>4. g[n] = ScanStep(g[n - 1], n, n \notin received)
    BY <2>3 DEF IsScan
  <2> QED BY <2>2, <2>3, <2>4, ScanStepOK
<1> HIDE DEF Good
<1>3. of + 1 \in Good
  <2>1. \A n \in Nat : n \in Good
    BY <1>1, <1>2, NatStepByStep
  <2> QED BY <2>1
<1>4. (of + 1) - 1 = of /\ of + 1 <= of + 1
  OBVIOUS
<1> QED BY <1>3, <1>4 DEF Good

\* AllRanges names each missing fragment, and nothing else.
LEMMA AllRangesOK ==
    ASSUME NEW received, NEW of \in Nat
    PROVE  RangesOK(received, AllRanges(received, of), of + 1)
<1> DEFINE g == CHOOSE g : IsScan(received, of, g)
           last == g[of]
           closed == Append(last.entries, NackEntry(last.start, last.count))
<1>1. IsScan(received, of, g)
  BY ScanExists
<1>2. ScanOK(received, last, of)
  <2> HIDE DEF g
  <2> QED BY <1>1, ScanIsOK
<1>3. AllRanges(received, of)
        = IF last.start = NoStart THEN last.entries ELSE closed
  BY DEF AllRanges, IsScan, NoScan
<1> HIDE DEF g, last
<1>4. CASE last.start = NoStart
  BY <1>2, <1>3, <1>4 DEF ScanOK
<1>5. CASE last.start # NoStart
  <2>1. /\ last.start \in Nat /\ last.count \in 0..(MaxRange - 1)
        /\ last.start + last.count = of
        /\ RangesOK(received, last.entries, last.start)
        /\ \A k \in last.start..(last.start + last.count) : k \notin received
    BY <1>2, <1>5 DEF ScanOK
  <2>2. RangesOK(received, closed, last.start + last.count + 1)
    BY <2>1, RangesAppend
  <2>3. last.start + last.count + 1 = of + 1
    BY <2>1, RangeAssumption
  <2> QED BY <1>3, <1>5, <2>2, <2>3
<1> QED BY <1>4, <1>5

------------------------------------------------------------------------------
(***************************************************************************)
(* The NACK itself.                                                        *)
(***************************************************************************)
NamedBy(ranges) == UNION {EntryFragments(ranges[j]) : j \in 1..Len(ranges)}

\* A NACK names missing fragments, lowest first; one that leaves a missing
\* fragment out is full and names nothing behind it.
NackOK(received, of, ranges) ==
    /\ IsSeq(ranges) /\ Len(ranges) <= MaxEntries
    /\ \A j \in 1..Len(ranges) :
         /\ ranges[j].mFragmentNo \in Nat
         /\ ranges[j].mFragmentCount \in 0..(MaxRange - 1)
         /\ ranges[j].mFragmentNo + ranges[j].mFragmentCount <= of
    /\ \A j, k \in 1..Len(ranges) :
         j < k => ranges[j].mFragmentNo + ranges[j].mFragmentCount
                    < ranges[k].mFragmentNo
    /\ NamedBy(ranges) \subseteq (0..of) \ received
    /\ \A k \in ((0..of) \ received) \ NamedBy(ranges) :
         /\ Len(ranges) = MaxEntries
         /\ \A n \in NamedBy(ranges) : n < k

LEMMA NamedByMember ==
    ASSUME NEW ranges, NEW k
    PROVE  k \in NamedBy(ranges)
             <=> \E j \in 1..Len(ranges) : k \in EntryFragments(ranges[j])
  BY DEF NamedBy

LEMMA buildNackOK ==
    ASSUME NEW received, NEW of \in Nat
    PROVE  NackOK(received, of, buildNack(received, of))
<1> DEFINE all == AllRanges(received, of)
           len == Len(all)
           n == buildNack(received, of)
<1>1. RangesOK(received, all, of + 1)
  BY AllRangesOK
<1> HIDE DEF all
<1>2. IsSeq(all) /\ len \in Nat
  BY <1>1, LenIsNat DEF RangesOK
<1>3. /\ MaxEntries \in Nat \ {0} /\ MaxRange \in Nat \ {0}
  BY RangeAssumption
\* A NACK is what is left of all ranges up to its length.
<1>4. /\ IsSeq(n) /\ Len(n) \in Nat /\ Len(n) <= len /\ Len(n) <= MaxEntries
      /\ \A j \in 1..Len(n) : n[j] = all[j]
      /\ Len(n) < len => Len(n) = MaxEntries
  <2>1. CASE len > MaxEntries
    <3>1. n = SubSeq(all, 1, MaxEntries)
      BY <2>1 DEF buildNack, all
    <3>2. IsSeq(n) /\ Len(n) = MaxEntries /\ \A j \in 1..MaxEntries : n[j] = all[j]
      BY <1>2, <1>3, <2>1, <3>1, PrefixFacts
    <3> QED BY <1>2, <1>3, <2>1, <3>2
  <2>2. CASE len <= MaxEntries
    <3>1. n = all
      BY <1>2, <1>3, <2>2 DEF buildNack, all
    <3> QED BY <1>2, <1>3, <2>2, <3>1
  <2> QED BY <1>2, <1>3, <2>1, <2>2
<1> HIDE DEF n
<1>5. \A j \in 1..Len(n) : j \in 1..len
  BY <1>2, <1>4
<1>6. ASSUME NEW j \in 1..Len(n)
      PROVE  /\ n[j].mFragmentNo \in Nat
             /\ n[j].mFragmentCount \in 0..(MaxRange - 1)
             /\ n[j].mFragmentNo + n[j].mFragmentCount <= of
  <2>1. /\ n[j].mFragmentNo \in Nat
        /\ n[j].mFragmentCount \in 0..(MaxRange - 1)
        /\ n[j].mFragmentNo + n[j].mFragmentCount < of + 1
    BY <1>1, <1>4, <1>5 DEF RangesOK
  <2> QED BY <1>3, <2>1
<1>7. ASSUME NEW j \in 1..Len(n), NEW k \in 1..Len(n), j < k
      PROVE  n[j].mFragmentNo + n[j].mFragmentCount < n[k].mFragmentNo
  BY <1>1, <1>4, <1>5, <1>7 DEF RangesOK
<1>8. ASSUME NEW k \in NamedBy(n)
      PROVE  k \in (0..of) \ received
  <2>1. PICK j \in 1..Len(n) : k \in EntryFragments(n[j])
    BY NamedByMember
  <2>2. k \in 0..of
    BY <1>3, <1>6, <2>1 DEF EntryFragments
  <2>3. j \in 1..len /\ k \in EntryFragments(all[j])
    BY <1>4, <1>5, <2>1
  <2>4. k \in 0..((of + 1) - 1)
    BY <2>2
  <2> QED BY <1>1, <2>2, <2>3, <2>4 DEF RangesOK
<1>9. ASSUME NEW k \in ((0..of) \ received) \ NamedBy(n)
      PROVE  /\ Len(n) = MaxEntries
             /\ \A m \in NamedBy(n) : m < k
  <2>1. k \in 0..((of + 1) - 1) /\ k \notin received
    OBVIOUS
  <2>2. PICK l \in 1..len : k \in EntryFragments(all[l])
    BY <1>1, <2>1 DEF RangesOK
  <2>3. l \notin 1..Len(n)
    <3>1. SUFFICES ASSUME l \in 1..Len(n)
                   PROVE  FALSE
      OBVIOUS
    <3>2. k \in EntryFragments(n[l])
      BY <1>4, <2>2, <3>1
    <3> QED BY <3>1, <3>2, NamedByMember
  <2>4. Len(n) < l /\ Len(n) < len
    BY <1>2, <1>4, <2>3
  <2>5. ASSUME NEW m \in NamedBy(n)
        PROVE  m < k
    <3>1. PICK j \in 1..Len(n) : m \in EntryFragments(n[j])
      BY NamedByMember
    <3>2. j \in 1..len /\ j < l /\ n[j] = all[j]
      BY <1>4, <1>5, <2>4
    <3>3. all[j].mFragmentNo + all[j].mFragmentCount < all[l].mFragmentNo
      BY <1>1, <3>2 DEF RangesOK
    <3>4. /\ m <= n[j].mFragmentNo + n[j].mFragmentCount
          /\ m \in Int /\ n[j].mFragmentNo + n[j].mFragmentCount \in Int
      BY <1>3, <1>6, <3>1 DEF EntryFragments
    <3>5. k >= all[l].mFragmentNo /\ all[l].mFragmentNo \in Int /\ k \in Int
      BY <1>1, <2>2 DEF EntryFragments, RangesOK
    <3> QED BY <3>2, <3>3, <3>4, <3>5
  <2> QED BY <1>4, <2>4, <2>5
<1> QED BY <1>4, <1>6, <1>7, <1>8, <1>9 DEF NackOK, n

\* A NACK that may have an entry has one as long as a fragment is missing.
LEMMA NackNotEmpty ==
    ASSUME NEW received, NEW of \in Nat, (0..of) \ received # {}
    PROVE  buildNack(received, of) # <<>>
<1> DEFINE n == buildNack(received, of)
<1> SUFFICES ASSUME n = <<>>
             PROVE  FALSE
  OBVIOUS
<1>1. NackOK(received, of, n)
  BY buildNackOK
<1>2. Len(n) = 0
  BY EmptyIsSeq
<1> HIDE DEF n
<1>3. NamedBy(n) = {}
  BY <1>2 DEF NamedBy
<1>4. Len(n) = MaxEntries
  BY <1>1, <1>3 DEF NackOK
<1> QED BY <1>2, <1>4, RangeAssumption

\* A NACK that has room for every range asks for every missing fragment.
LEMMA NackNamesAll ==
    ASSUME NEW received, NEW of \in Nat,
           Len(AllRanges(received, of)) <= MaxEntries,
           NEW k \in (0..of) \ received
    PROVE  \E j \in 1..Len(buildNack(received, of)) :
             k \in EntryFragments(buildNack(received, of)[j])
<1> DEFINE all == AllRanges(received, of)
<1>1. RangesOK(received, all, of + 1)
  BY AllRangesOK
<1> HIDE DEF all
<1>2. Len(all) \in Nat
  BY <1>1, LenIsNat DEF RangesOK
<1>3. buildNack(received, of) = all
  BY <1>2, RangeAssumption DEF buildNack, all
<1>4. k \in 0..((of + 1) - 1)
  OBVIOUS
<1>5. \E j \in 1..Len(all) : k \in EntryFragments(all[j])
  BY <1>1, <1>4 DEF RangesOK
<1> QED BY <1>3, <1>5

\* There are never more ranges than fragments.
LEMMA RangesFit ==
    ASSUME NEW received, NEW of \in Nat
    PROVE  Len(AllRanges(received, of)) <= of + 1
<1> DEFINE all == AllRanges(received, of)
           n == Len(all)
           Good == {j \in Nat : j < n => all[j + 1].mFragmentNo >= j}
<1>1. RangesOK(received, all, of + 1)
  BY AllRangesOK
<1> HIDE DEF all
<1>2. n \in Nat
  BY <1>1, LenIsNat DEF RangesOK
<1>3. ASSUME NEW j \in 1..n
      PROVE  /\ all[j].mFragmentNo \in Nat
             /\ all[j].mFragmentCount \in Nat
             /\ all[j].mFragmentNo + all[j].mFragmentCount < of + 1
  <2>1. all[j].mFragmentCount \in 0..(MaxRange - 1)
    BY <1>1 DEF RangesOK
  <2>2. all[j].mFragmentCount \in Nat
    BY <2>1, RangeAssumption
  <2> QED BY <1>1, <2>2 DEF RangesOK
<1>4. 0 \in Good
  BY <1>2, <1>3
<1>5. ASSUME NEW j \in Nat, j \in Good
      PROVE  j + 1 \in Good
  <2> SUFFICES ASSUME j + 1 < n
               PROVE  all[j + 2].mFragmentNo >= j + 1
    OBVIOUS
  <2>1. j < n /\ j + 1 \in 1..n /\ j + 2 \in 1..n
    BY <1>2
  <2>2. all[j + 1].mFragmentNo + all[j + 1].mFragmentCount
          < all[j + 2].mFragmentNo
    BY <1>1, <2>1 DEF RangesOK
  <2> QED BY <1>3, <1>5, <2>1, <2>2
<1>6. \A j \in Nat : j \in Good
  <2> HIDE DEF Good
  <2> QED BY <1>4, <1>5, NatStepByStep
<1>7. CASE n = 0
  BY <1>7 DEF all
<1>8. CASE n # 0
  <2>1. n - 1 \in Nat /\ n - 1 < n /\ n \in 1..n /\ (n - 1) + 1 = n
    BY <1>2, <1>8
  <2>2. all[n].mFragmentNo >= n - 1
    BY <1>6, <2>1
  <2> QED BY <1>2, <1>3, <2>1, <2>2 DEF all
<1> QED BY <1>7, <1>8

\* Ranges one behind the other name as many fragments as their lengths add up
\* to.
LEMMA RangesCount ==
    ASSUME NEW ranges, IsSeq(ranges),
           \A j \in 1..Len(ranges) :
             /\ ranges[j].mFragmentNo \in Nat
             /\ ranges[j].mFragmentCount \in Nat,
           \A j, k \in 1..Len(ranges) :
             j < k => ranges[j].mFragmentNo + ranges[j].mFragmentCount
                        < ranges[k].mFragmentNo
    PROVE  SumFunction([j \in 1..Len(ranges) |-> ranges[j].mFragmentCount + 1])
             = Cardinality(NamedBy(ranges))
<1> DEFINE len == Len(ranges)
           fun == [j \in 1..len |-> ranges[j].mFragmentCount + 1]
           Below(n) == UNION {EntryFragments(ranges[j]) : j \in 1..n}
           Counted(n) == /\ IsFiniteSet(Below(n))
                         /\ SumFunctionOnSet(fun, 1..n) = Cardinality(Below(n))
           Good == {n \in Nat : n <= len => Counted(n)}
<1>1. len \in Nat
  BY LenIsNat
<1>2. 0 \in Good
  <2>1. 1..0 = {}
    OBVIOUS
  <2>2. Below(0) = {}
    BY <2>1
  <2>3. SumFunctionOnSet(fun, {}) = 0
    <3> HIDE DEF fun
    <3> QED BY SumEmpty
  <2> QED BY <2>1, <2>2, <2>3, FS_EmptySet
<1>3. ASSUME NEW n \in Nat, n \in Good
      PROVE  n + 1 \in Good
  <2>1. SUFFICES ASSUME n + 1 <= len
                 PROVE  Counted(n + 1)
    OBVIOUS
  <2>2. Counted(n)
    BY <1>1, <1>3, <2>1
  <2> DEFINE e == EntryFragments(ranges[n + 1])
  <2>3. n + 1 \in 1..len
    BY <1>1, <2>1
  <2>4. IsFiniteSet(e) /\ Cardinality(e) = ranges[n + 1].mFragmentCount + 1
    <3>1. /\ ranges[n + 1].mFragmentNo \in Nat
          /\ ranges[n + 1].mFragmentCount \in Nat
      BY <2>3
    <3> DEFINE a == ranges[n + 1].mFragmentNo
               c == ranges[n + 1].mFragmentCount
    <3>2. e = a..(a + c)
      BY DEF EntryFragments
    <3> HIDE DEF a, c, e
    <3>3. a \in Int /\ a + c \in Int /\ ~(a > a + c) /\ (a + c) - a + 1 = c + 1
      BY <3>1 DEF a, c
    <3>4. IsFiniteSet(a..(a + c)) /\ Cardinality(a..(a + c)) = (a + c) - a + 1
      BY <3>3, FS_Interval
    <3> QED BY <3>2, <3>3, <3>4 DEF c
  <2>5. Below(n + 1) = Below(n) \cup e
    <3>1. \A j : j \in 1..(n + 1) <=> j \in 1..n \/ j = n + 1
      BY <2>3
    <3> HIDE DEF e
    <3>2. ASSUME NEW k \in Below(n + 1)
          PROVE  k \in Below(n) \cup e
      BY <3>1 DEF e
    <3>3. ASSUME NEW k \in Below(n) \cup e
          PROVE  k \in Below(n + 1)
      BY <3>1 DEF e
    <3> QED BY <3>2, <3>3
  <2>6. Below(n) \cap e = {}
    <3>1. SUFFICES ASSUME NEW k \in Below(n), k \in e
                   PROVE  FALSE
      OBVIOUS
    <3>2. PICK j \in 1..n : k \in EntryFragments(ranges[j])
      OBVIOUS
    <3>3. j \in 1..len /\ j < n + 1
      BY <2>3
    <3>4. ranges[j].mFragmentNo + ranges[j].mFragmentCount
            < ranges[n + 1].mFragmentNo
      BY <2>3, <3>3
    <3>5. /\ ranges[j].mFragmentNo \in Nat /\ ranges[j].mFragmentCount \in Nat
          /\ ranges[n + 1].mFragmentNo \in Nat
          /\ ranges[n + 1].mFragmentCount \in Nat
      BY <2>3, <3>3
    <3> QED BY <3>1, <3>2, <3>4, <3>5 DEF EntryFragments
  <2>7. /\ IsFiniteSet(Below(n) \cup e)
        /\ Cardinality(Below(n) \cup e) = Cardinality(Below(n)) + Cardinality(e)
    <3> DEFINE B == Below(n)
    <3>1. IsFiniteSet(B) /\ B \cap e = {}
      BY <2>2, <2>6
    <3> HIDE DEF B, e
    <3>2. IsFiniteSet(B \cup e) /\ Cardinality(B \cup e)
             = Cardinality(B) + Cardinality(e) - Cardinality(B \cap e)
      BY <2>4, <3>1, FS_Union
    <3>3. Cardinality(B) \in Nat /\ Cardinality(e) \in Nat
      BY <2>4, <3>1, FS_CardinalityType
    <3>4. Cardinality(B \cap e) = 0
      BY <3>1, FS_EmptySet
    <3> QED BY <3>2, <3>3, <3>4 DEF B
  <2>8. SumFunctionOnSet(fun, 1..(n + 1))
          = fun[n + 1] + SumFunctionOnSet(fun, 1..n)
    <3> DEFINE S == 1..(n + 1)
    <3>1. IsFiniteSet(S) /\ n + 1 \in S
      BY FS_Interval
    <3>2. \A j \in S : fun[j] \in Int
      <4>1. \A j \in S : j \in 1..len
        BY <2>3
      <4> QED BY <4>1
    <3>3. S \ {n + 1} = 1..n
      OBVIOUS
    <3> HIDE DEF fun, S
    <3>4. SumFunctionOnSet(fun, S)
            = fun[n + 1] + SumFunctionOnSet(fun, S \ {n + 1})
      BY <3>1, <3>2, SumWithout
    <3> QED BY <3>3, <3>4 DEF S
  <2>9. fun[n + 1] = Cardinality(e)
    BY <2>3, <2>4
  <2>10. Cardinality(Below(n)) \in Nat /\ Cardinality(e) \in Nat
    BY <2>2, <2>4, FS_CardinalityType
  <2>11. IsFiniteSet(Below(n + 1))
    BY <2>5, <2>7
  <2>12. Cardinality(Below(n + 1)) = Cardinality(Below(n)) + Cardinality(e)
    BY <2>5, <2>7
  <2> HIDE DEF fun, e, Below
  <2> QED BY <2>2, <2>8, <2>9, <2>10, <2>11, <2>12
<1> HIDE DEF Good
<1>4. len \in Good
  <2>1. \A n \in Nat : n \in Good
    BY <1>2, <1>3, NatStepByStep
  <2> QED BY <1>1, <2>1
<1>5. SumFunctionOnSet(fun, 1..len) = Cardinality(Below(len))
  <2> HIDE DEF Below, fun
  <2> QED BY <1>1, <1>4 DEF Good
<1>6. DOMAIN fun = 1..len
  OBVIOUS
<1>7. SumFunction(fun) = SumFunctionOnSet(fun, DOMAIN fun)
  BY DEF SumFunction
<1> QED BY <1>5, <1>6, <1>7 DEF NamedBy
==============================================================================
