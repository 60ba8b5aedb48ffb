------------------------------ MODULE DataLemmas ------------------------------
(***************************************************************************)
(* Facts about division, sequences and finite sums that the proofs of      *)
(* several components need.  What a recursive definition computes is      *)
(* proved by taking the smallest argument for which it would go wrong.     *)
(***************************************************************************)
EXTENDS Integers, Sequences, FiniteSets, Functions,
        SequenceTheorems, FiniteSetTheorems, WellFoundedInduction, TLAPS

------------------------------------------------------------------------------
(***************************************************************************)
(* Induction.                                                              *)
(***************************************************************************)

\* A set of natural numbers that is not empty has a smallest element.
LEMMA SmallestOfSet ==
    ASSUME NEW T \in SUBSET Nat, T # {}
    PROVE  \E n \in T : \A k \in 0..(n - 1) : k \notin T
<1>1. PICK n \in T : \A k \in T : ~(<<k, n>> \in OpToRel(<, Nat))
  BY NatLessThanWellFounded, WFMin
<1>2. ASSUME NEW k \in 0..(n - 1), k \in T
      PROVE  FALSE
  <2>1. k \in Nat /\ n \in Nat /\ k < n
    BY <1>2
  <2>2. <<k, n>> \in OpToRel(<, Nat)
    BY <2>1 DEF OpToRel
  <2> QED BY <1>1, <1>2, <2>2
<1> QED BY <1>1, <1>2

\* A set of numbers that has 0 and, with a number, the next one, has them all.
LEMMA NatStepByStep ==
    ASSUME NEW Good, 0 \in Good,
           \A n \in Nat : n \in Good => n + 1 \in Good
    PROVE  \A n \in Nat : n \in Good
<1> DEFINE T == {n \in Nat : n \notin Good}
<1>1. SUFFICES ASSUME T # {}
               PROVE  FALSE
  OBVIOUS
<1>2. PICK n \in T : \A k \in 0..(n - 1) : k \notin T
  BY <1>1, SmallestOfSet
<1>3. n \in Nat /\ n # 0 /\ n - 1 \in 0..(n - 1) /\ n - 1 \in Nat
  BY <1>2
<1>4. n - 1 \in Good
  BY <1>2, <1>3
<1>5. (n - 1) + 1 \in Good /\ (n - 1) + 1 = n
  BY <1>3, <1>4
<1> QED BY <1>2, <1>5

\* Finite sets, from what holds of a set without one of its elements.
LEMMA SubsetByElements ==
    ASSUME NEW S, IsFiniteSet(S), NEW Good, {} \in Good,
           \A T \in SUBSET S :
             T # {} /\ (\A x \in T : T \ {x} \in Good) => T \in Good
    PROVE  \A T \in SUBSET S : T \in Good
<1> DEFINE Small == {n \in Nat : \A T \in SUBSET S :
                                   Cardinality(T) = n => T \in Good}
<1>1. \A T \in SUBSET S : IsFiniteSet(T) /\ Cardinality(T) \in Nat
  BY FS_Subset, FS_CardinalityType
<1>2. 0 \in Small
  BY <1>1, FS_EmptySet
<1>3. ASSUME NEW n \in Nat, n \in Small
      PROVE  n + 1 \in Small
  <2>1. ASSUME NEW T \in SUBSET S, Cardinality(T) = n + 1
        PROVE  T \in Good
    <3>1. T # {}
      BY <2>1, FS_EmptySet
    <3>2. ASSUME NEW x \in T
          PROVE  T \ {x} \in Good
      <4>1. Cardinality(T \ {x}) = n
        BY <1>1, <2>1, FS_RemoveElement
      <4> QED BY <1>3, <4>1
    <3> QED BY <3>1, <3>2
  <2> QED BY <2>1
<1> HIDE DEF Small
<1>4. \A n \in Nat : n \in Small
  BY <1>2, <1>3, NatStepByStep
<1> QED BY <1>1, <1>4 DEF Small

------------------------------------------------------------------------------
(***************************************************************************)
(* Division with remainder.                                                *)
(***************************************************************************)
LEMMA DivMod ==
    ASSUME NEW n \in Nat, NEW d \in Nat \ {0}
    PROVE  /\ n \div d \in Nat
           /\ n % d \in 0..(d - 1)
           /\ n = (d * (n \div d)) + (n % d)
  BY Z3

LEMMA IntDivMod ==
    ASSUME NEW n \in Int, NEW d \in Nat \ {0}
    PROVE  /\ n \div d \in Int
           /\ n % d \in 0..(d - 1)
           /\ n = (d * (n \div d)) + (n % d)
  BY Z3

\* The remainder is unique.
LEMMA ModUnique ==
    ASSUME NEW d \in Nat \ {0}, NEW q \in Int, NEW r \in 0..(d - 1)
    PROVE  ((d * q) + r) % d = r
  BY Z3

LEMMA TimesMore ==
    ASSUME NEW d \in Nat, NEW x \in Int, NEW y \in Int, x <= y
    PROVE  /\ d * x \in Int /\ d * y \in Int /\ d * x <= d * y
           /\ d * (x + 1) = (d * x) + d
  BY Z3

\* The remainder of the next number.
LEMMA ModSucc ==
    ASSUME NEW n \in Nat, NEW d \in Nat \ {0}
    PROVE  ((n % d) + 1) % d = (n + 1) % d
<1> DEFINE q == n \div d
           r == n % d
<1>1. q \in Int /\ r \in 0..(d - 1) /\ n = (d * q) + r
  BY DivMod
<1>2. d * q \in Int /\ d * (q + 1) = (d * q) + d
  BY <1>1, TimesMore
<1> HIDE DEF q, r
<1>3. CASE r + 1 < d
  <2>1. r + 1 \in 0..(d - 1) /\ n + 1 = (d * q) + (r + 1)
    BY <1>1, <1>2, <1>3
  <2>2. (n + 1) % d = r + 1
    BY <1>1, <2>1, ModUnique
  <2>3. r + 1 = (d * 0) + (r + 1)
    BY <1>1
  <2>4. ((d * 0) + (r + 1)) % d = r + 1
    BY <2>1, ModUnique
  <2> QED BY <2>2, <2>3, <2>4 DEF r
<1>4. CASE r + 1 = d
  <2>1. n + 1 = (d * (q + 1)) + 0 /\ q + 1 \in Int /\ 0 \in 0..(d - 1)
    BY <1>1, <1>2, <1>4
  <2>2. (n + 1) % d = 0
    BY <2>1, ModUnique
  <2>3. d = (d * 1) + 0
    OBVIOUS
  <2>4. ((d * 1) + 0) % d = 0
    BY <2>1, ModUnique
  <2> QED BY <1>4, <2>2, <2>3, <2>4 DEF r
<1> QED BY <1>1, <1>3, <1>4

\* Two numbers of the same remainder are a whole divisor apart.
LEMMA ModApart ==
    ASSUME NEW a \in Nat, NEW b \in Nat, NEW d \in Nat \ {0},
           a < b, a % d = b % d
    PROVE  a + d <= b
<1> DEFINE p == a \div d
           q == b \div d
           r == a % d
<1>1. /\ p \in Int /\ q \in Int /\ r \in 0..(d - 1)
      /\ a = (d * p) + r /\ b = (d * q) + r
  BY DivMod
<1> HIDE DEF p, q, r
<1>2. CASE q <= p
  <2>1. d * q \in Int /\ d * p \in Int /\ d * q <= d * p
    BY <1>1, <1>2, TimesMore
  <2> QED BY <1>1, <2>1
<1>3. CASE p + 1 <= q
  <2>1. /\ d * (p + 1) \in Int /\ d * q \in Int /\ d * (p + 1) <= d * q
    BY <1>1, <1>3, TimesMore
  <2>2. d * (p + 1) = (d * p) + d /\ d * p \in Int
    BY <1>1, TimesMore
  <2> QED BY <1>1, <2>1, <2>2
<1> QED BY <1>1, <1>2, <1>3

------------------------------------------------------------------------------
(***************************************************************************)
(* Sequences of elements of any kind.                                      *)
(***************************************************************************)
IsSeq(s) == s \in Seq({s[i] : i \in 1..Len(s)})

LEMMA SeqIsSeq ==
    ASSUME NEW S, NEW s \in Seq(S)
    PROVE  IsSeq(s)
<1> DEFINE T == {s[i] : i \in 1..Len(s)}
<1>1. Len(s) \in Nat /\ s \in [1..Len(s) -> S]
  BY LenProperties
<1>2. s = [i \in 1..Len(s) |-> s[i]]
  BY <1>1
<1>3. s \in [1..Len(s) -> T]
  BY <1>2
<1> HIDE DEF T
<1>4. Seq(T) = UNION {[1..n -> T] : n \in Nat}
  BY SeqDef
<1>5. \E n \in Nat : s \in [1..n -> T]
  BY <1>1, <1>3
<1>6. s \in Seq(T)
  BY <1>4, <1>5
<1> QED BY <1>6 DEF IsSeq, T

\* A function on 1..n is a sequence of length n.
LEMMA FunctionIsSeq ==
    ASSUME NEW n \in Nat, NEW s, s = [i \in 1..n |-> s[i]]
    PROVE  IsSeq(s) /\ Len(s) = n
<1> DEFINE S == {s[i] : i \in 1..n}
<1>1. s \in [1..n -> S] /\ DOMAIN s = 1..n
  OBVIOUS
<1> HIDE DEF S
<1>2. s \in Seq(S)
  BY <1>1, IsASeq
<1>3. Len(s) \in Nat /\ 1..Len(s) = 1..n
  BY <1>1, <1>2, LenProperties
<1>4. Len(s) <= n
  <2>1. SUFFICES ASSUME Len(s) > n
                 PROVE  FALSE
    BY <1>3
  <2>2. Len(s) \in 1..Len(s)
    BY <1>3, <2>1
  <2> QED BY <1>3, <2>1, <2>2
<1>5. n <= Len(s)
  <2>1. SUFFICES ASSUME n > Len(s)
                 PROVE  FALSE
    BY <1>3
  <2>2. n \in 1..n
    BY <1>3, <2>1
  <2> QED BY <1>3, <2>1, <2>2
<1> QED BY <1>2, <1>3, <1>4, <1>5, SeqIsSeq

LEMMA LenIsNat ==
    ASSUME NEW s, IsSeq(s)
    PROVE  Len(s) \in Nat
  BY LenProperties DEF IsSeq

LEMMA EmptyIsSeq == IsSeq(<<>>) /\ Len(<<>>) = 0
<1>1. <<>> \in Seq({})
  BY EmptySeq
<1> QED BY <1>1, SeqIsSeq, EmptySeq

LEMMA AppendFacts ==
    ASSUME NEW s, NEW x, IsSeq(s)
    PROVE  /\ IsSeq(Append(s, x))
           /\ Len(Append(s, x)) = Len(s) + 1
           /\ \A i \in 1..Len(s) : Append(s, x)[i] = s[i]
           /\ Append(s, x)[Len(s) + 1] = x
<1> DEFINE S == {s[i] : i \in 1..Len(s)} \cup {x}
<1>1. s \in Seq(S)
  BY SeqMonotonic DEF IsSeq
<1>2. x \in S
  OBVIOUS
<1> HIDE DEF S
<1>3. /\ Append(s, x) \in Seq(S)
      /\ Len(Append(s, x)) = Len(s) + 1
      /\ \A i \in 1..Len(s) : Append(s, x)[i] = s[i]
      /\ Append(s, x)[Len(s) + 1] = x
  BY <1>1, <1>2, AppendProperties
<1>4. IsSeq(Append(s, x))
  BY <1>3, SeqIsSeq
<1> QED BY <1>3, <1>4

\* What is left of a sequence without its first n elements.
LEMMA DropFacts ==
    ASSUME NEW s, IsSeq(s), NEW n \in 0..Len(s)
    PROVE  /\ IsSeq(SubSeq(s, n + 1, Len(s)))
           /\ Len(SubSeq(s, n + 1, Len(s))) = Len(s) - n
           /\ \A i \in 1..(Len(s) - n) :
                SubSeq(s, n + 1, Len(s))[i] = s[n + i]
<1> DEFINE S == {s[i] : i \in 1..Len(s)}
<1>1. Len(s) \in Nat
  BY LenIsNat
<1>2. \A i \in (n + 1)..Len(s) : s[i] \in S
  BY <1>1
<1> HIDE DEF S
<1>3. n + 1 \in Int /\ Len(s) \in Int
  BY <1>1
<1>4. /\ SubSeq(s, n + 1, Len(s)) \in Seq(S)
      /\ Len(SubSeq(s, n + 1, Len(s)))
           = IF n + 1 <= Len(s) THEN Len(s) - (n + 1) + 1 ELSE 0
      /\ \A i \in 1..(Len(s) - (n + 1) + 1) :
           SubSeq(s, n + 1, Len(s))[i] = s[(n + 1) + i - 1]
  BY <1>2, <1>3, SubSeqProperties
<1>5. IsSeq(SubSeq(s, n + 1, Len(s)))
  BY <1>4, SeqIsSeq
<1>6. Len(SubSeq(s, n + 1, Len(s))) = Len(s) - n
  BY <1>1, <1>4
<1>7. ASSUME NEW i \in 1..(Len(s) - n)
      PROVE  SubSeq(s, n + 1, Len(s))[i] = s[n + i]
  <2>1. i \in 1..(Len(s) - (n + 1) + 1) /\ (n + 1) + i - 1 = n + i
    BY <1>1
  <2> QED BY <1>4, <2>1
<1> QED BY <1>5, <1>6, <1>7

LEMMA PrefixFacts ==
    ASSUME NEW s, IsSeq(s), NEW n \in 0..Len(s)
    PROVE  /\ IsSeq(SubSeq(s, 1, n))
           /\ Len(SubSeq(s, 1, n)) = n
           /\ \A i \in 1..n : SubSeq(s, 1, n)[i] = s[i]
<1> DEFINE S == {s[i] : i \in 1..Len(s)}
<1>1. Len(s) \in Nat /\ s \in Seq(S)
  BY LenIsNat DEF IsSeq
<1> HIDE DEF S
<1>2. /\ SubSeq(s, 1, n) \in Seq(S)
      /\ Len(SubSeq(s, 1, n)) = IF 1 <= n THEN n - 1 + 1 ELSE 0
      /\ \A i \in 1..(n - 1 + 1) : SubSeq(s, 1, n)[i] = s[1 + i - 1]
  <2>1. \A i \in 1..n : i \in 1..Len(s)
    BY <1>1
  <2> QED BY <1>1, <2>1, SubSeqProperties
<1>3. Len(SubSeq(s, 1, n)) = n /\ n - 1 + 1 = n
  BY <1>2
<1>4. \A i \in 1..n : 1 + i - 1 = i
  OBVIOUS
<1>5. IsSeq(SubSeq(s, 1, n))
  BY <1>2, SeqIsSeq
<1> QED BY <1>2, <1>3, <1>4, <1>5

LEMMA TailFacts ==
    ASSUME NEW s, IsSeq(s), s # <<>>
    PROVE  /\ IsSeq(Tail(s))
           /\ Len(s) >= 1 /\ Head(s) = s[1]
           /\ Len(Tail(s)) = Len(s) - 1
           /\ \A i \in 1..(Len(s) - 1) : Tail(s)[i] = s[i + 1]
<1> DEFINE S == {s[i] : i \in 1..Len(s)}
<1>1. s \in Seq(S)
  BY DEF IsSeq
<1> HIDE DEF S
<1>2. Len(s) \in Nat \ {0}
  BY <1>1, EmptySeq
<1>3. IsSeq(Tail(s))
  BY <1>1, HeadTailProperties, SeqIsSeq
<1>4. Len(Tail(s)) = Len(s) - 1
  BY <1>1, HeadTailProperties
<1>5. \A i \in 1..(Len(s) - 1) : Tail(s)[i] = s[i + 1]
  BY <1>1, <1>4, HeadTailProperties
<1>6. Head(s) = s[1]
  BY <1>1
<1> QED BY <1>2, <1>3, <1>4, <1>5, <1>6

------------------------------------------------------------------------------
(***************************************************************************)
(* SumFunctionOnSet.                                                       *)
(***************************************************************************)
Pick(s) == CHOOSE x \in s : TRUE

\* Its recursion over the subsets of S.
SumSteps(fun, S, h) ==
    h = [s \in SUBSET S |-> IF s = {} THEN 0
                            ELSE fun[Pick(s)] + h[s \ {Pick(s)}]]

LEMMA SumIsStepped ==
    ASSUME NEW fun, NEW S
    PROVE  SumFunctionOnSet(fun, S) = (CHOOSE h : SumSteps(fun, S, h))[S]
  BY DEF SumFunctionOnSet, FoldFunctionOnSet, MapThenFoldSet, SumSteps, Pick
LEMMA PickIsMember ==
    ASSUME NEW s, s # {}
    PROVE  Pick(s) \in s
  BY DEF Pick

\* The recursion has a solution: one for the subsets of n elements, for each n.
LEMMA SumStepsExist ==
    ASSUME NEW fun, NEW S, IsFiniteSet(S)
    PROVE  \E h : SumSteps(fun, S, h)
<1> DEFINE D(n) == {s \in SUBSET S : Cardinality(s) <= n}
           Val(h, s) == IF s = {} THEN 0 ELSE fun[Pick(s)] + h[s \ {Pick(s)}]
           Good == {n \in Nat : \E h : h = [s \in D(n) |-> Val(h, s)]}
<1>1. \A s \in SUBSET S : IsFiniteSet(s) /\ Cardinality(s) \in Nat
  BY FS_Subset, FS_CardinalityType
<1>2. 0 \in Good
  <2>1. D(0) = {{}}
    BY <1>1, FS_EmptySet
  <2> DEFINE h == [s \in D(0) |-> 0]
  <2>2. h = [s \in D(0) |-> Val(h, s)]
    BY <2>1
  <2> QED BY <2>2
<1>3. ASSUME NEW n \in Nat, n \in Good
      PROVE  n + 1 \in Good
  <2>1. PICK h : h = [s \in D(n) |-> Val(h, s)]
    BY <1>3
  <2> DEFINE g == [s \in D(n + 1) |-> Val(h, s)]
  <2>2. ASSUME NEW s \in D(n + 1)
        PROVE  Val(h, s) = Val(g, s)
    <3>1. CASE s = {}
      BY <3>1
    <3>2. CASE s # {}
      <4> DEFINE t == s \ {Pick(s)}
      <4>1. Pick(s) \in s
        BY <3>2, PickIsMember
      <4>2. Cardinality(t) = Cardinality(s) - 1 /\ Cardinality(s) \in Nat
        BY <1>1, <4>1, FS_RemoveElement
      <4>3. t \in D(n) /\ t \in D(n + 1)
        BY <4>2
      <4>4. h[t] = Val(h, t)
        BY <2>1, <4>3
      <4>5. g[t] = Val(h, t)
        BY <4>3
      <4>6. h[t] = g[t]
        BY <4>4, <4>5
      <4> QED BY <3>2, <4>6
    <3> QED BY <3>1, <3>2
  <2> HIDE DEF D, Val
  <2>3. g = [s \in D(n + 1) |-> Val(g, s)]
    <3>1. \A s \in D(n + 1) : Val(h, s) = Val(g, s)
      BY <2>2
    <3> HIDE DEF g
    <3>2. [s \in D(n + 1) |-> Val(h, s)] = [s \in D(n + 1) |-> Val(g, s)]
      BY <3>1
    <3> QED BY <3>2 DEF g
  <2>4. \E k : k = [s \in D(n + 1) |-> Val(k, s)]
    BY <2>3
  <2> QED BY <2>4
<1> HIDE DEF Good
<1>4. \A n \in Nat : n \in Good
  BY <1>2, <1>3, NatStepByStep
<1>5. Cardinality(S) \in Nat /\ D(Cardinality(S)) = SUBSET S
  BY <1>1, FS_Subset
<1>6. PICK h : h = [s \in D(Cardinality(S)) |-> Val(h, s)]
  BY <1>4, <1>5 DEF Good
<1>7. SumSteps(fun, S, h)
  BY <1>5, <1>6 DEF SumSteps
<1> QED BY <1>7

\* Two recursions, over subsets of S and of a smaller set, agree on the smaller.
LEMMA SumStepsAgree ==
    ASSUME NEW fun, NEW S, IsFiniteSet(S), NEW R \in SUBSET S,
           NEW h, SumSteps(fun, S, h), NEW g, SumSteps(fun, R, g)
    PROVE  h[R] = g[R]
<1> DEFINE Good == {T \in SUBSET R : h[T] = g[T]}
<1>1. \A s \in SUBSET S :
        h[s] = IF s = {} THEN 0 ELSE fun[Pick(s)] + h[s \ {Pick(s)}]
  BY DEF SumSteps
<1>2. \A s \in SUBSET R :
        g[s] = IF s = {} THEN 0 ELSE fun[Pick(s)] + g[s \ {Pick(s)}]
  BY DEF SumSteps
<1>3. IsFiniteSet(R)
  BY FS_Subset
<1>4. {} \in Good
  BY <1>1, <1>2
<1>5. ASSUME NEW T \in SUBSET R, T # {}, \A x \in T : T \ {x} \in Good
      PROVE  T \in Good
  <2>1. Pick(T) \in T
    BY <1>5, PickIsMember
  <2>2. h[T \ {Pick(T)}] = g[T \ {Pick(T)}]
    BY <1>5, <2>1
  <2>3. h[T] = fun[Pick(T)] + h[T \ {Pick(T)}]
    BY <1>1, <1>5
  <2>4. g[T] = fun[Pick(T)] + g[T \ {Pick(T)}]
    BY <1>2, <1>5
  <2> QED BY <2>2, <2>3, <2>4
<1> HIDE DEF Good
<1>6. \A T \in SUBSET R : T \in Good
  BY <1>3, <1>4, <1>5, SubsetByElements
<1> QED BY <1>6 DEF Good

LEMMA SumEmpty ==
    ASSUME NEW fun
    PROVE  SumFunctionOnSet(fun, {}) = 0
<1> DEFINE h == CHOOSE h : SumSteps(fun, {}, h)
<1>1. SumSteps(fun, {}, h)
  BY FS_EmptySet, SumStepsExist
<1> HIDE DEF h
<1>2. h[{}] = 0
  BY <1>1 DEF SumSteps
<1> QED BY <1>2, SumIsStepped DEF h

LEMMA SumWithoutPicked ==
    ASSUME NEW fun, NEW S, IsFiniteSet(S), S # {}
    PROVE  SumFunctionOnSet(fun, S)
             = fun[Pick(S)] + SumFunctionOnSet(fun, S \ {Pick(S)})
<1> DEFINE R == S \ {Pick(S)}
           h == CHOOSE h : SumSteps(fun, S, h)
           g == CHOOSE g : SumSteps(fun, R, g)
<1>1. IsFiniteSet(R) /\ R \in SUBSET S
  BY FS_Subset
<1>2. SumSteps(fun, S, h)
  BY SumStepsExist
<1>3. SumSteps(fun, R, g)
  BY <1>1, SumStepsExist
<1>4. SumFunctionOnSet(fun, S) = h[S] /\ SumFunctionOnSet(fun, R) = g[R]
  BY SumIsStepped
<1> HIDE DEF h, g, R
<1>5. h[R] = g[R]
  BY <1>1, <1>2, <1>3, SumStepsAgree
<1>6. h[S] = fun[Pick(S)] + h[R]
  BY <1>2 DEF SumSteps, R
<1> QED BY <1>4, <1>5, <1>6 DEF R

LEMMA SumInt ==
    ASSUME NEW fun, NEW S, IsFiniteSet(S), \A s \in S : fun[s] \in Int
    PROVE  SumFunctionOnSet(fun, S) \in Int
<1> DEFINE Good == {T \in SUBSET S : SumFunctionOnSet(fun, T) \in Int}
<1>1. {} \in Good
  BY SumEmpty
<1>2. ASSUME NEW T \in SUBSET S, T # {}, \A x \in T : T \ {x} \in Good
      PROVE  T \in Good
  <2>1. IsFiniteSet(T) /\ Pick(T) \in T
    BY <1>2, FS_Subset, PickIsMember
  <2>2. SumFunctionOnSet(fun, T)
          = fun[Pick(T)] + SumFunctionOnSet(fun, T \ {Pick(T)})
    BY <1>2, <2>1, SumWithoutPicked
  <2>3. SumFunctionOnSet(fun, T \ {Pick(T)}) \in Int /\ fun[Pick(T)] \in Int
    BY <1>2, <2>1
  <2> QED BY <2>2, <2>3
<1> HIDE DEF Good
<1>3. \A T \in SUBSET S : T \in Good
  BY <1>1, <1>2, SubsetByElements
<1> QED BY <1>3 DEF Good

\* Any element can be set apart, whichever the recursion takes first.
LEMMA SumWithout ==
    ASSUME NEW fun, NEW S, IsFiniteSet(S), \A s \in S : fun[s] \in Int,
           NEW x \in S
    PROVE  SumFunctionOnSet(fun, S) = fun[x] + SumFunctionOnSet(fun, S \ {x})
<1> DEFINE Sum(T) == SumFunctionOnSet(fun, T)
           Good == {T \in SUBSET S : \A y \in T : Sum(T) = fun[y] + Sum(T \ {y})}
<1>1. {} \in Good
  OBVIOUS
<1>2. ASSUME NEW T \in SUBSET S, T # {}, \A y \in T : T \ {y} \in Good
      PROVE  T \in Good
  <2>1. ASSUME NEW y \in T
        PROVE  Sum(T) = fun[y] + Sum(T \ {y})
    <3> DEFINE p == Pick(T)
    <3>1. IsFiniteSet(T) /\ p \in T
      BY <1>2, FS_Subset, PickIsMember
    <3>2. Sum(T) = fun[p] + Sum(T \ {p})
      BY <1>2, <3>1, SumWithoutPicked
    <3>3. CASE y = p
      <4>1. Sum(T \ {y}) = Sum(T \ {p}) /\ fun[y] = fun[p]
        BY <3>3
      <4> HIDE DEF p, Sum
      <4> QED BY <3>2, <4>1, Zenon
    <3>4. CASE y # p
      <4> DEFINE R == (T \ {p}) \ {y}
      <4>1. Sum(T \ {p}) = fun[y] + Sum(R)
        BY <1>2, <3>1, <3>4
      <4>2. Sum(T \ {y}) = fun[p] + Sum(R)
        <5>1. Sum(T \ {y}) = fun[p] + Sum((T \ {y}) \ {p})
          BY <1>2, <3>1, <3>4
        <5>2. (T \ {y}) \ {p} = R
          OBVIOUS
        <5> QED BY <5>1, <5>2
      <4>3. Sum(R) \in Int
        <5>1. R \in SUBSET S
          OBVIOUS
        <5> QED BY <5>1, FS_Subset, SumInt
      <4>4. fun[p] \in Int /\ fun[y] \in Int
        BY <3>1
      <4> HIDE DEF Sum, p, R
      <4> QED BY <3>2, <4>1, <4>2, <4>3, <4>4
    <3> QED BY <3>3, <3>4
  <2> QED BY <2>1
<1> HIDE DEF Good
<1>3. \A T \in SUBSET S : T \in Good
  BY <1>1, <1>2, SubsetByElements
<1> QED BY <1>3 DEF Good

\* A subset and what is left.
LEMMA SumSplit ==
    ASSUME NEW fun, NEW S, IsFiniteSet(S), \A s \in S : fun[s] \in Int,
           NEW R \in SUBSET S
    PROVE  SumFunctionOnSet(fun, S)
             = SumFunctionOnSet(fun, R) + SumFunctionOnSet(fun, S \ R)
<1> DEFINE Sum(T) == SumFunctionOnSet(fun, T)
           Good == {T \in SUBSET R : Sum(S) = Sum(T) + Sum(S \ T)}
<1>1. \A T \in SUBSET S : IsFiniteSet(T) /\ Sum(T) \in Int
  BY FS_Subset, SumInt
<1>2. {} \in Good
  <2>1. S \ {} = S /\ S \in SUBSET S
    OBVIOUS
  <2>2. Sum({}) = 0
    BY SumEmpty
  <2> HIDE DEF Sum
  <2>3. Sum(S) \in Int
    BY <1>1
  <2> QED BY <2>1, <2>2, <2>3
<1>3. ASSUME NEW T \in SUBSET R, T # {}, \A x \in T : T \ {x} \in Good
      PROVE  T \in Good
  <2>1. PICK x \in T : TRUE
    BY <1>3
  <2>2. Sum(S) = Sum(T \ {x}) + Sum(S \ (T \ {x}))
    BY <1>3
  <2>3. Sum(T) = fun[x] + Sum(T \ {x})
    BY <1>1, SumWithout
  <2>4. Sum(S \ (T \ {x})) = fun[x] + Sum(S \ T)
    <3>1. (S \ (T \ {x})) \ {x} = S \ T
      OBVIOUS
    <3>2. S \ (T \ {x}) \in SUBSET S /\ x \in S \ (T \ {x})
      OBVIOUS
    <3> QED BY <1>1, <3>1, <3>2, SumWithout
  <2>6. Sum(T \ {x}) \in Int /\ Sum(S \ T) \in Int /\ fun[x] \in Int
    <3>1. T \ {x} \in SUBSET S /\ S \ T \in SUBSET S /\ x \in S
      OBVIOUS
    <3> QED BY <1>1, <3>1
  <2> HIDE DEF Sum
  <2>7. Sum(S) = Sum(T) + Sum(S \ T)
    BY <2>2, <2>3, <2>4, <2>6
  <2> QED BY <2>7
<1>4. IsFiniteSet(R)
  BY FS_Subset
<1> HIDE DEF Good
<1>5. \A T \in SUBSET R : T \in Good
  BY <1>2, <1>3, <1>4, SubsetByElements
<1> QED BY <1>5 DEF Good

\* Only the values at the elements count, under whatever name.
LEMMA SumReindexed ==
    ASSUME NEW fun, NEW S, IsFiniteSet(S), NEW gun, NEW name,
           \A s \in S : gun[s] \in Int,
           \A s \in S : fun[name[s]] = gun[s],
           \A s, t \in S : name[s] = name[t] => s = t,
           NEW R, R = {name[s] : s \in S}
    PROVE  IsFiniteSet(R) /\ SumFunctionOnSet(fun, R) = SumFunctionOnSet(gun, S)
<1> DEFINE Image(T) == {name[s] : s \in T}
           Good == {T \in SUBSET S :
                      /\ IsFiniteSet(Image(T))
                      /\ SumFunctionOnSet(fun, Image(T))
                           = SumFunctionOnSet(gun, T)}
<1>1. {} \in Good
  <2>1. Image({}) = {}
    OBVIOUS
  <2> HIDE DEF Image
  <2> QED BY <2>1, SumEmpty, FS_EmptySet
<1>2. ASSUME NEW T \in SUBSET S, T # {}, \A x \in T : T \ {x} \in Good
      PROVE  T \in Good
  <2>1. PICK x \in T : TRUE
    BY <1>2
  <2>2. Image(T) \ {name[x]} = Image(T \ {x}) /\ name[x] \in Image(T)
    OBVIOUS
  <2>3. /\ IsFiniteSet(Image(T \ {x}))
        /\ SumFunctionOnSet(fun, Image(T \ {x}))
             = SumFunctionOnSet(gun, T \ {x})
    BY <1>2
  <2>4. Image(T) = Image(T \ {x}) \cup {name[x]}
    BY <2>2
  <2>5. \A y \in Image(T) : fun[y] \in Int
    OBVIOUS
  <2>7. IsFiniteSet(T)
    BY FS_Subset
  <2>8. SumFunctionOnSet(gun, T) = gun[x] + SumFunctionOnSet(gun, T \ {x})
    BY <2>7, SumWithout
  <2> HIDE DEF Image
  <2>6. IsFiniteSet(Image(T))
    <3>1. IsFiniteSet(Image(T \ {x}) \cup {name[x]})
      BY <2>3, FS_AddElement
    <3> QED BY <2>4, <3>1
  <2>9. SumFunctionOnSet(fun, Image(T))
          = fun[name[x]] + SumFunctionOnSet(fun, Image(T) \ {name[x]})
    BY <2>2, <2>5, <2>6, SumWithout
  <2>10. SumFunctionOnSet(fun, Image(T)) = SumFunctionOnSet(gun, T)
    BY <2>2, <2>3, <2>8, <2>9
  <2> QED BY <2>6, <2>10
<1> HIDE DEF Good
<1>3. \A T \in SUBSET S : T \in Good
  BY <1>1, <1>2, SubsetByElements
<1> QED BY <1>3 DEF Good

LEMMA SumAgrees ==
    ASSUME NEW fun, NEW S, IsFiniteSet(S), NEW gun,
           \A s \in S : gun[s] \in Int /\ fun[s] = gun[s]
    PROVE  SumFunctionOnSet(fun, S) = SumFunctionOnSet(gun, S)
<1> DEFINE name == [s \in S |-> s]
<1>1. {name[s] : s \in S} = S
  OBVIOUS
<1>2. \A s \in S : fun[name[s]] = gun[s]
  OBVIOUS
<1>3. \A s, t \in S : name[s] = name[t] => s = t
  OBVIOUS
<1> HIDE DEF name
<1> QED BY <1>1, <1>2, <1>3, SumReindexed

LEMMA SumNat ==
    ASSUME NEW fun, NEW S, IsFiniteSet(S), \A s \in S : fun[s] \in Nat
    PROVE  SumFunctionOnSet(fun, S) \in Nat
<1> DEFINE Good == {T \in SUBSET S : SumFunctionOnSet(fun, T) \in Nat}
<1>1. {} \in Good
  BY SumEmpty
<1>2. ASSUME NEW T \in SUBSET S, T # {}, \A x \in T : T \ {x} \in Good
      PROVE  T \in Good
  <2>1. IsFiniteSet(T) /\ Pick(T) \in T
    BY <1>2, FS_Subset, PickIsMember
  <2>2. SumFunctionOnSet(fun, T)
          = fun[Pick(T)] + SumFunctionOnSet(fun, T \ {Pick(T)})
    BY <1>2, <2>1, SumWithoutPicked
  <2>3. SumFunctionOnSet(fun, T \ {Pick(T)}) \in Nat /\ fun[Pick(T)] \in Nat
    BY <1>2, <2>1
  <2> QED BY <2>2, <2>3
<1> HIDE DEF Good
<1>3. \A T \in SUBSET S : T \in Good
  BY <1>1, <1>2, SubsetByElements
<1> QED BY <1>3 DEF Good
------------------------------------------------------------------------------
(***************************************************************************)
(* Concatenation, and sets of integers in increasing order.                *)
(***************************************************************************)
LEMMA SameSeq ==
    ASSUME NEW s, NEW t, IsSeq(s), IsSeq(t), Len(s) = Len(t),
           \A i \in 1..Len(s) : s[i] = t[i]
    PROVE  s = t
<1> DEFINE S == {s[i] : i \in 1..Len(s)}
           T == {t[i] : i \in 1..Len(t)}
<1>1. s \in Seq(S) /\ t \in Seq(T)
  BY DEF IsSeq
<1> HIDE DEF S, T
<1>2. s \in [1..Len(s) -> S] /\ t \in [1..Len(t) -> T]
  BY <1>1, LenProperties
<1> QED BY <1>2

LEMMA ConcatFacts ==
    ASSUME NEW s, NEW t, IsSeq(s), IsSeq(t)
    PROVE  /\ IsSeq(s \o t)
           /\ Len(s \o t) = Len(s) + Len(t)
           /\ \A i \in 1..Len(s) : (s \o t)[i] = s[i]
           /\ \A i \in 1..Len(t) : (s \o t)[Len(s) + i] = t[i]
<1> DEFINE S == {s[i] : i \in 1..Len(s)} \cup {t[i] : i \in 1..Len(t)}
<1>1. s \in Seq(S) /\ t \in Seq(S)
  <2>1. /\ {s[i] : i \in 1..Len(s)} \subseteq S
        /\ {t[i] : i \in 1..Len(t)} \subseteq S
    OBVIOUS
  <2> HIDE DEF S
  <2> QED BY <2>1, SeqMonotonic DEF IsSeq
<1> HIDE DEF S
<1>2. Len(s) \in Nat /\ Len(t) \in Nat
  BY <1>1, LenProperties
<1>3. /\ s \o t \in Seq(S)
      /\ Len(s \o t) = Len(s) + Len(t)
      /\ \A i \in 1..(Len(s) + Len(t)) :
           (s \o t)[i] = IF i <= Len(s) THEN s[i] ELSE t[i - Len(s)]
  BY <1>1, ConcatProperties
<1>4. IsSeq(s \o t)
  BY <1>3, SeqIsSeq
<1>5. \A i \in 1..Len(s) : (s \o t)[i] = s[i]
  BY <1>2, <1>3
<1>6. ASSUME NEW i \in 1..Len(t)
      PROVE  (s \o t)[Len(s) + i] = t[i]
  <2>1. /\ Len(s) + i \in 1..(Len(s) + Len(t)) /\ ~(Len(s) + i <= Len(s))
        /\ (Len(s) + i) - Len(s) = i
    BY <1>2
  <2> QED BY <1>3, <2>1
<1> QED BY <1>3, <1>4, <1>5, <1>6

LEMMA ConcatAssoc ==
    ASSUME NEW s, NEW t, NEW u, IsSeq(s), IsSeq(t), IsSeq(u)
    PROVE  (s \o t) \o u = s \o (t \o u)
<1> DEFINE A == {s[i] : i \in 1..Len(s)}
           B == {t[i] : i \in 1..Len(t)}
           C == {u[i] : i \in 1..Len(u)}
           S == A \cup B \cup C
<1>1. s \in Seq(A) /\ t \in Seq(B) /\ u \in Seq(C)
  BY DEF IsSeq
<1>2. A \subseteq S /\ B \subseteq S /\ C \subseteq S
  OBVIOUS
<1> HIDE DEF A, B, C, S
<1>3. s \in Seq(S) /\ t \in Seq(S) /\ u \in Seq(S)
  BY <1>1, <1>2, SeqMonotonic
<1> QED BY <1>3, ConcatAssociative

LEMMA ConcatEmpty ==
    ASSUME NEW s, IsSeq(s)
    PROVE  s \o <<>> = s
  BY ConcatEmptySeq DEF IsSeq

LEMMA AppendAsConcat ==
    ASSUME NEW s, NEW x, IsSeq(s)
    PROVE  s \o <<x>> = Append(s, x)
<1> DEFINE t == <<x>>
<1>1. IsSeq(t) /\ Len(t) = 1 /\ t[1] = x
  <2>1. t \in Seq({x})
    OBVIOUS
  <2> QED BY <2>1, SeqIsSeq
<1>2. Len(s) \in Nat
  BY LenIsNat
<1> HIDE DEF t
<1>3. /\ IsSeq(s \o t) /\ Len(s \o t) = Len(s) + Len(t)
      /\ \A i \in 1..Len(s) : (s \o t)[i] = s[i]
      /\ \A i \in 1..Len(t) : (s \o t)[Len(s) + i] = t[i]
  BY <1>1, ConcatFacts
<1>4. /\ IsSeq(Append(s, x)) /\ Len(Append(s, x)) = Len(s) + 1
      /\ \A i \in 1..Len(s) : Append(s, x)[i] = s[i]
      /\ Append(s, x)[Len(s) + 1] = x
  BY AppendFacts
<1>5. (s \o t)[Len(s) + 1] = x /\ Len(s \o t) = Len(s) + 1
  BY <1>1, <1>2, <1>3
<1>6. ASSUME NEW i \in 1..Len(s \o t)
      PROVE  (s \o t)[i] = Append(s, x)[i]
  <2>1. i \in 1..Len(s) \/ i = Len(s) + 1
    BY <1>2, <1>5
  <2> QED BY <1>3, <1>4, <1>5, <2>1
<1>7. s \o t = Append(s, x)
  BY <1>3, <1>4, <1>5, <1>6, SameSeq
<1> QED BY <1>7 DEF t

LEMMA AppendConcat ==
    ASSUME NEW s, NEW t, NEW x, IsSeq(s), IsSeq(t)
    PROVE  Append(s \o t, x) = s \o Append(t, x)
<1> DEFINE u == <<x>>
<1>1. IsSeq(u)
  <2>1. u \in Seq({x})
    OBVIOUS
  <2> QED BY <2>1, SeqIsSeq
<1>2. IsSeq(s \o t)
  BY ConcatFacts
<1>3. (s \o t) \o u = Append(s \o t, x)
  BY <1>2, AppendAsConcat
<1>4. t \o u = Append(t, x)
  BY AppendAsConcat
<1> HIDE DEF u
<1>5. (s \o t) \o u = s \o (t \o u)
  BY <1>1, ConcatAssoc
<1> QED BY <1>3, <1>4, <1>5

\* Taking the head of a queue and putting it behind a log leaves the two
\* together as they were.
LEMMA HeadMoves ==
    ASSUME NEW s, NEW t, IsSeq(s), IsSeq(t), t # <<>>
    PROVE  Append(s, Head(t)) \o Tail(t) = s \o t
<1> DEFINE u == Append(s, Head(t))
           v == Tail(t)
<1>1. /\ IsSeq(u) /\ Len(u) = Len(s) + 1
      /\ \A i \in 1..Len(s) : u[i] = s[i]
      /\ u[Len(s) + 1] = Head(t)
  BY AppendFacts
<1>2. /\ IsSeq(v) /\ Len(t) >= 1 /\ Head(t) = t[1] /\ Len(v) = Len(t) - 1
      /\ \A i \in 1..(Len(t) - 1) : v[i] = t[i + 1]
  BY TailFacts
<1>3. Len(s) \in Nat /\ Len(t) \in Nat
  BY LenIsNat
<1> HIDE DEF u, v
<1>4. /\ IsSeq(u \o v) /\ Len(u \o v) = Len(u) + Len(v)
      /\ \A i \in 1..Len(u) : (u \o v)[i] = u[i]
      /\ \A i \in 1..Len(v) : (u \o v)[Len(u) + i] = v[i]
  <2>1. IsSeq(u) /\ IsSeq(v)
    BY <1>1, <1>2
  <2> QED BY ONLY <2>1, ConcatFacts
<1>5. /\ IsSeq(s \o t) /\ Len(s \o t) = Len(s) + Len(t)
      /\ \A i \in 1..Len(s) : (s \o t)[i] = s[i]
      /\ \A i \in 1..Len(t) : (s \o t)[Len(s) + i] = t[i]
  BY ConcatFacts
<1>6. Len(u \o v) = Len(s \o t)
  BY <1>1, <1>2, <1>3, <1>4, <1>5
<1>7. ASSUME NEW i \in 1..Len(u \o v)
      PROVE  (u \o v)[i] = (s \o t)[i]
  <2>1. CASE i <= Len(s)
    <3>1. i \in 1..Len(s) /\ i \in 1..Len(u)
      BY <1>1, <1>3, <2>1
    <3> QED BY <1>1, <1>4, <1>5, <3>1
  <2>2. CASE i = Len(s) + 1
    <3>1. i \in 1..Len(u) /\ 1 \in 1..Len(t)
      BY <1>1, <1>2, <1>3, <2>2
    <3> QED BY <1>1, <1>2, <1>4, <1>5, <2>2, <3>1
  <2>3. CASE i > Len(s) + 1
    <3> DEFINE j == i - (Len(s) + 1)
    <3>1. /\ j \in 1..Len(v) /\ j + 1 \in 1..Len(t) /\ j \in 1..(Len(t) - 1)
          /\ i = Len(u) + j /\ i = Len(s) + (j + 1)
      BY <1>1, <1>2, <1>3, <1>4, <2>3
    <3> HIDE DEF j
    <3>2. (u \o v)[i] = v[j]
      BY <1>4, <3>1
    <3>3. v[j] = t[j + 1]
      BY <1>2, <3>1
    <3>4. (s \o t)[i] = t[j + 1]
      BY <1>5, <3>1
    <3> QED BY <3>2, <3>3, <3>4
  <2>4. i <= Len(s) \/ i = Len(s) + 1 \/ i > Len(s) + 1
    <3>1. Len(s) \in Int /\ i \in Int
      BY <1>3
    <3> QED BY ONLY <3>1
  <2> QED BY <2>1, <2>2, <2>3, <2>4
<1> QED BY <1>4, <1>5, <1>6, <1>7, SameSeq

LEMMA GreatestOfSet ==
    ASSUME NEW S \in SUBSET Int, IsFiniteSet(S), S # {}
    PROVE  \E m \in S : \A x \in S : x <= m
<1> DEFINE Good == {T \in SUBSET S : T # {} => \E m \in T : \A x \in T : x <= m}
<1>1. {} \in Good
  OBVIOUS
<1>2. ASSUME NEW T \in SUBSET S, T # {}, \A x \in T : T \ {x} \in Good
      PROVE  T \in Good
  <2>1. PICK y \in T : TRUE
    BY <1>2
  <2>2. CASE T \ {y} = {}
    BY <2>1, <2>2
  <2>3. CASE T \ {y} # {}
    <3>1. PICK m \in T \ {y} : \A x \in T \ {y} : x <= m
      BY <1>2, <2>1, <2>3
    <3>2. CASE y <= m
      BY <3>1, <3>2
    <3>3. CASE ~(y <= m)
      BY <3>1, <3>3, <2>1
    <3> QED BY <3>2, <3>3
  <2> QED BY <2>2, <2>3
<1> HIDE DEF Good
<1>3. \A T \in SUBSET S : T \in Good
  BY <1>1, <1>2, SubsetByElements
<1> QED BY <1>3 DEF Good

\* Any finite set of integers can be listed in increasing order.
LEMMA IncreasingExists ==
    ASSUME NEW S \in SUBSET Int, IsFiniteSet(S)
    PROVE  /\ Cardinality(S) \in Nat
           /\ \E s \in [1..Cardinality(S) -> S] :
                \A i, j \in 1..Cardinality(S) : i < j => s[i] < s[j]
<1> DEFINE Up(s, n) == \A i, j \in 1..n : i < j => s[i] < s[j]
           Good == {n \in Nat : \A T \in SUBSET Int :
                      IsFiniteSet(T) /\ Cardinality(T) = n
                        => \E s \in [1..n -> T] : Up(s, n)}
<1>1. 0 \in Good
  <2>1. ASSUME NEW T \in SUBSET Int
        PROVE  \E s \in [1..0 -> T] : Up(s, 0)
    <3>1. [i \in 1..0 |-> 0] \in [1..0 -> T]
      OBVIOUS
    <3>2. \A s : Up(s, 0)
      OBVIOUS
    <3> HIDE DEF Up
    <3> QED BY <3>1, <3>2
  <2> QED BY <2>1
<1>2. ASSUME NEW n \in Nat, n \in Good
      PROVE  n + 1 \in Good
  <2> SUFFICES ASSUME NEW T \in SUBSET Int, IsFiniteSet(T),
                      Cardinality(T) = n + 1
               PROVE  \E s \in [1..(n + 1) -> T] : Up(s, n + 1)
    OBVIOUS
  <2>1. T # {}
    BY FS_EmptySet
  <2>2. PICK m \in T : \A x \in T : x <= m
    BY <2>1, GreatestOfSet
  <2>3. IsFiniteSet(T \ {m}) /\ Cardinality(T \ {m}) = n
    BY FS_RemoveElement
  <2>4. PICK s \in [1..n -> T \ {m}] : Up(s, n)
    BY <1>2, <2>3
  <2> DEFINE t == [i \in 1..(n + 1) |-> IF i = n + 1 THEN m ELSE s[i]]
  <2>5. \A i \in 1..n : s[i] \in T /\ s[i] \in Int /\ s[i] < m
    <3> SUFFICES ASSUME NEW i \in 1..n
                 PROVE  s[i] \in T /\ s[i] \in Int /\ s[i] < m
      OBVIOUS
    <3>1. s[i] \in T \ {m}
      OBVIOUS
    <3>2. s[i] \in Int /\ m \in Int /\ s[i] <= m /\ s[i] # m
      BY <2>2, <3>1
    <3> QED BY <3>1, <3>2
  <2>6. t \in [1..(n + 1) -> T]
    BY <2>5
  <2>7. /\ t[n + 1] = m
        /\ \A i \in 1..n : t[i] = s[i]
    OBVIOUS
  <2> HIDE DEF t
  <2>8. Up(t, n + 1)
    <3> SUFFICES ASSUME NEW i \in 1..(n + 1), NEW j \in 1..(n + 1), i < j
                 PROVE  t[i] < t[j]
      OBVIOUS
    <3>1. i \in 1..n
      OBVIOUS
    <3>2. CASE j = n + 1
      BY <2>5, <2>7, <3>1, <3>2
    <3>3. CASE j # n + 1
      <4>1. j \in 1..n
        BY <3>3
      <4> QED BY <2>4, <2>7, <3>1, <4>1
    <3> QED BY <3>2, <3>3
  <2> QED BY <2>6, <2>8
<1> HIDE DEF Good
<1>3. \A n \in Nat : n \in Good
  BY <1>1, <1>2, NatStepByStep
<1>4. Cardinality(S) \in Nat
  BY FS_CardinalityType
<1>5. Cardinality(S) \in Good
  BY <1>3, <1>4
<1> QED BY <1>4, <1>5 DEF Good
==============================================================================
