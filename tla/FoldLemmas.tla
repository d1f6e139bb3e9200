------------------------------ MODULE FoldLemmas ------------------------------
(***************************************************************************)
(* What the folds of the community modules compute, by induction over the  *)
(* subsets of a finite set: that the recursive function they are defined   *)
(* by exists, the sums and the left folds that the models take of it.      *)
(***************************************************************************)
EXTENDS Sorted, Integers, SequencesExt, FiniteSetTheorems, SequenceTheorems,
        WellFoundedInduction, TLAPS

-----------------------------------------------------------------------------
(* Induction.                                                              *)

\* What holds of a set when it holds of all its proper subsets holds of the
\* subsets of a finite set.
LEMMA SubsetInduction ==
  ASSUME NEW S, IsFiniteSet(S), NEW P,
         \A s \in SUBSET S : (\A u \in SUBSET s : u # s => u \in P) => s \in P
  PROVE  \A s \in SUBSET S : s \in P
<1> SUFFICES ASSUME NEW s0 \in SUBSET S, s0 \notin P PROVE FALSE
  OBVIOUS
<1> DEFINE T == {s \in SUBSET S : s \notin P}
           R == StrictSubsetOrdering(S)
<1>1. IsWellFoundedOn(R, SUBSET S)
  <2>1. FiniteSubsetsOf(S) = SUBSET S
    BY FS_FiniteSubsetsOfFinite
  <2>2. IsWellFoundedOn(R, FiniteSubsetsOf(S))
    BY FS_StrictSubsetOrderingWellFounded
  <2> HIDE DEF R
  <2> QED BY <2>1, <2>2
<1>2. T \subseteq SUBSET S /\ T # {}
  OBVIOUS
<1>3. \A u, s \in SUBSET S : u \subseteq s /\ u # s => <<u, s>> \in R
  BY DEF StrictSubsetOrdering
<1> HIDE DEF T, R
<1>4. PICK s \in T : \A u \in T : ~(<<u, s>> \in R)
  BY <1>1, <1>2, WFMin
<1>5. s \in SUBSET S /\ s \notin P
  BY <1>4 DEF T
<1>6. ASSUME NEW u \in SUBSET s, u # s PROVE u \in P
  <2>1. u \in SUBSET S /\ <<u, s>> \in R
    BY <1>3, <1>5, <1>6
  <2>2. u \notin T
    BY <1>4, <2>1
  <2> QED BY <2>1, <2>2 DEF T
<1> QED BY <1>5, <1>6

-----------------------------------------------------------------------------
(* Folds.                                                                  *)

\* g folds a set by taking pick's element of it first, then step of that element
\* and of what the others fold to.
IsFold(g, S, base, pick, step) ==
  \A s \in SUBSET S :
    g[s] = IF s = {} THEN base ELSE step[<<pick[s], g[s \ {pick[s]}]>>]

\* Two folds that pick alike agree wherever both are defined.
LEMMA FoldUnique ==
  ASSUME NEW S, IsFiniteSet(S), NEW base, NEW pick, NEW step,
         \A s \in SUBSET S : s # {} => pick[s] \in s,
         NEW g, IsFold(g, S, base, pick, step), NEW h, IsFold(h, S, base, pick, step)
  PROVE  \A s \in SUBSET S : g[s] = h[s]
<1> DEFINE P == {s \in SUBSET S : g[s] = h[s]}
<1>1. ASSUME NEW s \in SUBSET S, \A u \in SUBSET s : u # s => u \in P PROVE s \in P
  <2>1. CASE s = {}
    BY <2>1 DEF IsFold
  <2>2. CASE s # {}
    <3>1. s \ {pick[s]} \in SUBSET s /\ s \ {pick[s]} # s
      BY <2>2
    <3>2. g[s \ {pick[s]}] = h[s \ {pick[s]}]
      BY <1>1, <3>1
    <3> QED BY <2>2, <3>2 DEF IsFold
  <2> QED BY <2>1, <2>2
<1> HIDE DEF P
<1>2. \A s \in SUBSET S : s \in P
  BY <1>1, SubsetInduction
<1> QED BY <1>2 DEF P

\* There is a fold.
LEMMA FoldExists ==
  ASSUME NEW S, IsFiniteSet(S), NEW V, NEW base \in V, NEW pick, NEW step \in [S \X V -> V],
         \A s \in SUBSET S : s # {} => pick[s] \in s
  PROVE  \E g \in [SUBSET S -> V] : IsFold(g, S, base, pick, step)
<1> DEFINE Fold(s) == CHOOSE g \in [SUBSET s -> V] : IsFold(g, s, base, pick, step)
           P == {s \in SUBSET S : \E g \in [SUBSET s -> V] : IsFold(g, s, base, pick, step)}
<1>1. ASSUME NEW s \in SUBSET S, \A u \in SUBSET s : u # s => u \in P PROVE s \in P
  <2> DEFINE Of(u) == IF u = {} THEN base ELSE step[<<pick[u], Fold(u \ {pick[u]})[u \ {pick[u]}]>>]
             h == [u \in SUBSET s |-> Of(u)]
  <2>1. ASSUME NEW u \in SUBSET s, u # s
        PROVE  Fold(u) \in [SUBSET u -> V] /\ IsFold(Fold(u), u, base, pick, step)
    BY <1>1, <2>1
  <2> HIDE DEF Fold, P
  <2>2. ASSUME NEW u \in SUBSET s, u # {}
        PROVE  u \ {pick[u]} \in SUBSET s /\ u \ {pick[u]} # s /\ pick[u] \in S
    BY <2>2
  <2>3. ASSUME NEW u \in SUBSET s PROVE Of(u) \in V
    <3>1. CASE u = {}
      BY <3>1
    <3>2. CASE u # {}
      <4> DEFINE w == u \ {pick[u]}
      <4>1. Fold(w) \in [SUBSET w -> V] /\ w \in SUBSET w
        BY <2>1, <2>2, <3>2
      <4>2. Fold(w)[w] \in V
        <5> HIDE DEF w
        <5> QED BY <4>1
      <4> QED BY <2>2, <3>2, <4>2
    <3> QED BY <3>1, <3>2
  <2>4. ASSUME NEW u \in SUBSET s, u # s PROVE Fold(u)[u] = Of(u)
    <3>1. CASE u = {}
      BY <2>1, <2>4, <3>1 DEF IsFold
    <3>2. CASE u # {}
      <4> DEFINE w == u \ {pick[u]}
      <4>1. w \in SUBSET s /\ w # s /\ w \in SUBSET u /\ IsFiniteSet(w)
        BY <2>2, <3>2, FS_Subset
      <4>2. Fold(u)[u] = step[<<pick[u], Fold(u)[w]>>]
        BY <2>1, <2>4, <3>2 DEF IsFold
      <4>3. IsFold(Fold(u), w, base, pick, step) /\ IsFold(Fold(w), w, base, pick, step)
        <5>1. IsFold(Fold(u), u, base, pick, step)
          BY <2>1, <2>4
        <5>2. IsFold(Fold(u), w, base, pick, step)
          BY <4>1, <5>1 DEF IsFold
        <5> QED BY <2>1, <4>1, <5>2
      <4>4. Fold(u)[w] = Fold(w)[w]
        <5>1. \A t \in SUBSET w : t # {} => pick[t] \in t
          BY <4>1
        <5>2. \A t \in SUBSET w : Fold(u)[t] = Fold(w)[t]
          BY SMTT(30), <4>1, <4>3, <5>1, FoldUnique
        <5> QED BY <5>2
      <4> QED BY <3>2, <4>2, <4>4
    <3> QED BY <3>1, <3>2
  <2>5. h \in [SUBSET s -> V] /\ \A u \in SUBSET s : h[u] = Of(u)
    BY <2>3
  <2> HIDE DEF h
  <2>6. IsFold(h, s, base, pick, step)
    <3> SUFFICES ASSUME NEW u \in SUBSET s
                 PROVE  h[u] = IF u = {} THEN base ELSE step[<<pick[u], h[u \ {pick[u]}]>>]
      BY DEF IsFold
    <3>1. CASE u = {}
      BY <2>5, <3>1
    <3>2. CASE u # {}
      <4> DEFINE w == u \ {pick[u]}
      <4>1. h[w] = Fold(w)[w]
        BY <2>2, <2>4, <2>5, <3>2
      <4> QED BY <2>5, <3>2, <4>1
    <3> QED BY <3>1, <3>2
  <2> QED BY <2>5, <2>6 DEF P
<1> HIDE DEF P
<1>2. \A s \in SUBSET S : s \in P
  BY <1>1, SubsetInduction
<1> QED BY <1>2 DEF P

-----------------------------------------------------------------------------
(* Folds of sequences.                                                     *)

\* What holds of 0, and of each number up to n when it holds of the one before,
\* holds of them all.
LEMMA IntervalInduction ==
  ASSUME NEW n \in Nat, NEW P, 0 \in P, \A i \in 1..n : i - 1 \in P => i \in P
  PROVE  \A i \in 0..n : i \in P
<1> DEFINE Q == {s \in SUBSET (1..n) : \A i \in 0..n : s = 1..i => i \in P}
<1>1. ASSUME NEW s \in SUBSET (1..n), \A u \in SUBSET s : u # s => u \in Q PROVE s \in Q
  <2> SUFFICES ASSUME NEW i \in 0..n, s = 1..i, i # 0 PROVE i \in P
    OBVIOUS
  <2>1. 1..(i - 1) \in SUBSET s /\ 1..(i - 1) # s /\ i - 1 \in 0..n /\ i \in 1..n
    <3>1. i \in 1..i /\ i \notin 1..(i - 1)
      OBVIOUS
    <3> QED BY <3>1
  <2>2. 1..(i - 1) \in Q
    BY <1>1, <2>1
  <2>3. i - 1 \in P
    BY <2>1, <2>2
  <2> QED BY <2>1, <2>3
<1> HIDE DEF Q
<1>2. IsFiniteSet(1..n)
  BY FS_Interval
<1>3. \A s \in SUBSET (1..n) : s \in Q
  BY <1>1, <1>2, SubsetInduction
<1>4. ASSUME NEW i \in 0..n PROVE i \in P
  <2>1. 1..i \in SUBSET (1..n)
    OBVIOUS
  <2>2. 1..i \in Q
    BY <1>3, <2>1
  <2> QED BY <2>2 DEF Q
<1> QED BY <1>4

\* A set of numbers up to n has a largest one; of all of them it is n.
LEMMA MaxFacts ==
  ASSUME NEW n \in Nat
  PROVE  /\ \A s \in SUBSET (1..n) : s # {} => Max(s) \in s
         /\ n # 0 => Max(1..n) = n
<1>1. ASSUME NEW s \in SUBSET (1..n), s # {} PROVE Max(s) \in s
  <2>1. ASSUME \A x \in s : \E y \in s : y > x PROVE FALSE
    <3> DEFINE P == {i \in 0..n : \E y \in s : y > i}
    <3>1. 0 \in P
      <4>1. PICK x \in s : TRUE
        BY <1>1
      <4>2. x > 0
        OBVIOUS
      <4> QED BY <4>1, <4>2
    <3>2. ASSUME NEW i \in 1..n, i - 1 \in P PROVE i \in P
      <4>1. PICK y \in s : y > i - 1
        BY <3>2
      <4>2. PICK z \in s : z > y
        BY <2>1
      <4>3. y \in Nat /\ z \in Nat
        OBVIOUS
      <4> QED BY <4>1, <4>2, <4>3
    <3> HIDE DEF P
    <3>3. n \in P
      <4>1. \A i \in 0..n : i \in P
        BY <3>1, <3>2, IntervalInduction
      <4> QED BY <4>1
    <3> QED BY <3>3 DEF P
  <2>2. PICK x \in s : \A y \in s : ~(y > x)
    BY <2>1
  <2>3. \A y \in s : x >= y
    BY <2>2
  <2> QED BY <2>3 DEF Max
<1>2. ASSUME n # 0 PROVE Max(1..n) = n
  <2>1. n \in 1..n /\ \A y \in 1..n : n >= y
    BY <1>2
  <2>2. \A x \in 1..n : (\A y \in 1..n : x >= y) => x = n
    BY <2>1
  <2> QED BY <2>1, <2>2 DEF Max
<1> QED BY <1>1, <1>2

(* FoldLeft is MapThenFoldSet's recursive function over the indices, which *)
(* takes the largest first.  h is that function for a typed step; h[1..i]  *)
(* folds the first i elements.                                             *)
IsFoldLeft(h, V, base, S, step, s) ==
  /\ base \in V /\ s \in Seq(S) /\ step \in [V \X S -> V] /\ h \in [SUBSET (1..Len(s)) -> V]
  /\ \A u \in SUBSET (1..Len(s)) :
       h[u] = IF u = {} THEN base ELSE step[<<h[u \ {Max(u)}], s[Max(u)]>>]
  /\ \A i \in 1..Len(s) : h[1..i] = step[<<h[1..(i - 1)], s[i]>>]

\* There is such a function.
LEMMA FoldLeftExists ==
  ASSUME NEW V, NEW base \in V, NEW S, NEW s \in Seq(S), NEW step \in [V \X S -> V]
  PROVE  \E h : IsFoldLeft(h, V, base, S, step, s)
<1> DEFINE n == Len(s)
           D == 1..n
           pick == [u \in SUBSET D |-> Max(u)]
           next == [p \in D \X V |-> step[<<p[2], s[p[1]]>>]]
<1>1. n \in Nat /\ IsFiniteSet(D) /\ \A i \in D : s[i] \in S
  BY FS_Interval
<1>2. \A u \in SUBSET D : u # {} => pick[u] \in u /\ pick[u] = Max(u)
  BY <1>1, MaxFacts
<1>3. \A i \in D, v \in V : next[<<i, v>>] = step[<<v, s[i]>>] /\ next[<<i, v>>] \in V
  BY <1>1
<1>4. next \in [D \X V -> V]
  BY <1>1
<1> HIDE DEF pick, next, D, n
<1>5. PICK h \in [SUBSET D -> V] : IsFold(h, D, base, pick, next)
  BY <1>1, <1>2, <1>4, FoldExists
<1>6. ASSUME NEW u \in SUBSET D
      PROVE  h[u] = IF u = {} THEN base ELSE step[<<h[u \ {Max(u)}], s[Max(u)]>>]
  <2>1. h[u] = IF u = {} THEN base ELSE next[<<pick[u], h[u \ {pick[u]}]>>]
    BY <1>5 DEF IsFold
  <2>2. u # {} => pick[u] = Max(u) /\ Max(u) \in D /\ h[u \ {Max(u)}] \in V
    BY <1>2, <1>5
  <2> QED BY <1>3, <2>1, <2>2
<1>7. ASSUME NEW i \in 1..n PROVE h[1..i] = step[<<h[1..(i - 1)], s[i]>>]
  <2>1. i \in Nat /\ i # 0 /\ 1..i # {} /\ (1..i) \ {i} = 1..(i - 1)
    <3>1. i \in Nat /\ i # 0 /\ i \in 1..i
      BY <1>1
    <3>2. \A k : k \in (1..i) \ {i} <=> k \in 1..(i - 1)
      BY <3>1
    <3>3. (1..i) \ {i} = 1..(i - 1)
      BY <3>2
    <3> QED BY <3>1, <3>3
  <2>2. 1..i \in SUBSET D
    BY <1>1 DEF D
  <2>3. Max(1..i) = i
    BY <2>1, MaxFacts
  <2> QED BY <1>6, <2>1, <2>2, <2>3
<1>8. IsFoldLeft(h, V, base, S, step, s)
  BY <1>5, <1>6, <1>7 DEF IsFoldLeft, D, n
<1> QED BY <1>8

\* iter takes the steps of a fold wherever they are defined.
Follows(iter, V, base, step, s) ==
  \A u \in SUBSET (1..Len(s)) :
    /\ u = {} => iter[u] = base
    /\ u # {} /\ iter[u \ {Max(u)}] \in V =>
         iter[u] = step[<<iter[u \ {Max(u)}], s[Max(u)]>>]

\* A recursive function that does folds like it.
LEMMA FoldLeftUnique ==
  ASSUME NEW V, NEW base, NEW S, NEW s, NEW step,
         NEW h, IsFoldLeft(h, V, base, S, step, s), NEW iter, Follows(iter, V, base, step, s)
  PROVE  iter[1..Len(s)] = h[1..Len(s)]
<1> DEFINE n == Len(s)
           P == {u \in SUBSET (1..n) : iter[u] = h[u]}
<1>0. n \in Nat /\ s \in Seq(S) /\ h \in [SUBSET (1..n) -> V]
  BY DEF IsFoldLeft
<1>1. ASSUME NEW u \in SUBSET (1..n), \A w \in SUBSET u : w # u => w \in P PROVE u \in P
  <2>1. CASE u = {}
    BY <2>1 DEF IsFoldLeft, Follows
  <2>2. CASE u # {}
    <3> DEFINE w == u \ {Max(u)}
    <3>1. Max(u) \in u
      BY <1>0, <2>2, MaxFacts
    <3>2. w \in SUBSET u /\ w # u /\ w \in SUBSET (1..n)
      BY <3>1
    <3>3. iter[w] = h[w] /\ h[w] \in V
      BY <1>0, <1>1, <3>2
    <3>4. iter[u] = step[<<iter[w], s[Max(u)]>>]
      BY <2>2, <3>3 DEF Follows
    <3>5. h[u] = step[<<h[w], s[Max(u)]>>]
      BY <2>2 DEF IsFoldLeft
    <3> QED BY <3>3, <3>4, <3>5
  <2> QED BY <2>1, <2>2
<1> HIDE DEF P, n
<1>2. IsFiniteSet(1..n)
  BY <1>0, FS_Interval
<1> DEFINE D == 1..n
<1>a. \A u \in SUBSET D : (\A w \in SUBSET u : w # u => w \in P) => u \in P
  BY <1>1
<1>b. IsFiniteSet(D)
  BY <1>2
<1> HIDE DEF D
<1>3. \A u \in SUBSET D : u \in P
  BY <1>a, <1>b, SubsetInduction
<1>4. 1..n \in SUBSET (1..n)
  OBVIOUS
<1>5. 1..n \in P
  BY <1>3, <1>4 DEF D
<1> QED BY <1>5 DEF P, n

\* The fold step by step.
LEMMA FoldLeftChain ==
  ASSUME NEW h, NEW V, NEW base, NEW S, NEW step, NEW s, IsFoldLeft(h, V, base, S, step, s)
  PROVE  \E g \in [0..Len(s) -> V] :
           /\ g[0] = base /\ \A i \in 1..Len(s) : g[i] = step[<<g[i - 1], s[i]>>]
           /\ g[Len(s)] = h[1..Len(s)]
<1> DEFINE n == Len(s)
           D == 1..n
           g == [i \in 0..n |-> h[1..i]]
<1>a. s \in Seq(S) /\ h \in [SUBSET D -> V]
  BY DEF IsFoldLeft
<1>b. n \in Nat
  BY <1>a
<1>c. \A u \in SUBSET D : h[u] = IF u = {} THEN base ELSE step[<<h[u \ {Max(u)}], s[Max(u)]>>]
  BY DEF IsFoldLeft
<1>d. \A i \in D : h[1..i] = step[<<h[1..(i - 1)], s[i]>>]
  BY DEF IsFoldLeft
<1>e. h[{}] = base
  <2> HIDE DEF D
  <2>1. {} \in SUBSET D
    OBVIOUS
  <2> QED BY <1>c, <2>1
<1>1. n \in Nat /\ h \in [SUBSET D -> V] /\ h[{}] = base
      /\ \A i \in D : h[1..i] = step[<<h[1..(i - 1)], s[i]>>]
  BY <1>a, <1>b, <1>d, <1>e
<1>2. \A i \in 0..n : 1..i \in SUBSET D
  BY <1>1
<1>3. g \in [0..n -> V] /\ \A i \in 0..n : g[i] = h[1..i]
  BY <1>1, <1>2
<1>4. 1..0 = {} /\ 0 \in 0..n /\ n \in 0..n /\ \A i \in D : i \in 0..n /\ i - 1 \in 0..n
  BY <1>1
<1> HIDE DEF g, n
<1>5. g[0] = base /\ (\A i \in D : g[i] = step[<<g[i - 1], s[i]>>]) /\ g[n] = h[D]
  BY <1>1, <1>3, <1>4
<1> QED BY <1>3, <1>5 DEF n

\* A finite set as a sequence.
LEMMA SetToSeqFacts ==
  ASSUME NEW S, IsFiniteSet(S)
  PROVE  /\ SetToSeq(S) \in [1..Cardinality(S) -> S] /\ Cardinality(S) \in Nat
         /\ \A x \in S : \E i \in 1..Cardinality(S) : SetToSeq(S)[i] = x
<1> DEFINE n == Cardinality(S)
           f == SetToSeq(S)
<1>1. n \in Nat /\ ExistsBijection(1..n, S)
  BY FS_CardinalityType
<1>2. \E g \in [1..n -> S] : IsInjective(g)
  BY <1>1 DEF ExistsBijection, Bijection, Injection, IsInjective
<1>3. f \in [1..n -> S] /\ IsInjective(f)
  BY <1>2 DEF SetToSeq
<1>4. Cardinality(1..n) = n
  BY <1>1, FS_Interval
<1> HIDE DEF f, n
<1>5. f \in Injection(1..n, S)
  BY <1>3 DEF Injection, IsInjective
<1>6. f \in Surjection(1..n, S)
  BY <1>4, <1>5, FS_Injection DEF n
<1>7. \A x \in S : \E i \in 1..n : f[i] = x
  BY <1>6 DEF Surjection
<1> QED BY <1>1, <1>3, <1>7 DEF f, n

\* InOrder lists the numbers of a finite set.
LEMMA InOrderFacts ==
  ASSUME NEW S, S \subseteq Nat, IsFiniteSet(S)
  PROVE  /\ InOrder(S) \in Seq(S) /\ Len(InOrder(S)) = Cardinality(S)
         /\ \A i \in 1..Cardinality(S) : Cardinality({m \in S : m <= InOrder(S)[i]}) = i
<1> DEFINE upto(n) == {m \in S : m <= n}
           rank == [n \in S |-> Cardinality(upto(n))]
           last == Cardinality(S)
<1>1. last \in Nat /\ IsFiniteSet(1..last) /\ Cardinality(1..last) = last
  BY FS_CardinalityType, FS_Interval
<1>2. \A n \in S : upto(n) \subseteq S /\ n \in upto(n) /\ IsFiniteSet(upto(n))
                   /\ Cardinality(upto(n)) \in 1..last
  <2>1. TAKE n \in S
  <2>2. upto(n) \subseteq S /\ n \in upto(n)
    BY <2>1
  <2> HIDE DEF upto
  <2>3. IsFiniteSet(upto(n)) /\ Cardinality(upto(n)) <= last
    BY <2>2, FS_Subset
  <2>4. Cardinality(upto(n)) \in Nat /\ Cardinality(upto(n)) # 0
    BY <2>2, <2>3, FS_CardinalityType, FS_EmptySet
  <2> QED BY <1>1, <2>2, <2>3, <2>4
<1>3. \A m, n \in S : m < n => Cardinality(upto(m)) # Cardinality(upto(n))
  <2>1. SUFFICES ASSUME NEW m \in S, NEW n \in S, m < n
                 PROVE  Cardinality(upto(m)) # Cardinality(upto(n))
    OBVIOUS
  <2>2. m \in Nat /\ n \in Nat
    OBVIOUS
  <2>3. upto(m) \subseteq upto(n) /\ n \notin upto(m)
    <3>1. \A x \in upto(m) : x \in S /\ x \in Nat /\ x <= m
      OBVIOUS
    <3>2. \A x \in upto(m) : x <= n
      BY <2>1, <2>2, <3>1
    <3>3. ~(n <= m)
      BY <2>1, <2>2
    <3> QED BY <3>1, <3>2, <3>3
  <2>4. n \in upto(n)
    BY <1>2
  <2> HIDE DEF upto
  <2>5. upto(m) # upto(n) /\ IsFiniteSet(upto(n))
    BY <1>2, <2>3, <2>4
  <2> QED BY <2>3, <2>5, FS_Subset
<1>4. \A i \in 1..last : \E n \in S : Cardinality(upto(n)) = i
  <2>1. rank \in [S -> 1..last]
    BY <1>2
  <2>2. \A m, n \in S : rank[m] = rank[n] => m = n
    BY <1>3
  <2>3. rank \in Injection(S, 1..last)
    <3> HIDE DEF rank
    <3> QED BY <2>1, <2>2 DEF Injection, IsInjective
  <2>4. rank \in Surjection(S, 1..last)
    <3> HIDE DEF rank
    <3> QED BY <1>1, <2>3, FS_Injection
  <2> QED BY <2>4 DEF Surjection
<1> DEFINE s == [i \in 1..last |-> CHOOSE n \in S : Cardinality(upto(n)) = i]
<1>5. \A i \in 1..last : s[i] \in S /\ Cardinality(upto(s[i])) = i
  BY <1>4
<1>6. InOrder(S) = s
  BY DEF InOrder
<1> HIDE DEF s, last
<1>7. s \in [1..last -> S]
  BY <1>5, <1>6 DEF InOrder, last
<1>8. s \in Seq(S) /\ Len(s) = last
  BY <1>1, <1>7
<1> QED BY <1>5, <1>6, <1>8 DEF last

\* It lists all of them.
LEMMA InOrderCovers ==
  ASSUME NEW S, S \subseteq Nat, IsFiniteSet(S)
  PROVE  \A x \in S : \E i \in 1..Len(InOrder(S)) : InOrder(S)[i] = x
<1> DEFINE s == InOrder(S)
           c == Cardinality(S)
<1>1. /\ s \in Seq(S) /\ Len(s) = c
      /\ \A i \in 1..c : Cardinality({m \in S : m <= s[i]}) = i
  BY InOrderFacts
<1>2. c \in Nat
  BY FS_CardinalityType
<1> HIDE DEF s, c
<1>3. s \in [1..c -> S]
  BY <1>1, <1>2
<1>4. \A i, j \in 1..c : s[i] = s[j] => i = j
  <2> TAKE i, j \in 1..c
  <2> HAVE s[i] = s[j]
  <2>1. Cardinality({m \in S : m <= s[i]}) = i /\ Cardinality({m \in S : m <= s[j]}) = j
    BY <1>1
  <2> QED BY <2>1
<1>5. s \in Injection(1..c, S)
  BY <1>3, <1>4 DEF Injection, IsInjective
<1>6. IsFiniteSet(1..c) /\ Cardinality(1..c) = c
  BY <1>2, FS_Interval
<1>7. s \in Surjection(1..c, S)
  BY <1>5, <1>6, FS_Injection DEF c
<1> QED BY <1>1, <1>7 DEF Surjection, s

\* Of consecutive numbers the i-th is the first and i - 1.
LEMMA InOrderInterval ==
  ASSUME NEW a \in Nat, NEW b \in Nat, a <= b
  PROVE  /\ InOrder(a..b) \in Seq(a..b) /\ Len(InOrder(a..b)) = b - a + 1
         /\ \A i \in 1..(b - a + 1) : InOrder(a..b)[i] = a + i - 1
<1>1. a..b \subseteq Nat /\ IsFiniteSet(a..b) /\ Cardinality(a..b) = b - a + 1
  BY FS_Interval
<1>2. /\ InOrder(a..b) \in Seq(a..b) /\ Len(InOrder(a..b)) = b - a + 1
      /\ \A i \in 1..(b - a + 1) : Cardinality({m \in a..b : m <= InOrder(a..b)[i]}) = i
  BY <1>1, InOrderFacts
<1> DEFINE upto(n) == {m \in a..b : m <= n}
<1>3. \A n \in a..b : Cardinality(upto(n)) = n - a + 1
  <2>1. TAKE n \in a..b
  <2>2. upto(n) = a..n
    OBVIOUS
  <2>3. n \in Int /\ a \in Int /\ a <= n
    OBVIOUS
  <2> HIDE DEF upto
  <2>4. Cardinality(a..n) = n - a + 1
    BY <2>3, FS_Interval
  <2> QED BY <2>2, <2>4
<1> DEFINE s == InOrder(a..b)
<1>4. \A i \in 1..(b - a + 1) : s[i] \in a..b /\ Cardinality(upto(s[i])) = i
  BY <1>2
<1> HIDE DEF s, upto
<1>5. \A i \in 1..(b - a + 1) : s[i] = a + i - 1
  BY <1>3, <1>4
<1> QED BY <1>2, <1>5 DEF s

-----------------------------------------------------------------------------
(* Walks along a sequence.                                                 *)

\* V[i] is what the first i elements of Q, a sequence over S, make of v, one
\* step of R for each.
Walk(V, W, S, R, v, Q) ==
  /\ Q \in Seq(S) /\ V \in [0..Len(Q) -> W] /\ V[0] = v
  /\ \A i \in 1..Len(Q) : <<V[i - 1], Q[i], V[i]>> \in R

\* The places of a walk.
LEMMA WalkPlaces ==
  ASSUME NEW V, NEW W, NEW S, NEW R, NEW v, NEW Q, Walk(V, W, S, R, v, Q)
  PROVE  /\ Len(Q) \in Nat /\ 0 \in 0..Len(Q) /\ Len(Q) \in 0..Len(Q) /\ v \in W
         /\ \A i \in 0..Len(Q) : V[i] \in W
<1> DEFINE n == Len(Q)
<1>1. n \in Nat
  BY DEF Walk
<1>2. V \in [0..n -> W] /\ V[0] = v
  BY DEF Walk
<1> HIDE DEF n
<1>3. 0 \in 0..n /\ n \in 0..n
  BY <1>1
<1>4. \A i \in 0..n : V[i] \in W
  BY <1>2
<1> QED BY <1>1, <1>2, <1>3, <1>4 DEF n

\* One step.
LEMMA WalkOne ==
  ASSUME NEW W, NEW S, NEW R, NEW v \in W, NEW m \in S, NEW w \in W, <<v, m, w>> \in R
  PROVE  \E V : Walk(V, W, S, R, v, <<m>>) /\ V[1] = w
<1> DEFINE V == [i \in 0..1 |-> IF i = 0 THEN v ELSE w]
<1>1. V \in [0..1 -> W] /\ V[0] = v /\ V[1] = w
  OBVIOUS
<1>2. <<m>> \in Seq(S) /\ Len(<<m>>) = 1 /\ <<m>>[1] = m
  OBVIOUS
<1> HIDE DEF V
<1>3. \A i \in 1..1 : <<V[i - 1], <<m>>[i], V[i]>> \in R
  BY <1>1, <1>2
<1> QED BY <1>1, <1>2, <1>3 DEF Walk

\* One walk after another.
LEMMA WalkConcat ==
  ASSUME NEW W, NEW S, NEW R, NEW v, NEW V, NEW Q, Walk(V, W, S, R, v, Q),
         NEW U, NEW M, Walk(U, W, S, R, V[Len(Q)], M)
  PROVE  \E Z : /\ Walk(Z, W, S, R, v, Q \o M)
                /\ Len(Q \o M) = Len(Q) + Len(M)
                /\ \A i \in 0..Len(Q) : Z[i] = V[i]
                /\ \A i \in 0..Len(M) : Z[Len(Q) + i] = U[i]
<1> DEFINE n == Len(Q)
           k == Len(M)
           P == Q \o M
           Z == [i \in 0..(n + k) |-> IF i <= n THEN V[i] ELSE U[i - n]]
<1>1. n \in Nat /\ k \in Nat /\ Q \in Seq(S) /\ M \in Seq(S)
  BY DEF Walk
<1>2. /\ P \in Seq(S) /\ Len(P) = n + k
      /\ \A i \in 1..(n + k) : P[i] = IF i <= n THEN Q[i] ELSE M[i - n]
  BY <1>1, ConcatProperties
<1>3. V \in [0..n -> W] /\ V[0] = v /\ \A i \in 1..n : <<V[i - 1], Q[i], V[i]>> \in R
  BY DEF Walk
<1>4. U \in [0..k -> W] /\ U[0] = V[n] /\ \A i \in 1..k : <<U[i - 1], M[i], U[i]>> \in R
  BY DEF Walk
<1> HIDE DEF n, k, P
<1>5. \A i \in 0..(n + k) : i <= n \/ i - n \in 1..k
  BY <1>1
<1>6. Z \in [0..(n + k) -> W]
  BY <1>1, <1>3, <1>4, <1>5
<1>7. \A i \in 0..n : i \in 0..(n + k) /\ i <= n /\ Z[i] = V[i]
  BY <1>1
<1>8. \A i \in 1..k : n + i \in 0..(n + k) /\ ~(n + i <= n) /\ (n + i) - n = i /\ Z[n + i] = U[i]
  BY <1>1
<1> HIDE DEF Z
<1>9. \A i \in 0..k : Z[n + i] = U[i]
  <2>1. TAKE i \in 0..k
  <2>2. i \in 1..k \/ (i = 0 /\ n + i = n /\ n \in 0..n)
    BY <1>1
  <2> QED BY <1>4, <1>7, <1>8, <2>2
<1>10. ASSUME NEW i \in 1..(n + k) PROVE <<Z[i - 1], P[i], Z[i]>> \in R
  <2>1. CASE i <= n
    <3>1. i \in 1..n /\ i \in 0..n /\ i - 1 \in 0..n
      BY <1>1, <2>1
    <3> QED BY <1>2, <1>3, <1>7, <2>1, <3>1
  <2>2. CASE ~(i <= n)
    <3> DEFINE j == i - n
    <3>1. j \in 1..k /\ j \in 0..k /\ j - 1 \in 0..k /\ n + j = i /\ n + (j - 1) = i - 1
      BY <1>1, <2>2
    <3>2. P[i] = M[j]
      BY <1>2, <2>2
    <3> HIDE DEF j
    <3> QED BY <1>4, <1>9, <3>1, <3>2
  <2> QED BY <2>1, <2>2
<1>11. Walk(Z, W, S, R, v, P)
  <2>1. Z[0] = v
    BY <1>1, <1>3, <1>7
  <2> QED BY <1>2, <1>6, <1>10, <2>1 DEF Walk
<1> QED BY <1>2, <1>7, <1>9, <1>11 DEF n, k, P

\* What a walk does after its first i elements.
LEMMA WalkRest ==
  ASSUME NEW W, NEW S, NEW R, NEW v, NEW V, NEW Q, NEW M,
         Walk(V, W, S, R, v, Q \o M), Q \in Seq(S), M \in Seq(S)
  PROVE  \E Z : /\ Walk(Z, W, S, R, V[Len(Q)], M)
                /\ Len(Q \o M) = Len(Q) + Len(M)
                /\ \A i \in 0..Len(M) : Z[i] = V[Len(Q) + i]
<1> DEFINE n == Len(Q)
           k == Len(M)
           P == Q \o M
           Z == [i \in 0..k |-> V[n + i]]
<1>1. n \in Nat /\ k \in Nat
  BY LenProperties
<1>2. /\ P \in Seq(S) /\ Len(P) = n + k
      /\ \A i \in 1..(n + k) : P[i] = IF i <= n THEN Q[i] ELSE M[i - n]
  BY ConcatProperties
<1>3. V \in [0..Len(P) -> W] /\ \A i \in 1..Len(P) : <<V[i - 1], P[i], V[i]>> \in R
  BY DEF Walk
<1> HIDE DEF n, k, P
<1>4. \A i \in 0..k : n + i \in 0..(n + k)
  BY <1>1
<1>5. Z \in [0..k -> W] /\ \A i \in 0..k : Z[i] = V[n + i]
  BY <1>2, <1>3, <1>4
<1> HIDE DEF Z
<1>6. ASSUME NEW i \in 1..k PROVE <<Z[i - 1], M[i], Z[i]>> \in R
  <2> DEFINE j == n + i
  <2>1. /\ j \in 1..(n + k) /\ ~(j <= n) /\ j - n = i /\ j - 1 = n + (i - 1)
        /\ i \in 0..k /\ i - 1 \in 0..k
    BY <1>1
  <2>2. <<V[j - 1], P[j], V[j]>> \in R /\ P[j] = M[i]
    <3> HIDE DEF j
    <3> QED BY <1>2, <1>3, <2>1
  <2>3. Z[i] = V[j]
    BY <1>5, <2>1
  <2>4. Z[i - 1] = V[j - 1]
    BY <1>5, <2>1
  <2> HIDE DEF j
  <2> QED BY <2>2, <2>3, <2>4
<1>7. Z[0] = V[n]
  BY <1>1, <1>5
<1>8. Walk(Z, W, S, R, V[n], M)
  BY <1>5, <1>6, <1>7 DEF Walk, k
<1> QED BY <1>2, <1>5, <1>8 DEF n, k, P

\* What a walk does along its first elements.
LEMMA WalkStart ==
  ASSUME NEW W, NEW S, NEW R, NEW v, NEW V, NEW Q, NEW M,
         Walk(V, W, S, R, v, Q \o M), Q \in Seq(S), M \in Seq(S)
  PROVE  \E Z : /\ Walk(Z, W, S, R, v, Q)
                /\ Len(Q \o M) = Len(Q) + Len(M)
                /\ \A i \in 0..Len(Q) : Z[i] = V[i]
                /\ \A i \in 1..Len(Q) : Q[i] = (Q \o M)[i]
<1> DEFINE n == Len(Q)
           k == Len(M)
           P == Q \o M
           Z == [i \in 0..n |-> V[i]]
<1>1. n \in Nat /\ k \in Nat
  BY LenProperties
<1>2. /\ P \in Seq(S) /\ Len(P) = n + k
      /\ \A i \in 1..(n + k) : P[i] = IF i <= n THEN Q[i] ELSE M[i - n]
  BY ConcatProperties
<1>3. V \in [0..Len(P) -> W] /\ V[0] = v /\ \A i \in 1..Len(P) : <<V[i - 1], P[i], V[i]>> \in R
  BY DEF Walk
<1> HIDE DEF n, k, P
<1>4. /\ \A i \in 0..n : i \in 0..(n + k)
      /\ \A i \in 1..n : i \in 1..(n + k) /\ i <= n /\ i \in 0..n /\ i - 1 \in 0..n
      /\ 0 \in 0..n
  BY <1>1
<1>5. Z \in [0..n -> W] /\ \A i \in 0..n : Z[i] = V[i]
  BY <1>2, <1>3, <1>4
<1> HIDE DEF Z
<1>6. \A i \in 1..n : Q[i] = P[i]
  BY <1>2, <1>4
<1>7. Walk(Z, W, S, R, v, Q)
  BY <1>2, <1>3, <1>4, <1>5, <1>6 DEF Walk, n
<1> QED BY <1>2, <1>5, <1>6, <1>7 DEF n, k, P

-----------------------------------------------------------------------------
(* Views: for each target of I a function from K to X, or none.            *)

AreViews(W, I, K, X, none) == W = [I -> [K -> X] \cup {none}] /\ none \notin [K -> X]

\* R holds what the responses of M that set one value, or nothing, make of a view.
Displays(R, W, M, none) ==
  \A v \in W, m \in M :
    /\ m.kind = "current" => <<v, m, v>> \in R
    /\ m.kind \in {"change", "delete"} /\ v[m.id] # none =>
         <<v, m, [v EXCEPT ![m.id] = [@ EXCEPT ![m.name] = m.version]]>> \in R

\* r sets one value of the target id to what it is in cur.
Sets(r, K, id, cur) ==
  r.kind \in {"change", "delete"} /\ r.id = id /\ r.name \in K /\ r.version = cur[r.name]

\* m sets those of S.
Tells(m, M, K, S, id, cur) ==
  /\ m \in Seq(M)
  /\ \A k \in 1..Len(m) : Sets(m[k], K, id, cur)
  /\ \A n \in S : \E k \in 1..Len(m) : m[k].name = n

\* m is news of the target id: it sets values of old to what they are in cur,
\* and all those that differ.
IsNews(m, M, K, id, old, cur) ==
  /\ m \in Seq(M)
  /\ \A k \in 1..Len(m) : m[k].kind = "current" \/ Sets(m[k], K, id, cur)
  /\ \A n \in K : old[n] = cur[n] \/ \E k \in 1..Len(m) : Sets(m[k], K, id, cur) /\ m[k].name = n

\* A response for each name of a finite set.
LEMMA TellsEach ==
  ASSUME NEW S, IsFiniteSet(S), NEW M, NEW K, NEW id, NEW cur, NEW m,
         m = [i \in DOMAIN SetToSeq(S) |-> m[i]],
         \A i \in DOMAIN SetToSeq(S) : SetToSeq(S)[i] \in S =>
           m[i] \in M /\ Sets(m[i], K, id, cur) /\ m[i].name = SetToSeq(S)[i]
  PROVE  Tells(m, M, K, S, id, cur)
<1> DEFINE s == SetToSeq(S)
           c == Cardinality(S)
<1>1. s \in [1..c -> S] /\ c \in Nat /\ \A n \in S : \E k \in 1..c : s[k] = n
  BY SetToSeqFacts
<1>2. m = [i \in DOMAIN s |-> m[i]]
  OBVIOUS
<1>3. \A i \in DOMAIN s : s[i] \in S => m[i] \in M /\ Sets(m[i], K, id, cur) /\ m[i].name = s[i]
  OBVIOUS
<1> HIDE DEF s, c
<1>4. \A i \in 1..c : m[i] \in M /\ Sets(m[i], K, id, cur) /\ m[i].name = s[i]
  BY <1>1, <1>3
<1>5. m \in [1..c -> M]
  BY <1>1, <1>2, <1>4
<1>6. m \in Seq(M) /\ Len(m) = c
  BY <1>1, <1>5
<1>7. \A k \in 1..Len(m) : Sets(m[k], K, id, cur)
  BY <1>4, <1>6
<1>8. ASSUME NEW n \in S PROVE \E k \in 1..Len(m) : m[k].name = n
  <2>1. PICK k \in 1..c : s[k] = n
    BY <1>1
  <2>2. m[k].name = n
    BY <1>4, <2>1
  <2> QED BY <1>6, <2>1, <2>2
<1> QED BY <1>6, <1>7, <1>8 DEF Tells

\* r has the elements of p, then those of q.
Joins(r, M, p, q) ==
  /\ r \in Seq(M)
  /\ \A k \in 1..Len(p) : k \in 1..Len(r) /\ r[k] = p[k]
  /\ \A k \in 1..Len(q) : \E j \in 1..Len(r) : r[j] = q[k]
  /\ \A k \in 1..Len(r) : (\E j \in 1..Len(p) : r[k] = p[j]) \/ (\E j \in 1..Len(q) : r[k] = q[j])

\* Two sequences, one after the other.
LEMMA ConcatElements ==
  ASSUME NEW M, NEW p \in Seq(M), NEW q \in Seq(M)
  PROVE  Joins(p \o q, M, p, q)
<1> DEFINE a == Len(p)
           b == Len(q)
           r == p \o q
<1>1. a \in Nat /\ b \in Nat
  OBVIOUS
<1>2. /\ r \in Seq(M) /\ Len(r) = a + b
      /\ \A i \in 1..(a + b) : r[i] = IF i <= a THEN p[i] ELSE q[i - a]
  BY ConcatProperties
<1> HIDE DEF a, b, r
<1>3. \A k \in 1..a : k \in 1..(a + b) /\ k <= a
  BY <1>1
<1>4. \A k \in 1..b : a + k \in 1..(a + b) /\ ~(a + k <= a) /\ (a + k) - a = k
  BY <1>1
<1>5. \A k \in 1..(a + b) : (k <= a /\ k \in 1..a) \/ (~(k <= a) /\ k - a \in 1..b)
  BY <1>1
<1>6. \A k \in 1..a : r[k] = p[k]
  BY <1>2, <1>3
<1>7. \A k \in 1..b : r[a + k] = q[k]
  BY <1>2, <1>4
<1>8. \A k \in 1..(a + b) : \/ \E j \in 1..a : r[k] = p[j]
                            \/ \E j \in 1..b : r[k] = q[j]
  BY <1>2, <1>5
<1>9. \A k \in 1..b : \E j \in 1..(a + b) : r[j] = q[k]
  BY <1>4, <1>7
<1> QED BY <1>2, <1>3, <1>6, <1>8, <1>9 DEF Joins, a, b, r

\* Two parts of the news, and what comes after them and changes nothing.
LEMMA NewsOf ==
  ASSUME NEW M, NEW K, NEW id, NEW old, NEW cur, NEW A, NEW B, NEW p, NEW q, NEW tail,
         Tells(p, M, K, A, id, cur), Tells(q, M, K, B, id, cur),
         tail \in Seq(M), \A k \in 1..Len(tail) : tail[k].kind = "current",
         \A n \in K : old[n] = cur[n] \/ n \in A \/ n \in B
  PROVE  IsNews((p \o q) \o tail, M, K, id, old, cur)
<1> DEFINE r == p \o q
           t == r \o tail
<1>1. /\ p \in Seq(M) /\ \A k \in 1..Len(p) : Sets(p[k], K, id, cur)
      /\ \A n \in A : \E k \in 1..Len(p) : p[k].name = n
  BY DEF Tells
<1>2. /\ q \in Seq(M) /\ \A k \in 1..Len(q) : Sets(q[k], K, id, cur)
      /\ \A n \in B : \E k \in 1..Len(q) : q[k].name = n
  BY DEF Tells
<1>3. /\ r \in Seq(M)
      /\ \A k \in 1..Len(p) : k \in 1..Len(r) /\ r[k] = p[k]
      /\ \A k \in 1..Len(q) : \E j \in 1..Len(r) : r[j] = q[k]
      /\ \A k \in 1..Len(r) : (\E j \in 1..Len(p) : r[k] = p[j]) \/ (\E j \in 1..Len(q) : r[k] = q[j])
  <2>1. p \in Seq(M) /\ q \in Seq(M)
    BY <1>1, <1>2
  <2>2. Joins(r, M, p, q)
    BY <2>1, ConcatElements
  <2> QED BY <2>2 DEF Joins
<1> HIDE DEF r
<1>4. \A k \in 1..Len(r) : Sets(r[k], K, id, cur)
  BY <1>1, <1>2, <1>3
<1>5. \A n \in A : \E k \in 1..Len(r) : r[k].name = n
  BY <1>1, <1>3
<1>6. ASSUME NEW n \in B PROVE \E k \in 1..Len(r) : r[k].name = n
  <2>1. PICK k \in 1..Len(q) : q[k].name = n
    BY <1>2
  <2>2. PICK j \in 1..Len(r) : r[j] = q[k]
    BY <1>3
  <2> QED BY <2>1, <2>2
<1>7. /\ t \in Seq(M)
      /\ \A k \in 1..Len(r) : k \in 1..Len(t) /\ t[k] = r[k]
      /\ \A k \in 1..Len(t) : (\E j \in 1..Len(r) : t[k] = r[j]) \/ (\E j \in 1..Len(tail) : t[k] = tail[j])
  <2>1. r \in Seq(M) /\ tail \in Seq(M)
    BY <1>3
  <2>2. Joins(t, M, r, tail)
    BY <2>1, ConcatElements
  <2> QED BY <2>2 DEF Joins
<1> HIDE DEF t
<1>8. \A k \in 1..Len(t) : t[k].kind = "current" \/ Sets(t[k], K, id, cur)
  BY <1>4, <1>7
<1>9. ASSUME NEW n \in K, old[n] # cur[n] PROVE \E k \in 1..Len(t) : Sets(t[k], K, id, cur) /\ t[k].name = n
  <2>1. PICK k \in 1..Len(r) : r[k].name = n
    BY <1>5, <1>6, <1>9
  <2>2. k \in 1..Len(t) /\ t[k] = r[k]
    BY <1>7
  <2> QED BY <1>4, <2>1, <2>2
<1>10. IsNews(t, M, K, id, old, cur)
  BY <1>7, <1>8, <1>9 DEF IsNews
<1> QED BY <1>10 DEF t, r

\* News turn what is known of the target into what it is now, and touch no
\* other target.
LEMMA NewsWay ==
  ASSUME NEW W, NEW I, NEW K, NEW X, NEW none, AreViews(W, I, K, X, none),
         NEW M, NEW R, Displays(R, W, M, none),
         NEW T \in W, NEW id \in I, T[id] # none, NEW cur \in [K -> X],
         NEW m, IsNews(m, M, K, id, T[id], cur)
  PROVE  \E V : /\ Walk(V, W, M, R, T, m)
                /\ V[Len(m)] = [T EXCEPT ![id] = cur]
                /\ \A i \in 0..Len(m), j \in I : V[i][j] = none <=> T[j] = none
<1> DEFINE Y == [K -> X]
           len == Len(m)
           told == [i \in 0..len |-> {n \in K : \E k \in 1..i : Sets(m[k], K, id, cur) /\ m[k].name = n}]
           old == T[id]
           p == [i \in 0..len |-> [n \in K |-> IF n \in told[i] THEN cur[n] ELSE old[n]]]
           V == [i \in 0..len |-> [T EXCEPT ![id] = p[i]]]
<1>1. /\ len \in Nat /\ m \in Seq(M)
      /\ \A k \in 1..len : m[k].kind = "current" \/ Sets(m[k], K, id, cur)
      /\ \A n \in K : old[n] = cur[n] \/ \E k \in 1..len : Sets(m[k], K, id, cur) /\ m[k].name = n
  BY LenProperties DEF IsNews
<1>2. W = [I -> Y \cup {none}] /\ none \notin Y /\ T \in W /\ old \in Y /\ cur \in Y
  BY DEF AreViews
<1> HIDE DEF len
<1>3. /\ told[0] = {}
      /\ \A i \in 0..len : told[i] \subseteq K
      /\ \A n \in K : n \in told[len] \/ old[n] = cur[n]
  <2>1. 0 \in 0..len /\ len \in 0..len /\ 1..0 = {}
    BY <1>1
  <2> QED BY <1>1, <2>1
<1>4. ASSUME NEW i \in 1..len
      PROVE  \A n \in K :
               n \in told[i] <=> (n \in told[i - 1] \/ (Sets(m[i], K, id, cur) /\ m[i].name = n))
  <2>1. i \in 0..len /\ i - 1 \in 0..len /\ \A k : k \in 1..i <=> (k \in 1..(i - 1) \/ k = i)
    BY <1>1
  <2> QED BY <2>1
<1> HIDE DEF told, old
<1>5. /\ \A i \in 0..len : /\ p[i] \in Y
                           /\ \A n \in K : p[i][n] = IF n \in told[i] THEN cur[n] ELSE old[n]
      /\ 0 \in 0..len /\ len \in 0..len
  BY <1>1, <1>2
<1>6. p[0] = old /\ p[len] = cur
  <2>1. \A n \in K : p[0][n] = old[n] /\ p[len][n] = cur[n]
    BY <1>3, <1>5
  <2>2. p[0] \in Y /\ p[len] \in Y
    BY <1>5
  <2> HIDE DEF p
  <2> QED BY <1>2, <2>1, <2>2
<1>7. \A i \in 0..len : V[i] = [T EXCEPT ![id] = p[i]]
  OBVIOUS
<1> HIDE DEF V, p
<1>8. \A i \in 0..len : /\ V[i] \in W /\ V[i][id] = p[i] /\ p[i] # none
                        /\ \A j \in I : j # id => V[i][j] = T[j]
  <2> SUFFICES ASSUME NEW i \in 0..len
               PROVE  /\ V[i] \in W /\ V[i][id] = p[i] /\ p[i] # none
                      /\ \A j \in I : j # id => V[i][j] = T[j]
    OBVIOUS
  <2>1. p[i] \in Y /\ V[i] = [T EXCEPT ![id] = p[i]]
    BY <1>5, <1>7
  <2> QED BY <1>2, <2>1
<1>9. V \in [0..len -> W]
  BY <1>8 DEF V
<1>10. V[0] = T /\ V[len] = [T EXCEPT ![id] = cur]
  <2>1. V[0] = [T EXCEPT ![id] = T[id]] /\ V[len] = [T EXCEPT ![id] = cur]
    BY <1>5, <1>6, <1>7 DEF old
  <2> QED BY <1>2, <2>1
<1>11. ASSUME NEW i \in 1..len PROVE <<V[i - 1], m[i], V[i]>> \in R
  <2>1. i \in 0..len /\ i - 1 \in 0..len /\ m[i] \in M
    BY <1>1 DEF len
  <2>2. V[i - 1] \in W /\ V[i] \in W
    BY <1>8, <2>1
  <2> DEFINE x == m[i].name
             v == V[i - 1]
  <2>a. p[i] \in Y /\ p[i - 1] \in Y
    BY <1>5, <2>1
  <2>b. \A n \in K :
          /\ p[i][n] = IF n \in told[i] THEN cur[n] ELSE old[n]
          /\ p[i - 1][n] = IF n \in told[i - 1] THEN cur[n] ELSE old[n]
    BY <1>5, <2>1
  <2>c. v[id] = p[i - 1] /\ v[id] # none
    BY <1>8, <2>1
  <2>d. v = [T EXCEPT ![id] = p[i - 1]] /\ V[i] = [T EXCEPT ![id] = p[i]]
    BY <1>7, <2>1
  <2>e. V[i] = [v EXCEPT ![id] = p[i]]
    BY <1>2, <2>d
  <2> HIDE DEF v
  <2>3. CASE m[i].kind = "current" /\ ~Sets(m[i], K, id, cur)
    <3>1. \A n \in K : p[i][n] = p[i - 1][n]
      BY <1>4, <2>3, <2>b
    <3>2. p[i] = p[i - 1]
      BY <2>a, <3>1
    <3>3. V[i] = v
      BY <2>d, <3>2
    <3>4. <<v, m[i], v>> \in R
      BY <2>1, <2>2, <2>3 DEF v, Displays
    <3> QED BY <3>3, <3>4 DEF v
  <2>4. CASE Sets(m[i], K, id, cur)
    <3>1. /\ m[i].kind \in {"change", "delete"} /\ m[i].id = id /\ x \in K
          /\ m[i].version = cur[x]
      BY <2>4 DEF Sets
    <3> HIDE DEF x
    <3>2. \A n \in K : p[i][n] = IF n = x THEN cur[x] ELSE p[i - 1][n]
      BY <1>4, <2>4, <2>b DEF x
    <3>3. p[i] = [p[i - 1] EXCEPT ![x] = cur[x]]
      BY <2>a, <3>2
    <3>4. <<v, m[i], [v EXCEPT ![m[i].id] = [@ EXCEPT ![x] = m[i].version]]>> \in R
      <4>1. v \in W /\ v[m[i].id] # none
        BY <2>2, <2>c, <3>1 DEF v
      <4> QED BY <2>1, <3>1, <4>1 DEF x, Displays
    <3>5. [v EXCEPT ![m[i].id] = [@ EXCEPT ![x] = m[i].version]]
          = [v EXCEPT ![id] = [v[id] EXCEPT ![x] = cur[x]]]
      BY <3>1
    <3>6. [v EXCEPT ![m[i].id] = [@ EXCEPT ![x] = m[i].version]] = V[i]
      BY <2>c, <2>e, <3>3, <3>5
    <3> QED BY <3>4, <3>6 DEF v
  <2> QED BY <1>1, <2>3, <2>4
<1>12. Walk(V, W, M, R, T, m)
  BY <1>1, <1>9, <1>10, <1>11 DEF Walk, len
<1>13. \A i \in 0..len, j \in I : V[i][j] = none <=> T[j] = none
  BY <1>8
<1> QED BY <1>10, <1>12, <1>13 DEF len

-----------------------------------------------------------------------------
(* Sums.                                                                   *)

\* The sum of f over S, and the function that the community modules take it from.
Total(f, S) == MapThenSumSet(LAMBDA x : f[x], S)

IsSum(g, f, S) ==
  \A s \in SUBSET S :
    g[s] = IF s = {} THEN 0 ELSE f[CHOOSE x \in s : TRUE] + g[s \ {CHOOSE x \in s : TRUE}]

\* There is such a function.
LEMMA SumExists ==
  ASSUME NEW S, IsFiniteSet(S), NEW f, \A x \in S : f[x] \in Nat
  PROVE  \E g \in [SUBSET S -> Nat] : IsSum(g, f, S)
<1> DEFINE pick == [s \in SUBSET S |-> CHOOSE x \in s : TRUE]
           step == [p \in S \X Nat |-> f[p[1]] + p[2]]
<1>1. step \in [S \X Nat -> Nat]
  OBVIOUS
<1>2. \A s \in SUBSET S : s # {} => pick[s] \in s /\ pick[s] = CHOOSE x \in s : TRUE
  OBVIOUS
<1>3. \A x \in S, n \in Nat : step[<<x, n>>] = f[x] + n
  OBVIOUS
<1> HIDE DEF pick, step
<1>4. PICK g \in [SUBSET S -> Nat] : IsFold(g, S, 0, pick, step)
  BY <1>1, <1>2, FoldExists
<1>5. ASSUME NEW s \in SUBSET S
      PROVE  g[s] = IF s = {} THEN 0 ELSE f[CHOOSE x \in s : TRUE] + g[s \ {CHOOSE x \in s : TRUE}]
  <2>1. g[s] = IF s = {} THEN 0 ELSE step[<<pick[s], g[s \ {pick[s]}]>>]
    BY <1>4 DEF IsFold
  <2>2. s # {} => pick[s] \in S /\ g[s \ {pick[s]}] \in Nat
    BY <1>2, <1>4
  <2>3. s # {} => step[<<pick[s], g[s \ {pick[s]}]>>] = f[pick[s]] + g[s \ {pick[s]}]
    BY <1>3, <2>2
  <2> QED BY <1>2, <2>1, <2>3
<1> QED BY <1>4, <1>5 DEF IsSum

\* The sum is taken from it.
LEMMA TotalIsSum ==
  ASSUME NEW S, IsFiniteSet(S), NEW f, \A x \in S : f[x] \in Nat
  PROVE  \E g : IsSum(g, f, S) /\ Total(f, S) = g[S]
<1> DEFINE g == CHOOSE g : g = [s \in SUBSET S |->
                   IF s = {} THEN 0 ELSE f[CHOOSE x \in s : TRUE] + g[s \ {CHOOSE x \in s : TRUE}]]
<1>1. PICK h \in [SUBSET S -> Nat] : IsSum(h, f, S)
  BY SumExists
<1>2. h = [s \in SUBSET S |->
             IF s = {} THEN 0 ELSE f[CHOOSE x \in s : TRUE] + h[s \ {CHOOSE x \in s : TRUE}]]
  BY <1>1 DEF IsSum
<1>3. g = [s \in SUBSET S |->
             IF s = {} THEN 0 ELSE f[CHOOSE x \in s : TRUE] + g[s \ {CHOOSE x \in s : TRUE}]]
  BY <1>2
<1>4. Total(f, S) = g[S]
  BY DEF Total, MapThenSumSet, MapThenFoldSet
<1> HIDE DEF g
<1>5. IsSum(g, f, S)
  BY <1>3 DEF IsSum
<1> QED BY <1>4, <1>5

\* Two functions with the same values have the same sums, also over a part of
\* the set.
LEMMA SumUnique ==
  ASSUME NEW S, IsFiniteSet(S), NEW f, NEW g, IsSum(g, f, S),
         NEW T \in SUBSET S, NEW e, \A x \in T : e[x] = f[x], NEW h, IsSum(h, e, T)
  PROVE  \A s \in SUBSET T : g[s] = h[s]
<1> DEFINE P == {s \in SUBSET T : g[s] = h[s]}
<1>1. ASSUME NEW s \in SUBSET T, \A u \in SUBSET s : u # s => u \in P PROVE s \in P
  <2>1. CASE s = {}
    BY <2>1 DEF IsSum
  <2>2. CASE s # {}
    <3> DEFINE x == CHOOSE x \in s : TRUE
    <3>1. x \in s /\ s \ {x} \in SUBSET s /\ s \ {x} # s
      BY <2>2
    <3>2. g[s] = f[x] + g[s \ {x}] /\ h[s] = e[x] + h[s \ {x}]
      BY <2>2 DEF IsSum
    <3> HIDE DEF x
    <3>3. g[s \ {x}] = h[s \ {x}] /\ e[x] = f[x]
      BY <1>1, <3>1
    <3> QED BY <3>2, <3>3
  <2> QED BY <2>1, <2>2
<1> HIDE DEF P
<1>2. \A s \in SUBSET T : s \in P
  BY <1>1, FS_Subset, SubsetInduction
<1> QED BY <1>2 DEF P

\* g has the sums over all the subsets of S, whatever element a sum begins with.
Sums(g, f, S) ==
  /\ g \in [SUBSET S -> Nat]
  /\ \A s \in SUBSET S : Total(f, s) = g[s]
  /\ g[{}] = 0
  /\ \A s \in SUBSET S, x \in S : x \in s => g[s] = f[x] + g[s \ {x}]

\* The sums over the subsets of a set are one function.
LEMMA SumsOf ==
  ASSUME NEW S, IsFiniteSet(S), NEW f, \A x \in S : f[x] \in Nat
  PROVE  \E g : Sums(g, f, S)
<1>1. PICK g \in [SUBSET S -> Nat] : IsSum(g, f, S)
  BY SumExists
<1>2. ASSUME NEW s \in SUBSET S PROVE Total(f, s) = g[s]
  <2>1. IsFiniteSet(s) /\ \A x \in s : f[x] \in Nat
    BY FS_Subset
  <2>2. PICK h : IsSum(h, f, s) /\ Total(f, s) = h[s]
    BY <2>1, TotalIsSum
  <2> QED BY <1>1, <2>2, SumUnique
<1>3. g[{}] = 0
  BY <1>1 DEF IsSum
<1> DEFINE P == {s \in SUBSET S : \A x \in s : g[s] = f[x] + g[s \ {x}]}
<1>4. ASSUME NEW s \in SUBSET S, \A u \in SUBSET s : u # s => u \in P PROVE s \in P
  <2> SUFFICES ASSUME NEW x \in s PROVE g[s] = f[x] + g[s \ {x}]
    OBVIOUS
  <2> DEFINE y == CHOOSE y \in s : TRUE
  <2>1. y \in s /\ g[s] = f[y] + g[s \ {y}]
    BY <1>1 DEF IsSum
  <2> HIDE DEF y
  <2>2. CASE x = y
    BY <2>1, <2>2
  <2>3. CASE x # y
    <3> DEFINE r == (s \ {x}) \ {y}
    <3>1. s \ {y} \in P /\ s \ {x} \in P
      BY <1>4, <2>1
    <3>2. r = (s \ {y}) \ {x} /\ x \in s \ {y} /\ y \in s \ {x}
      BY <2>1, <2>3
    <3>3. r \in SUBSET S
      OBVIOUS
    <3> HIDE DEF r
    <3>4. g[s \ {y}] = f[x] + g[r]
      BY <3>1, <3>2
    <3>5. g[s \ {x}] = f[y] + g[r]
      <4>1. g[s \ {x}] = f[y] + g[(s \ {x}) \ {y}]
        BY <3>1, <3>2
      <4> QED BY <4>1 DEF r
    <3>6. g[r] \in Nat /\ f[x] \in Nat /\ f[y] \in Nat
      BY <1>1, <2>1, <3>3
    <3> QED BY <2>1, <3>4, <3>5, <3>6
  <2> QED BY <2>2, <2>3
<1> HIDE DEF P
<1>5. \A s \in SUBSET S : s \in P
  BY <1>4, SubsetInduction
<1>6. \A s \in SUBSET S, x \in S : x \in s => g[s] = f[x] + g[s \ {x}]
  BY <1>5 DEF P
<1> QED BY <1>1, <1>2, <1>3, <1>6 DEF Sums

\* One element more or less.
LEMMA TotalFacts ==
  ASSUME NEW S, IsFiniteSet(S), NEW f, \A x \in S : f[x] \in Nat
  PROVE  /\ Total(f, S) \in Nat
         /\ S = {} => Total(f, S) = 0
         /\ \A x \in S : Total(f, S) = f[x] + Total(f, S \ {x})
<1>1. PICK g : Sums(g, f, S)
  BY SumsOf
<1>2. /\ g \in [SUBSET S -> Nat] /\ \A s \in SUBSET S : Total(f, s) = g[s]
      /\ g[{}] = 0 /\ \A x \in S : g[S] = f[x] + g[S \ {x}]
  BY <1>1 DEF Sums
<1>3. S \in SUBSET S /\ \A x \in S : S \ {x} \in SUBSET S
  OBVIOUS
<1>4. Total(f, S) = g[S] /\ \A x \in S : Total(f, S \ {x}) = g[S \ {x}]
  BY <1>2, <1>3
<1>5. g[S] \in Nat /\ (S = {} => g[S] = 0)
  BY <1>2, <1>3
<1> QED BY <1>2, <1>4, <1>5

\* Functions with the same values have the same sum.
LEMMA TotalSame ==
  ASSUME NEW S, IsFiniteSet(S), NEW f, NEW e, \A x \in S : f[x] \in Nat /\ e[x] = f[x]
  PROVE  Total(f, S) = Total(e, S)
<1>1. \A x \in S : e[x] \in Nat
  OBVIOUS
<1>2. PICK g : IsSum(g, f, S) /\ Total(f, S) = g[S]
  BY TotalIsSum
<1>3. PICK h : IsSum(h, e, S) /\ Total(e, S) = h[S]
  BY <1>1, TotalIsSum
<1> QED BY <1>2, <1>3, SumUnique

\* The sum over two sets that have nothing in common.
LEMMA TotalUnion ==
  ASSUME NEW S, IsFiniteSet(S), NEW T, IsFiniteSet(T), S \cap T = {},
         NEW f, \A x \in S \cup T : f[x] \in Nat
  PROVE  Total(f, S \cup T) = Total(f, S) + Total(f, T)
<1>0. IsFiniteSet(S \cup T)
  BY FS_Union
<1>g. PICK g : Sums(g, f, S \cup T)
  BY <1>0, SumsOf
<1>1. /\ g \in [SUBSET (S \cup T) -> Nat]
      /\ \A s \in SUBSET (S \cup T) : Total(f, s) = g[s]
      /\ g[{}] = 0
      /\ \A s \in SUBSET (S \cup T), x \in S \cup T : x \in s => g[s] = f[x] + g[s \ {x}]
  BY <1>g DEF Sums
<1> DEFINE P == {s \in SUBSET T : g[S \cup s] = g[S] + g[s]}
<1>2. ASSUME NEW s \in SUBSET T, \A u \in SUBSET s : u # s => u \in P PROVE s \in P
  <2>1. CASE s = {}
    <3>1. S \cup s = S /\ g[S] \in Nat
      BY <1>1, <2>1
    <3> QED BY <1>1, <2>1, <3>1
  <2>2. CASE s # {}
    <3>1. PICK x \in s : TRUE
      BY <2>2
    <3>2. (S \cup s) \ {x} = S \cup (s \ {x})
      BY <3>1
    <3>a. /\ x \in S \cup T /\ s \in SUBSET (S \cup T) /\ x \in s
          /\ S \cup s \in SUBSET (S \cup T) /\ x \in S \cup s
      BY <3>1
    <3>b. g[S \cup s] = f[x] + g[(S \cup s) \ {x}] /\ g[s] = f[x] + g[s \ {x}]
      BY <1>1, <3>a
    <3>3. g[S \cup s] = f[x] + g[S \cup (s \ {x})] /\ g[s] = f[x] + g[s \ {x}]
      BY <3>2, <3>b
    <3>4. g[S \cup (s \ {x})] = g[S] + g[s \ {x}]
      BY <1>2, <3>1
    <3>5. f[x] \in Nat /\ g[S] \in Nat /\ g[s \ {x}] \in Nat
      BY <1>1, <3>1
    <3> QED BY <3>3, <3>4, <3>5
  <2> QED BY <2>1, <2>2
<1> HIDE DEF P
<1>3. \A s \in SUBSET T : s \in P
  BY <1>2, SubsetInduction
<1>4. g[S \cup T] = g[S] + g[T]
  BY <1>3 DEF P
<1> QED BY <1>1, <1>4

\* A part of a set has a smaller sum.
LEMMA TotalSubset ==
  ASSUME NEW S, IsFiniteSet(S), NEW T \in SUBSET S, NEW f, \A x \in S : f[x] \in Nat
  PROVE  Total(f, T) <= Total(f, S) /\ Total(f, T) \in Nat
<1>1. IsFiniteSet(T) /\ IsFiniteSet(S \ T) /\ T \cap (S \ T) = {} /\ T \cup (S \ T) = S
  BY FS_Subset
<1>2. Total(f, S) = Total(f, T) + Total(f, S \ T)
  BY <1>1, TotalUnion
<1>3. Total(f, T) \in Nat /\ Total(f, S \ T) \in Nat
  BY <1>1, TotalFacts
<1> QED BY <1>2, <1>3

\* An injection keeps the number of elements.
LEMMA CardinalityImage ==
  ASSUME NEW S, IsFiniteSet(S), NEW m, \A x, y \in S : m[x] = m[y] => x = y
  PROVE  IsFiniteSet({m[x] : x \in S}) /\ Cardinality({m[x] : x \in S}) = Cardinality(S)
<1> DEFINE T == {m[x] : x \in S}
           f == [x \in S |-> m[x]]
<1>1. f \in [S -> T] /\ \A x, y \in S : f[x] = f[y] => x = y
  OBVIOUS
<1>2. ASSUME NEW t \in T PROVE \E x \in S : f[x] = t
  OBVIOUS
<1> HIDE DEF T, f
<1>3. f \in Injection(S, T) /\ f \in Surjection(S, T)
  BY <1>1, <1>2 DEF Injection, Surjection, IsInjective
<1>4. ExistsBijection(S, T)
  BY <1>3 DEF ExistsBijection, Bijection
<1>5. IsFiniteSet(T) /\ Cardinality(T) = Cardinality(S)
  BY <1>4, FS_Bijection
<1> QED BY <1>5 DEF T

\* The sum over the images of a set under an injection.
LEMMA TotalImage ==
  ASSUME NEW S, IsFiniteSet(S), NEW f, \A x \in S : f[x] \in Nat,
         NEW m, \A x, y \in S : m[x] = m[y] => x = y,
         NEW e, \A x \in S : e[m[x]] = f[x],
         NEW I, \A x \in S : m[x] \in I, \A i \in I : \E x \in S : i = m[x]
  PROVE  IsFiniteSet(I) /\ Total(e, I) = Total(f, S) /\ Cardinality(I) = Cardinality(S)
<1> DEFINE Im(s) == {m[x] : x \in s}
<1>g. PICK g : Sums(g, f, S)
  BY SumsOf
<1>1. /\ g \in [SUBSET S -> Nat]
      /\ \A s \in SUBSET S : Total(f, s) = g[s]
      /\ g[{}] = 0
      /\ \A s \in SUBSET S, x \in S : x \in s => g[s] = f[x] + g[s \ {x}]
  BY <1>g DEF Sums
<1> DEFINE P == {s \in SUBSET S : /\ IsFiniteSet(Im(s)) /\ Total(e, Im(s)) = g[s]
                                  /\ Cardinality(Im(s)) = Cardinality(s)}
<1>2. ASSUME NEW s \in SUBSET S, \A u \in SUBSET s : u # s => u \in P PROVE s \in P
  <2>1. CASE s = {}
    <3>1. Im(s) = {}
      BY <2>1
    <3> HIDE DEF Im
    <3>2. IsFiniteSet({}) /\ Total(e, {}) = 0
      BY FS_EmptySet, TotalFacts
    <3> QED BY <1>1, <2>1, <3>1, <3>2
  <2>2. CASE s # {}
    <3>1. PICK x \in s : TRUE
      BY <2>2
    <3> DEFINE r == s \ {x}
    <3>2. Im(s) = Im(r) \cup {m[x]} /\ m[x] \notin Im(r) /\ r \in SUBSET s /\ r # s
      BY <3>1
    <3>3. g[s] = f[x] + g[r]
      BY <1>1, <3>1
    <3>4. \A y \in Im(s) : e[y] \in Nat
      OBVIOUS
    <3>5. IsFiniteSet(s) /\ IsFiniteSet(r) /\ Cardinality(r) = Cardinality(s) - 1
          /\ Cardinality(s) \in Nat
      BY <3>1, FS_Subset, FS_RemoveElement, FS_CardinalityType
    <3>6. e[m[x]] = f[x]
      BY <3>1
    <3> HIDE DEF Im, r
    <3>7. /\ IsFiniteSet(Im(r)) /\ Total(e, Im(r)) = g[r]
          /\ Cardinality(Im(r)) = Cardinality(r)
      BY <1>2, <3>2
    <3>8. IsFiniteSet(Im(s)) /\ Cardinality(Im(s)) = Cardinality(r) + 1
      <4> DEFINE J == Im(r)
      <4>1. IsFiniteSet(J) /\ m[x] \notin J
        BY <3>2, <3>7
      <4> HIDE DEF J
      <4>2. IsFiniteSet(J \cup {m[x]}) /\ Cardinality(J \cup {m[x]}) = Cardinality(J) + 1
        BY <4>1, FS_AddElement
      <4> QED BY <3>2, <3>7, <4>2 DEF J
    <3>9. Im(s) \ {m[x]} = Im(r) /\ m[x] \in Im(s)
      BY <3>2
    <3>10. Total(e, Im(s)) = e[m[x]] + Total(e, Im(r))
      BY <3>4, <3>8, <3>9, TotalFacts
    <3> QED BY <3>3, <3>5, <3>6, <3>7, <3>8, <3>10
  <2> QED BY <2>1, <2>2
<1> HIDE DEF P, Im
<1>3. \A s \in SUBSET S : s \in P
  BY <1>2, SubsetInduction
<1>4. IsFiniteSet(Im(S)) /\ Total(e, Im(S)) = g[S] /\ Cardinality(Im(S)) = Cardinality(S)
  BY <1>3 DEF P
<1>5. Im(S) = I
  BY DEF Im
<1> QED BY <1>1, <1>4, <1>5

\* The sum over a product of sets, of what its second component weighs.
LEMMA TotalProduct ==
  ASSUME NEW S, IsFiniteSet(S), NEW T, IsFiniteSet(T), NEW w, \A t \in T : w[t] \in Nat,
         NEW f, \A k \in S \X T : f[k] = w[k[2]]
  PROVE  Total(f, S \X T) = Cardinality(S) * Total(w, T)
<1> DEFINE W == Total(w, T)
           P == {s \in SUBSET S : Total(f, s \X T) = Cardinality(s) * W}
<1>1. W \in Nat
  BY TotalFacts
<1>2. ASSUME NEW s \in SUBSET S, \A u \in SUBSET s : u # s => u \in P PROVE s \in P
  <2>1. CASE s = {}
    <3>1. s \X T = {} /\ Cardinality(s) = 0
      BY <2>1, FS_EmptySet
    <3>2. IsFiniteSet({})
      BY FS_EmptySet
    <3>3. Total(f, {}) = 0
      BY <3>2, TotalFacts
    <3> HIDE DEF W
    <3>4. 0 * W = 0
      BY <1>1
    <3> QED BY <3>1, <3>3, <3>4
  <2>2. CASE s # {}
    <3>1. PICK x \in s : TRUE
      BY <2>2
    <3> DEFINE r == s \ {x}
               n == Cardinality(r)
               m == [t \in T |-> <<x, t>>]
               One == {m[t] : t \in T}
    <3>2. r \in SUBSET s /\ r # s /\ x \notin r
      BY <3>1
    <3>3. IsFiniteSet(r) /\ n \in Nat /\ Cardinality(s) = n + 1
      <4>1. IsFiniteSet(s)
        BY FS_Subset
      <4>2. IsFiniteSet(r) /\ Cardinality(r) = Cardinality(s) - 1
        BY <3>1, <4>1, FS_RemoveElement
      <4> QED BY <4>1, <4>2, FS_CardinalityType
    <3>4. Total(f, r \X T) = n * W
      <4> HIDE DEF r, n, W
      <4>1. r \in P
        BY <1>2, <3>2
      <4> QED BY <4>1 DEF n
    <3>5. One = {x} \X T
      OBVIOUS
    <3>6. \A t, u \in T : m[t] = m[u] => t = u
      OBVIOUS
    <3>7. \A t \in T : f[m[t]] = w[t]
      BY <3>1
    <3> HIDE DEF m
    <3>8. IsFiniteSet(One) /\ Total(f, One) = W
      <4> DEFINE e == [t \in T |-> w[t]]
      <4>1. \A t \in T : e[t] \in Nat /\ f[m[t]] = e[t] /\ e[t] = w[t]
        BY <3>7
      <4> HIDE DEF e, W
      <4>2. (\A t \in T : m[t] \in One) /\ \A i \in One : \E t \in T : i = m[t]
        OBVIOUS
      <4> HIDE DEF One
      <4>3. IsFiniteSet(One) /\ Total(f, One) = Total(e, T)
        BY <3>6, <4>1, <4>2, TotalImage
      <4>4. Total(e, T) = Total(w, T)
        BY <4>1, TotalSame
      <4> QED BY <4>3, <4>4 DEF W
    <3>9. IsFiniteSet(r \X T)
      BY <3>3, FS_Product
    <3>10. s \X T = (r \X T) \cup One /\ (r \X T) \cap One = {}
      BY <3>1, <3>2, <3>5
    <3>11. \A k \in (r \X T) \cup One : f[k] \in Nat
      <4>1. s \X T \subseteq S \X T
        OBVIOUS
      <4>2. \A k \in S \X T : f[k] \in Nat
        OBVIOUS
      <4> QED BY <3>10, <4>1, <4>2
    <3> HIDE DEF One, r
    <3>12. Total(f, s \X T) = Total(f, r \X T) + Total(f, One)
      BY <3>8, <3>9, <3>10, <3>11, TotalUnion
    <3> HIDE DEF n, W
    <3>13. (n + 1) * W = n * W + W
      BY <1>1, <3>3
    <3>14. Total(f, s \X T) = Cardinality(s) * W
      BY <3>3, <3>4, <3>8, <3>12, <3>13
    <3> QED BY <3>14
  <2> QED BY <2>1, <2>2
<1> HIDE DEF P
<1>3. S \in P
  BY <1>2, SubsetInduction
<1> QED BY <1>3 DEF P
=============================================================================
