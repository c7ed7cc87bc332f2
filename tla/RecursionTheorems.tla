-------------------------- MODULE RecursionTheorems --------------------------
(***************************************************************************)
(* Induction over the natural numbers and the existence of recursive       *)
(* functions on an interval, stated for sets and functions instead of      *)
(* operators so that they can be cited like any other fact, and what they  *)
(* give about filtered sequences.                                          *)
(***************************************************************************)
EXTENDS Integers, FiniteSets, Filters, SequenceTheorems, FiniteSetTheorems,
        WellFoundedInduction, TLAPS

\* Every set of natural numbers that is not empty has a least element.
LEMMA LeastElement ==
  ASSUME NEW T, T \subseteq Nat, T # {}
  PROVE  \E x \in T : \A y \in T : x <= y
<1> DEFINE R == OpToRel(<, Nat)
<1>1. \E x \in T : \A y \in T : <<y, x>> \notin R
  BY NatLessThanWellFounded, WFMin
<1>2. \A x, y \in Nat : y < x => <<y, x>> \in R
  BY DEF OpToRel
<1> HIDE DEF R
<1>3. PICK x \in T : \A y \in T : <<y, x>> \notin R
  BY <1>1
<1>4. ASSUME NEW y \in T PROVE x <= y
  <2>1. x \in Nat /\ y \in Nat /\ <<y, x>> \notin R
    BY <1>3
  <2>2. ~(y < x)
    BY <1>2, <2>1
  <2> QED
    BY <2>1, <2>2
<1> QED
  BY <1>4

\* A set that contains 0 and the successor of each of its members below N
\* contains every number up to N.
LEMMA IntervalInduction ==
  ASSUME NEW N \in Nat, NEW I, 0 \in I,
         \A n \in 0..(N - 1) : n \in I => n + 1 \in I
  PROVE  0..N \subseteq I
<1> SUFFICES ASSUME (0..N) \ I # {} PROVE FALSE
  OBVIOUS
<1>1. PICK x \in (0..N) \ I : \A y \in (0..N) \ I : x <= y
  <2>1. (0..N) \ I \subseteq Nat
    OBVIOUS
  <2> QED
    BY <2>1, LeastElement
<1>2. x # 0 /\ x - 1 \in 0..(N - 1) /\ (x - 1) + 1 = x
  BY <1>1
<1>3. x - 1 \in I
  BY <1>1, <1>2
<1> QED
  BY <1>1, <1>2, <1>3

\* f follows a recursion up to n: f[0] = base, f[i] = step[<<i, f[i - 1]>>].
Follows(f, n, S, base, step) ==
  /\ f \in [0..n -> S]
  /\ f[0] = base
  /\ \A i \in 1..n : f[i] = step[<<i, f[i - 1]>>]

\* A function is defined on 0..N by its value at 0 and a step.
LEMMA RecursionExists ==
  ASSUME NEW N \in Nat, NEW S, NEW base \in S, NEW step \in [(1..N) \X S -> S]
  PROVE  \E f : Follows(f, N, S, base, step)
<1> DEFINE Good(g, n) == Follows(g, n, S, base, step)
           I == {n \in 0..N : \E g \in [0..n -> S] : Good(g, n)}
<1> USE DEF Follows
<1>1. 0 \in I
  <2> DEFINE g == [i \in 0..0 |-> base]
  <2>1. Good(g, 0)
    OBVIOUS
  <2> HIDE DEF g
  <2> QED
    BY <2>1
<1>2. ASSUME NEW n \in 0..(N - 1), n \in I PROVE n + 1 \in I
  <2>1. PICK g : Good(g, n)
    BY <1>2
  <2> DEFINE h == [i \in 0..(n + 1) |-> IF i = n + 1 THEN step[<<n + 1, g[n]>>] ELSE g[i]]
  <2>2. step[<<n + 1, g[n]>>] \in S
    <3>1. n + 1 \in 1..N /\ g[n] \in S
      BY <2>1
    <3> QED
      BY <3>1
  <2>3. h \in [0..(n + 1) -> S] /\ h[0] = base
    BY <2>1, <2>2
  <2>4. ASSUME NEW i \in 1..(n + 1) PROVE h[i] = step[<<i, h[i - 1]>>]
    <3>1. CASE i = n + 1
      <4>1. h[i] = step[<<i, g[n]>>] /\ h[n] = g[n] /\ i - 1 = n
        BY <3>1
      <4> QED
        BY <4>1
    <3>2. CASE i \in 1..n
      <4>1. h[i] = g[i] /\ h[i - 1] = g[i - 1]
        BY <3>2
      <4>2. g[i] = step[<<i, g[i - 1]>>]
        BY <2>1, <3>2
      <4> QED
        BY <4>1, <4>2
    <3> QED
      BY <3>1, <3>2
  <2>5. Good(h, n + 1)
    BY <2>3, <2>4
  <2> HIDE DEF h
  <2> QED
    BY <2>5
<1>3. 0..N \subseteq I
  <2> HIDE DEF I
  <2> QED
    BY <1>1, <1>2, IntervalInduction
<1> QED
  BY <1>3

-----------------------------------------------------------------------------
\* The filter of a sequence grows by at most one element per step.
LEMMA FilterRecursion ==
  ASSUME NEW S, NEW s \in Seq(S), NEW kept
  PROVE  LET f == FilterSteps(s, kept)
         IN  /\ f \in [0..Len(s) -> Seq(S)]
             /\ f[0] = <<>>
             /\ \A i \in 1..Len(s) :
                  f[i] = IF s[i] \in kept THEN Append(f[i - 1], s[i]) ELSE f[i - 1]
<1> DEFINE N == Len(s)
           empty == <<>>
           next(x, i) == IF s[i] \in kept THEN Append(x, s[i]) ELSE x
           step == [x \in (1..N) \X Seq(S) |->
                     next(x[2], x[1])]
           Solves(f) == f = [i \in 0..N |->
                          IF i = 0 THEN empty ELSE next(f[i - 1], i)]
           f == FilterSteps(s, kept)
<1>1. N \in Nat /\ empty \in Seq(S) /\ \A i \in 1..N : s[i] \in S
  BY LenProperties, ElementOfSeq
<1>0. \A i \in 1..N, x \in Seq(S) : next(x, i) \in Seq(S)
  BY <1>1, AppendProperties
<1> HIDE DEF empty, next
<1>2. step \in [(1..N) \X Seq(S) -> Seq(S)]
  BY <1>0
<1>3. \A n \in 1..N, x \in Seq(S) :
        step[<<n, x>>] = next(x, n)
  OBVIOUS
<1> HIDE DEF N, step
<1>4. PICK g : Follows(g, N, Seq(S), empty, step)
  BY <1>1, <1>2, RecursionExists
<1>5. ASSUME NEW n \in 1..N
      PROVE  g[n] = next(g[n - 1], n)
  <2>1. n - 1 \in 0..N
    BY <1>1
  <2>2. g[n - 1] \in Seq(S)
    BY <1>4, <2>1 DEF Follows
  <2> QED
    BY <1>3, <1>4, <2>2 DEF Follows
<1>6. Solves(g)
  <2>1. DOMAIN g = 0..N /\ g = [i \in 0..N |-> g[i]]
    BY <1>4 DEF Follows
  <2>2. \A i \in 0..N :
          g[i] = IF i = 0 THEN empty ELSE next(g[i - 1], i)
    <3>1. \A i \in 0..N : i = 0 \/ i \in 1..N
      BY <1>1
    <3> QED
      BY <1>4, <1>5, <3>1 DEF Follows
  <2> QED
    BY <2>1, <2>2
<1>7. Solves(f)
  <2>1. f = CHOOSE h : Solves(h)
    BY DEF FilterSteps, N, empty, next
  <2> HIDE DEF Solves, f
  <2> QED
    BY <1>6, <2>1
<1> HIDE DEF f
<1>8. DOMAIN f = 0..N /\ f[0] = empty /\ f = [i \in 0..N |-> f[i]]
  BY <1>1, <1>7
<1>9. ASSUME NEW i \in 1..N
      PROVE  f[i] = next(f[i - 1], i)
  <2>1. i \in 0..N /\ i # 0
    BY <1>1
  <2> QED
    BY <1>7, <2>1
<1> HIDE DEF Solves
<1>10. \A i \in 0..N : f[i] \in Seq(S)
  <2> DEFINE I == {i \in 0..N : f[i] \in Seq(S)}
  <2>1. 0 \in I
    BY <1>1, <1>8
  <2>2. ASSUME NEW n \in 0..(N - 1), n \in I PROVE n + 1 \in I
    <3>1. n + 1 \in 1..N /\ n + 1 \in 0..N /\ (n + 1) - 1 = n
      BY <1>1
    <3>2. f[n + 1] = next(f[n], n + 1)
      BY <1>9, <3>1
    <3> QED
      BY <1>0, <2>2, <3>1, <3>2
  <2> HIDE DEF I
  <2>3. 0..N \subseteq I
    BY <1>1, <2>1, <2>2, IntervalInduction
  <2> QED
    BY <2>3 DEF I
<1>11. f \in [0..N -> Seq(S)]
  BY <1>8, <1>10
<1> QED
  BY <1>8, <1>9, <1>11 DEF f, N, empty, next

\* What a filter keeps of the first i elements of s.
FilterHolds(f, s, kept, i) ==
  /\ \A k \in 1..Len(f[i]) : \E j \in 1..i : f[i][k] = s[j] /\ s[j] \in kept
  /\ \A j \in 1..i : s[j] \in kept => \E k \in 1..Len(f[i]) : f[i][k] = s[j]
  /\ (\A j, k \in 1..Len(s) : s[j] = s[k] => j = k) =>
       \A j, k \in 1..Len(f[i]) : f[i][j] = f[i][k] => j = k

\* By induction over the list, it holds of the whole of it.
LEMMA FilterHoldsOfAll ==
  ASSUME NEW S, NEW s \in Seq(S), NEW kept, NEW i \in 0..Len(s)
  PROVE  FilterHolds(FilterSteps(s, kept), s, kept, i)
<1> DEFINE f == FilterSteps(s, kept)
           N == Len(s)
           I == {n \in 0..N : FilterHolds(f, s, kept, n)}
<1>1. /\ f \in [0..N -> Seq(S)] /\ Len(f[0]) = 0
      /\ \A n \in 1..N : f[n] = IF s[n] \in kept THEN Append(f[n - 1], s[n]) ELSE f[n - 1]
  BY FilterRecursion, EmptySeq
<1>2. N \in Nat /\ \A n \in 1..N : s[n] \in S
  BY LenProperties, ElementOfSeq
<1> HIDE DEF f, N
<1>3. FilterHolds(f, s, kept, 0)
  BY <1>1 DEF FilterHolds
<1>4. ASSUME NEW n \in 0..(N - 1), FilterHolds(f, s, kept, n)
      PROVE  FilterHolds(f, s, kept, n + 1)
  <2> DEFINE before == f[n]
             after == f[n + 1]
             x == s[n + 1]
  <2>1. n + 1 \in 1..N /\ (n + 1) - 1 = n /\ before \in Seq(S) /\ x \in S
    BY <1>1, <1>2
  <2>2. after = IF x \in kept THEN Append(before, x) ELSE before
    BY <1>1, <2>1
  <2>3. CASE x \notin kept
    <3>1. after = before
      BY <2>2, <2>3
    <3>2. \A j \in 1..(n + 1) : j \in 1..n \/ j = n + 1
      OBVIOUS
    <3> QED
      BY <1>4, <2>3, <3>1, <3>2 DEF FilterHolds
  <2>4. CASE x \in kept
    <3> DEFINE L == Len(before)
    <3>1. /\ Len(after) = L + 1 /\ L \in Nat
          /\ \A k \in 1..L : after[k] = before[k]
          /\ after[L + 1] = x
      BY <2>1, <2>2, <2>4, AppendProperties, LenProperties
    <3>2. /\ \A k \in 1..L : \E j \in 1..n : before[k] = s[j] /\ s[j] \in kept
          /\ \A j \in 1..n : s[j] \in kept => \E k \in 1..L : before[k] = s[j]
          /\ (\A j, k \in 1..N : s[j] = s[k] => j = k) =>
               \A j, k \in 1..L : before[j] = before[k] => j = k
      BY <1>4 DEF FilterHolds, N
    <3> HIDE DEF before, after, x, L
    <3>3. \A k \in 1..(L + 1) : k \in 1..L \/ k = L + 1
      BY <3>1
    <3>4. \A k \in 1..(L + 1) : \E j \in 1..(n + 1) : after[k] = s[j] /\ s[j] \in kept
      <4>1. after[L + 1] = s[n + 1] /\ s[n + 1] \in kept /\ n + 1 \in 1..(n + 1)
        BY <2>4, <3>1 DEF x
      <4>2. ASSUME NEW k \in 1..L PROVE \E j \in 1..(n + 1) : after[k] = s[j] /\ s[j] \in kept
        <5>1. PICK j \in 1..n : before[k] = s[j] /\ s[j] \in kept
          BY <3>2
        <5>2. after[k] = s[j] /\ s[j] \in kept /\ j \in 1..(n + 1)
          BY <3>1, <5>1
        <5> QED
          BY <5>2
      <4> QED
        BY <3>3, <4>1, <4>2
    <3>5. \A j \in 1..(n + 1) : s[j] \in kept => \E k \in 1..(L + 1) : after[k] = s[j]
      <4>1. \A j \in 1..(n + 1) : j \in 1..n \/ j = n + 1
        OBVIOUS
      <4> QED
        BY <3>1, <3>2, <4>1 DEF x
    <3>6. ASSUME \A j, k \in 1..N : s[j] = s[k] => j = k,
                 NEW j \in 1..(L + 1), NEW k \in 1..(L + 1), after[j] = after[k]
          PROVE  j = k
      <4>1. ASSUME NEW m \in 1..L PROVE after[m] # x
        <5>1. PICK q \in 1..n : before[m] = s[q]
          BY <3>2
        <5>2. q \in 1..N /\ q # n + 1
          BY <1>2, <2>1
        <5> QED
          BY <2>1, <3>1, <3>6, <5>1, <5>2 DEF x
      <4> QED
        BY <3>1, <3>2, <3>3, <3>6, <4>1
    <3> QED
      BY <3>1, <3>4, <3>5, <3>6 DEF FilterHolds, after, N
  <2> QED
    BY <2>3, <2>4
<1>5. 0..N \subseteq I
  <2>1. 0 \in I /\ \A n \in 0..(N - 1) : n \in I => n + 1 \in I
    BY <1>2, <1>3, <1>4
  <2> HIDE DEF I
  <2> QED
    BY <1>2, <2>1, IntervalInduction
<1> QED
  BY <1>5 DEF f, N

\* A filtered sequence has the elements that are kept, each as often as before.
LEMMA FilterProperties ==
  ASSUME NEW S, NEW s \in Seq(S), NEW kept
  PROVE  /\ Filter(s, kept) \in Seq(S)
         /\ \A k \in 1..Len(Filter(s, kept)) :
              \E i \in 1..Len(s) : Filter(s, kept)[k] = s[i] /\ s[i] \in kept
         /\ \A i \in 1..Len(s) :
              s[i] \in kept => \E k \in 1..Len(Filter(s, kept)) : Filter(s, kept)[k] = s[i]
<1>1. Len(s) \in 0..Len(s)
  BY LenProperties
<1>2. FilterSteps(s, kept) \in [0..Len(s) -> Seq(S)]
  BY FilterRecursion
<1>3. FilterHolds(FilterSteps(s, kept), s, kept, Len(s))
  BY <1>1, FilterHoldsOfAll
<1> QED
  BY <1>1, <1>2, <1>3 DEF Filter, FilterHolds

\* A filter of a sequence without repetition repeats nothing.
LEMMA FilterIsInjective ==
  ASSUME NEW S, NEW s \in Seq(S), NEW kept,
         \A j, k \in 1..Len(s) : s[j] = s[k] => j = k
  PROVE  \A j, k \in 1..Len(Filter(s, kept)) :
           Filter(s, kept)[j] = Filter(s, kept)[k] => j = k
<1>1. Len(s) \in 0..Len(s)
  BY LenProperties
<1>2. FilterHolds(FilterSteps(s, kept), s, kept, Len(s))
  BY <1>1, FilterHoldsOfAll
<1> QED
  BY <1>2 DEF Filter, FilterHolds

\* A filter makes no sequence longer.
LEMMA FilterIsNoLonger ==
  ASSUME NEW S, NEW s \in Seq(S), NEW kept
  PROVE  Len(Filter(s, kept)) \in 0..Len(s)
<1> DEFINE f == FilterSteps(s, kept)
           N == Len(s)
           size(i) == Len(f[i])
           I == {i \in 0..N : size(i) \in 0..i}
<1>1. /\ f \in [0..N -> Seq(S)] /\ size(0) = 0
      /\ \A n \in 1..N : f[n] = IF s[n] \in kept THEN Append(f[n - 1], s[n]) ELSE f[n - 1]
  BY FilterRecursion, EmptySeq
<1>2. N \in Nat /\ \A n \in 1..N : s[n] \in S
  BY LenProperties, ElementOfSeq
<1> HIDE DEF f, N
<1>3. ASSUME NEW n \in 0..(N - 1), n \in I PROVE n + 1 \in I
  <2>1. n + 1 \in 1..N /\ (n + 1) - 1 = n /\ n + 1 \in 0..N /\ f[n] \in Seq(S)
    BY <1>1, <1>2
  <2>2. size(n + 1) = size(n) + 1 \/ size(n + 1) = size(n)
    <3>1. f[n + 1] = IF s[n + 1] \in kept THEN Append(f[n], s[n + 1]) ELSE f[n]
      BY <1>1, <2>1
    <3>2. Len(Append(f[n], s[n + 1])) = Len(f[n]) + 1
      BY <1>2, <2>1, AppendProperties
    <3> QED
      BY <3>1, <3>2
  <2>3. size(n) \in 0..n
    BY <1>3
  <2> HIDE DEF size
  <2>4. size(n + 1) \in 0..(n + 1)
    BY <2>2, <2>3
  <2> QED
    BY <2>1, <2>4
<1>4. 0..N \subseteq I
  <2>1. 0 \in I
    BY <1>1, <1>2
  <2> HIDE DEF I
  <2> QED
    BY <1>2, <1>3, <2>1, IntervalInduction
<1>5. size(N) \in 0..N
  BY <1>2, <1>4
<1> QED
  BY <1>5 DEF Filter, f, N
=============================================================================
