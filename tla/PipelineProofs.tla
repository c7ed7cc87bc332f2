--------------------------- MODULE PipelineProofs ---------------------------
(***************************************************************************)
(* Proofs about the two pipelines.  First Kahn's algorithm, for every      *)
(* list of nodes and of links: it ends, what it returns is a topological   *)
(* order, and it misses no graph that has one.  Then, on top of that, the  *)
(* invariant of the block engine, for every set of graphs and both bounds. *)
(* Last the story pipeline: the cut of an article of any length, what it   *)
(* means for the crossfades, and the invariant of a run.                   *)
(***************************************************************************)
EXTENDS BlockEngine, StoryPipeline, RecursionTheorems

IsLinkList(g) == Len(g) \in Nat /\ DOMAIN g = 1..Len(g)

Elements(q) == {q[k] : k \in 1..Len(q)}

NoRepetition(q) == \A j, k \in 1..Len(q) : q[j] = q[k] => j = k

\* A sequence without repetition is as long as the set of its elements.
LEMMA LengthIsCardinality ==
  ASSUME NEW S, IsFiniteSet(S), NEW q \in Seq(S), NoRepetition(q)
  PROVE  /\ Len(q) <= Cardinality(S)
         /\ Len(q) = Cardinality(S) <=> Elements(q) = S
<1> DEFINE N == Len(q)
<1>1. N \in Nat /\ q \in [1..N -> S]
  BY LenProperties
<1>2. q \in Injection(1..N, S)
  BY <1>1 DEF NoRepetition, Injection, IsInjective
<1>3. Cardinality(1..N) = N
  BY <1>1, FS_Interval
<1>4. N <= Cardinality(S) /\ (N = Cardinality(S) <=> q \in Surjection(1..N, S))
  BY <1>2, <1>3, FS_Injection
<1>5. q \in Surjection(1..N, S) <=> Elements(q) = S
  BY <1>1 DEF Surjection, Elements
<1> QED
  BY <1>4, <1>5

\* A filtered list has the elements that are kept, and repeats none if the list
\* does not.
LEMMA FilterElements ==
  ASSUME NEW S, NEW q \in Seq(S), NEW kept
  PROVE  /\ Filter(q, kept) \in Seq(S)
         /\ Elements(Filter(q, kept)) = Elements(q) \cap kept
         /\ NoRepetition(q) => NoRepetition(Filter(q, kept))
<1> DEFINE f == Filter(q, kept)
<1>1. /\ f \in Seq(S)
      /\ \A k \in 1..Len(f) : \E i \in 1..Len(q) : f[k] = q[i] /\ q[i] \in kept
      /\ \A i \in 1..Len(q) : q[i] \in kept => \E k \in 1..Len(f) : f[k] = q[i]
  BY FilterProperties
<1>2. NoRepetition(q) => NoRepetition(f)
  BY FilterIsInjective DEF NoRepetition
<1> HIDE DEF f
<1>3. \A x \in Elements(f) : x \in Elements(q) \cap kept
  BY <1>1 DEF Elements
<1>4. \A x \in Elements(q) \cap kept : x \in Elements(f)
  BY <1>1 DEF Elements
<1>5. Elements(f) = Elements(q) \cap kept
  BY <1>3, <1>4
<1> QED
  BY <1>1, <1>2, <1>5 DEF f

\* A list after another one has the elements of both.
LEMMA ConcatElements ==
  ASSUME NEW S, NEW p \in Seq(S), NEW q \in Seq(S)
  PROVE  /\ p \o q \in Seq(S) /\ Elements(p \o q) = Elements(p) \cup Elements(q)
         /\ NoRepetition(p) /\ NoRepetition(q) /\ Elements(p) \cap Elements(q) = {}
              => NoRepetition(p \o q)
<1> DEFINE c == p \o q
           L == Len(p)
           M == Len(q)
<1>1. /\ c \in Seq(S) /\ L \in Nat /\ M \in Nat /\ Len(c) = L + M
      /\ \A i \in 1..(L + M) : c[i] = IF i <= L THEN p[i] ELSE q[i - L]
  BY ConcatProperties, LenProperties
<1> HIDE DEF c
<1>2. /\ \A i \in 1..L : i \in 1..(L + M) /\ c[i] = p[i] /\ p[i] \in Elements(p)
      /\ \A i \in 1..M : L + i \in 1..(L + M) /\ c[L + i] = q[i] /\ q[i] \in Elements(q)
      /\ \A k \in 1..(L + M) : k \in 1..L \/ (k - L \in 1..M /\ k = L + (k - L))
  <2>1. \A i \in 1..L : i \in 1..(L + M) /\ c[i] = p[i]
    BY <1>1
  <2>2. ASSUME NEW i \in 1..M PROVE L + i \in 1..(L + M) /\ c[L + i] = q[i]
    <3>1. L + i \in 1..(L + M) /\ ~(L + i <= L) /\ (L + i) - L = i
      BY <1>1
    <3> QED
      BY <1>1, <3>1
  <2>3. \A k \in 1..(L + M) : k \in 1..L \/ (k - L \in 1..M /\ k = L + (k - L))
    BY <1>1
  <2> QED
    BY <2>1, <2>2, <2>3 DEF Elements
<1> HIDE DEF L, M
<1>3. ASSUME NEW x \in Elements(c) PROVE x \in Elements(p) \cup Elements(q)
  <2>1. PICK k \in 1..(L + M) : x = c[k]
    BY <1>1 DEF Elements
  <2>2. CASE k \in 1..L
    BY <1>2, <2>1, <2>2
  <2>3. CASE k - L \in 1..M /\ k = L + (k - L)
    BY <1>2, <2>1, <2>3
  <2> QED
    BY <1>2, <2>2, <2>3
<1>4. \A x \in Elements(p) : x \in Elements(c)
  BY <1>1, <1>2 DEF Elements, L
<1>5. ASSUME NEW x \in Elements(q) PROVE x \in Elements(c)
  <2>1. PICK i \in 1..M : x = q[i]
    BY DEF Elements, M
  <2>2. L + i \in 1..(L + M) /\ c[L + i] = x
    BY <1>2, <2>1
  <2> QED
    BY <1>1, <2>2 DEF Elements
<1>6. ASSUME NoRepetition(p), NoRepetition(q), Elements(p) \cap Elements(q) = {}
      PROVE  NoRepetition(c)
  <2>1. /\ \A j, k \in 1..L : p[j] = p[k] => j = k
        /\ \A j, k \in 1..M : q[j] = q[k] => j = k
        /\ \A j \in 1..L, k \in 1..M : p[j] # q[k]
    BY <1>2, <1>6 DEF NoRepetition, L, M
  <2>2. ASSUME NEW j \in 1..(L + M), NEW k \in 1..(L + M), c[j] = c[k] PROVE j = k
    <3>1. CASE j \in 1..L /\ k \in 1..L
      BY <1>2, <2>1, <2>2, <3>1
    <3>2. CASE j \in 1..L /\ k - L \in 1..M /\ k = L + (k - L)
      BY <1>2, <2>1, <2>2, <3>2
    <3>3. CASE k \in 1..L /\ j - L \in 1..M /\ j = L + (j - L)
      BY <1>2, <2>1, <2>2, <3>3
    <3>4. CASE j - L \in 1..M /\ j = L + (j - L) /\ k - L \in 1..M /\ k = L + (k - L)
      <4>1. c[j] = q[j - L] /\ c[k] = q[k - L]
        BY <1>2, <3>4
      <4>2. j - L = k - L
        BY <2>1, <2>2, <3>4, <4>1
      <4> QED
        BY <3>4, <4>2
    <3> QED
      BY <1>2, <3>1, <3>2, <3>3, <3>4
  <2> QED
    BY <1>1, <2>2 DEF NoRepetition
<1> QED
  BY <1>1, <1>3, <1>4, <1>5, <1>6 DEF c

\* A set of numbers up to N that is not empty has a greatest element.
LEMMA GreatestElement ==
  ASSUME NEW N \in Nat, NEW T, T \subseteq 1..N, T # {}
  PROVE  \E x \in T : \A y \in T : y <= x
<1> DEFINE U == {N - x : x \in T}
<1>1. U \subseteq Nat /\ U # {}
  <2>1. \A x \in T : x \in 1..N /\ N - x \in Nat
    OBVIOUS
  <2> QED
    BY <2>1
<1>2. PICK u \in U : \A w \in U : u <= w
  <2> HIDE DEF U
  <2> QED
    BY <1>1, LeastElement
<1>3. PICK x \in T : u = N - x
  BY <1>2
<1>4. \A y \in T : N - x <= N - y
  BY <1>2, <1>3
<1>5. \A y \in T : y <= x
  BY <1>4
<1> QED
  BY <1>5

\* The list of nodes names each of finitely many nodes once.
LEMMA NodeFacts ==
  /\ NodeList \in Seq(Ids) /\ NoRepetition(NodeList) /\ Elements(NodeList) = Ids
  /\ IsFiniteSet(Ids) /\ Len(NodeList) \in Nat /\ Cardinality(Ids) = Len(NodeList)
<1> DEFINE N == Len(NodeList)
<1>1. NodeList \in Seq(Ids) /\ NoRepetition(NodeList) /\ Elements(NodeList) = Ids
  BY NodeListAssumption DEF NoRepetition, Elements, Ids
<1>2. N \in Nat /\ NodeList \in [1..N -> Ids]
  BY <1>1, LenProperties
<1>3. NodeList \in Injection(1..N, Ids) /\ NodeList \in Surjection(1..N, Ids)
  BY <1>1, <1>2 DEF NoRepetition, Elements, Injection, IsInjective, Surjection
<1>4. IsFiniteSet(1..N) /\ Cardinality(1..N) = N
  BY <1>2, FS_Interval
<1>5. IsFiniteSet(Ids) /\ Cardinality(Ids) = N
  BY <1>3, <1>4, FS_Surjection
<1> QED
  BY <1>1, <1>2, <1>5

\* Links and keys of in_degree are finitely many.
LEMMA KeyFacts ==
  ASSUME NEW g, IsLinkList(g)
  PROVE  /\ IsFiniteSet(DOMAIN g) /\ IsFiniteSet(Keys(g)) /\ Ids \subseteq Keys(g)
         /\ \A i \in DOMAIN g : Target(g, i) \in Keys(g)
<1> DEFINE T == {Target(g, i) : i \in DOMAIN g}
           f == [i \in DOMAIN g |-> Target(g, i)]
<1>1. IsFiniteSet(DOMAIN g)
  BY FS_Interval DEF IsLinkList
<1>2. f \in Surjection(DOMAIN g, T)
  BY DEF Surjection
<1>3. IsFiniteSet(T)
  BY <1>1, <1>2, FS_Surjection
<1>4. IsFiniteSet(Keys(g))
  BY <1>3, NodeFacts, FS_Union DEF Keys
<1> QED
  BY <1>1, <1>4 DEF Keys

-----------------------------------------------------------------------------
(* The loop invariant of the sort.                                         *)

\* The links to m whose source is not in the result yet.
Pending(g, s, m) ==
  {i \in DOMAIN g : Target(g, i) = m /\ Source(g, i) \notin Elements(s.result)}

\* A node is listed after every node that has a link to it.
ListedInOrder(g, listed) ==
  \A b \in 1..Len(listed) : \A i \in DOMAIN g :
    Target(g, i) = listed[b] => \E a \in 1..(b - 1) : listed[a] = Source(g, i)

KahnInv(g, s) ==
  /\ s \in SortStates(g)
  /\ NoRepetition(s.result) /\ NoRepetition(s.queue)
  /\ Elements(s.result) \cap Elements(s.queue) = {}
  /\ \A m \in Keys(g) : s.degree[m] = Cardinality(Pending(g, s, m))
  /\ \A m \in Keys(g) :
       s.degree[m] = 0 <=> m \in Elements(s.result) \cup Elements(s.queue)
  /\ ListedInOrder(g, s.result)

\* The links a node still waits for can be counted.
LEMMA PendingIsFinite ==
  ASSUME NEW g, IsLinkList(g), NEW s, NEW m
  PROVE  /\ IsFiniteSet(Pending(g, s, m)) /\ Cardinality(Pending(g, s, m)) \in Nat
         /\ Cardinality(Pending(g, s, m)) = 0 <=> Pending(g, s, m) = {}
<1>1. Pending(g, s, m) \in SUBSET (DOMAIN g)
  BY DEF Pending
<1>2. IsFiniteSet(Pending(g, s, m))
  BY <1>1, KeyFacts, FS_Subset
<1> QED
  BY <1>2, FS_CardinalityType, FS_EmptySet

\* The invariant of the sort holds before the loop.
LEMMA SortStartHolds ==
  ASSUME NEW g, IsLinkList(g)
  PROVE  KahnInv(g, SortStart(g))
<1> DEFINE s == SortStart(g)
           ready == {n \in Ids : InDegree(g)[n] = 0}
<1>1. s.degree = InDegree(g) /\ s.queue = Filter(NodeList, ready) /\ s.result = <<>>
  BY DEF SortStart
<1>2. /\ s.result \in Seq(Keys(g)) /\ Len(s.result) = 0 /\ Elements(s.result) = {}
      /\ NoRepetition(s.result) /\ ListedInOrder(g, s.result)
  <2>1. s.result \in Seq(Keys(g)) /\ Len(s.result) = 0
    BY <1>1, EmptySeq
  <2> QED
    BY <2>1 DEF Elements, NoRepetition, ListedInOrder
<1>3. s.queue \in Seq(Ids) /\ NoRepetition(s.queue)
  BY <1>1, NodeFacts, FilterElements
<1>4. s.queue \in Seq(Keys(g))
  BY <1>3, KeyFacts, SeqMonotonic
<1>5. Elements(s.queue) = ready
  <2>1. Elements(s.queue) = Ids \cap ready
    BY <1>1, NodeFacts, FilterElements
  <2> QED
    BY <2>1
<1>6. ASSUME NEW m \in Keys(g)
      PROVE  /\ s.degree[m] = Cardinality(Pending(g, s, m)) /\ s.degree[m] \in Nat
             /\ s.degree[m] = 0 <=> m \in Elements(s.queue)
  <2>1. Pending(g, s, m) = {i \in DOMAIN g : Target(g, i) = m}
    BY <1>2 DEF Pending
  <2>2. s.degree[m] = Cardinality(Pending(g, s, m))
    BY <1>1, <2>1 DEF InDegree
  <2>3. m \in Ids \/ Pending(g, s, m) # {}
    BY <2>1 DEF Keys
  <2>4. s.degree[m] = 0 => m \in Ids
    BY <2>2, <2>3, PendingIsFinite
  <2> QED
    BY <1>1, <1>5, <2>2, <2>4, PendingIsFinite
<1>7. s \in SortStates(g)
  <2>1. s.degree \in [Keys(g) -> Int]
    <3>1. s.degree = [m \in Keys(g) |-> s.degree[m]]
      BY <1>1 DEF InDegree
    <3>2. \A m \in Keys(g) : s.degree[m] \in Int
      BY <1>6
    <3> QED
      BY <3>1, <3>2
  <2> QED
    BY <1>2, <1>4, <2>1 DEF SortStart, SortStates
<1> HIDE DEF s
<1>8. Elements(s.result) \cap Elements(s.queue) = {}
  BY <1>2
<1>9. \A m \in Keys(g) :
        s.degree[m] = 0 <=> m \in Elements(s.result) \cup Elements(s.queue)
  BY <1>2, <1>6
<1>10. KahnInv(g, s)
  BY <1>2, <1>3, <1>6, <1>7, <1>8, <1>9 DEF KahnInv
<1> QED
  BY <1>10 DEF s

\* One round of the loop keeps the invariant and lists one node more.
LEMMA VisitHolds ==
  ASSUME NEW g, IsLinkList(g), NEW s, KahnInv(g, s), s.queue # <<>>
  PROVE  KahnInv(g, Visit(g, s)) /\ Len(Visit(g, s).result) = Len(s.result) + 1
<1> DEFINE n == Head(s.queue)
           between(m) == {i \in DOMAIN g : Source(g, i) = n /\ Target(g, i) = m}
           degree == [m \in Keys(g) |-> s.degree[m] - Cardinality(between(m))]
           frees(i) == /\ Source(g, i) = n
                       /\ degree[Target(g, i)] = 0
                       /\ \A k \in between(Target(g, i)) : k <= i
           freeing == {i \in DOMAIN g : frees(i)}
           freed == Filter([i \in DOMAIN g |-> i], freeing)
           added == [k \in DOMAIN freed |-> Target(g, freed[k])]
           v == Visit(g, s)
           Listed == Elements(s.result)
           Waiting == Elements(s.queue)
<1>1. v = [degree |-> degree, queue |-> Tail(s.queue) \o added,
           result |-> Append(s.result, n)]
  BY DEF Visit
<1>2. v.degree = degree /\ v.queue = Tail(s.queue) \o added /\ v.result = Append(s.result, n)
  <2> HIDE DEF v, degree, added, n
  <2> QED
    BY <1>1
<1>3. /\ s.queue \in Seq(Keys(g)) /\ s.result \in Seq(Keys(g))
      /\ s.degree \in [Keys(g) -> Int]
      /\ \A m \in Keys(g) : s.degree[m] = Cardinality(Pending(g, s, m))
      /\ \A m \in Keys(g) : s.degree[m] = 0 <=> m \in Listed \cup Waiting
      /\ NoRepetition(s.result) /\ NoRepetition(s.queue) /\ Listed \cap Waiting = {}
  BY DEF KahnInv, SortStates
<1>4. /\ n \in Keys(g) /\ n = s.queue[1] /\ Len(s.queue) \in Nat \ {0}
      /\ Tail(s.queue) \in Seq(Keys(g)) /\ Len(Tail(s.queue)) = Len(s.queue) - 1
      /\ \A i \in 1..Len(Tail(s.queue)) : Tail(s.queue)[i] = s.queue[i + 1]
  BY <1>3, HeadTailProperties, EmptySeq
<1>5. n \in Waiting /\ n \notin Listed /\ s.degree[n] = 0
  <2>1. n \in Waiting
    BY <1>4 DEF Elements
  <2> QED
    BY <1>3, <1>4, <2>1
<1>6. Elements(Tail(s.queue)) = Waiting \ {n} /\ NoRepetition(Tail(s.queue))
  <2> DEFINE q == s.queue
             t == Tail(s.queue)
  <2>1. /\ n = q[1] /\ Len(q) \in Nat \ {0} /\ Len(t) = Len(q) - 1
        /\ \A i \in 1..Len(t) : t[i] = q[i + 1] /\ i + 1 \in 1..Len(q)
    BY <1>4
  <2>2. \A j, k \in 1..Len(q) : q[j] = q[k] => j = k
    BY <1>3 DEF NoRepetition
  <2> HIDE DEF q, t, n
  <2>3. \A j, k \in 1..Len(t) : t[j] = t[k] => j = k
    BY <2>1, <2>2
  <2>4. \A x \in Elements(t) : x \in Elements(q) /\ x # n
    BY <2>1, <2>2 DEF Elements
  <2>5. ASSUME NEW x \in Elements(q), x # n PROVE x \in Elements(t)
    <3>1. PICK k \in 1..Len(q) : x = q[k]
      BY DEF Elements
    <3>2. k # 1 /\ k - 1 \in 1..Len(t) /\ (k - 1) + 1 = k
      BY <2>1, <2>5, <3>1
    <3>3. t[k - 1] = x
      BY <2>1, <3>1, <3>2
    <3> QED
      BY <3>2, <3>3 DEF Elements
  <2> QED
    BY <2>3, <2>4, <2>5 DEF NoRepetition, q, t
<1>7. /\ v.result \in Seq(Keys(g)) /\ Len(v.result) = Len(s.result) + 1
      /\ \A k \in 1..Len(s.result) : v.result[k] = s.result[k]
      /\ v.result[Len(s.result) + 1] = n
      /\ Len(s.result) \in Nat
  BY <1>2, <1>3, <1>4, AppendProperties, LenProperties
<1>8. Elements(v.result) = Listed \cup {n} /\ NoRepetition(v.result)
  <2> DEFINE r == s.result
             w == v.result
             L == Len(s.result)
  <2>1. /\ Len(w) = L + 1 /\ L \in Nat /\ w[L + 1] = n
        /\ \A k \in 1..L : w[k] = r[k]
        /\ \A k \in 1..(L + 1) : k \in 1..L \/ k = L + 1
        /\ \A k \in 1..L : k \in 1..(L + 1)
        /\ L + 1 \in 1..(L + 1)
    BY <1>7
  <2>2. \A j, k \in 1..L : r[j] = r[k] => j = k
    BY <1>3 DEF NoRepetition
  <2>3. \A k \in 1..L : r[k] # n
    BY <1>5 DEF Elements
  <2> HIDE DEF r, w, n, v
  <2>4. \A j, k \in 1..Len(w) : w[j] = w[k] => j = k
    BY <2>1, <2>2, <2>3
  <2>5. \A x \in Elements(w) : x \in Elements(r) \cup {n}
    BY <2>1 DEF Elements, L, r
  <2>6. \A x \in Elements(r) \cup {n} : x \in Elements(w)
    BY <2>1 DEF Elements, L, r
  <2> QED
    BY <2>4, <2>5, <2>6 DEF NoRepetition, r, w
<1>9. /\ freed \in Seq(DOMAIN g) /\ Elements(freed) = freeing /\ NoRepetition(freed)
      /\ Len(freed) \in Nat /\ DOMAIN freed = 1..Len(freed)
  <2> DEFINE all == [i \in DOMAIN g |-> i]
  <2>1. all \in Seq(DOMAIN g) /\ Len(all) = Len(g)
    BY DEF IsLinkList
  <2>2. NoRepetition(all) /\ Elements(all) = DOMAIN g
    BY <2>1 DEF NoRepetition, Elements, IsLinkList
  <2> HIDE DEF all, freeing
  <2>3. /\ Filter(all, freeing) \in Seq(DOMAIN g)
        /\ Elements(Filter(all, freeing)) = DOMAIN g \cap freeing
        /\ NoRepetition(Filter(all, freeing))
    BY <2>1, <2>2, FilterElements
  <2>4. DOMAIN g \cap freeing = freeing
    BY DEF freeing
  <2> QED
    BY <2>3, <2>4, LenProperties DEF all
<1>10. /\ added \in Seq(Keys(g)) /\ NoRepetition(added)
       /\ \A m : m \in Elements(added) <=> \E i \in freeing : Target(g, i) = m
  <2> DEFINE L == Len(freed)
             isLast(i) == \A k \in between(Target(g, i)) : k <= i
  <2>1. /\ DOMAIN freed = 1..L /\ L \in Nat
        /\ \A k \in 1..L : freed[k] \in freeing
        /\ \A i \in freeing : \E k \in 1..L : freed[k] = i
        /\ \A j, k \in 1..L : freed[j] = freed[k] => j = k
    BY <1>9 DEF Elements, NoRepetition
  <2>2. \A i \in freeing : i \in DOMAIN g /\ Source(g, i) = n /\ isLast(i)
    OBVIOUS
  <2> HIDE DEF freeing, freed, isLast
  <2>3. \A k \in 1..L : freed[k] \in DOMAIN g /\ Target(g, freed[k]) \in Keys(g)
    BY <2>1, <2>2, KeyFacts
  <2>4. /\ added \in Seq(Keys(g)) /\ Len(added) = L
        /\ \A k \in 1..L : added[k] = Target(g, freed[k])
    BY <2>1, <2>3
  <2> HIDE DEF added, L
  <2>5. ASSUME NEW j \in 1..L, NEW k \in 1..L, added[j] = added[k] PROVE j = k
    <3> DEFINE a == freed[j]
               b == freed[k]
    <3>1. a \in freeing /\ b \in freeing /\ Target(g, a) = Target(g, b)
      BY <2>1, <2>4, <2>5
    <3>2. a \in DOMAIN g /\ b \in DOMAIN g /\ Source(g, a) = n /\ Source(g, b) = n
      BY <2>2, <3>1
    <3>3. a \in between(Target(g, b)) /\ b \in between(Target(g, a)) /\ a \in Int /\ b \in Int
      BY <3>1, <3>2 DEF IsLinkList
    <3>4. a <= b /\ b <= a
      <4>1. isLast(a) /\ isLast(b)
        BY <2>2, <3>1
      <4> QED
        BY <3>3, <4>1 DEF isLast
    <3>5. a = b
      BY <3>3, <3>4
    <3> QED
      BY <2>1, <3>5
  <2>6. ASSUME NEW m, m \in Elements(added) PROVE \E i \in freeing : Target(g, i) = m
    BY <2>1, <2>4, <2>6 DEF Elements
  <2>7. ASSUME NEW m, NEW i \in freeing, Target(g, i) = m PROVE m \in Elements(added)
    BY <2>1, <2>4, <2>7 DEF Elements
  <2> QED
    BY <2>4, <2>5, <2>6, <2>7 DEF NoRepetition
<1>11. ASSUME NEW m \in Keys(g)
       PROVE  /\ degree[m] = Cardinality(Pending(g, v, m)) /\ degree[m] \in Nat
              /\ between(m) \subseteq Pending(g, s, m)
              /\ Pending(g, v, m) = Pending(g, s, m) \ between(m)
  <2> DEFINE P == Pending(g, s, m)
             B == between(m)
             R == Pending(g, v, m)
  <2>1. B \subseteq P
    BY <1>5 DEF Pending
  <2>2. R = P \ B
    BY <1>8 DEF Pending
  <2>3. IsFiniteSet(P) /\ Cardinality(R) \in Nat
    BY PendingIsFinite
  <2>4. P \cap B = B
    BY <2>1
  <2>5. Cardinality(R) = Cardinality(P) - Cardinality(B)
    BY <2>2, <2>3, <2>4, FS_Difference
  <2>6. degree[m] = Cardinality(P) - Cardinality(B)
    BY <1>3
  <2> QED
    BY <2>1, <2>2, <2>3, <2>5, <2>6
<1>12. ASSUME NEW m \in Keys(g)
       PROVE  m \in Elements(added) <=> (between(m) # {} /\ degree[m] = 0)
  <2>1. ASSUME NEW i \in freeing, Target(g, i) = m
        PROVE  between(m) # {} /\ degree[m] = 0
    <3>1. i \in between(m) /\ degree[Target(g, i)] = 0
      BY <2>1
    <3> QED
      BY <2>1, <3>1
  <2>2. ASSUME between(m) # {}, degree[m] = 0
        PROVE  \E i \in freeing : Target(g, i) = m
    <3> DEFINE B == between(m)
    <3>1. B \subseteq 1..Len(g) /\ Len(g) \in Nat /\ B # {}
      BY <2>2 DEF IsLinkList
    <3>2. PICK i \in B : \A k \in B : k <= i
      <4> HIDE DEF B
      <4> QED
        BY <3>1, GreatestElement
    <3>3. i \in DOMAIN g /\ Source(g, i) = n /\ Target(g, i) = m
      BY <3>2
    <3>4. frees(i)
      <4>1. degree[Target(g, i)] = 0
        BY <2>2, <3>3
      <4>2. \A k \in between(Target(g, i)) : k <= i
        BY <3>2, <3>3
      <4> HIDE DEF degree
      <4> QED
        BY <3>3, <4>1, <4>2
    <3> HIDE DEF frees
    <3> QED
      BY <3>3, <3>4
  <2> QED
    BY <1>10, <2>1, <2>2
<1>13. ASSUME NEW m \in Keys(g), between(m) # {}
       PROVE  m \notin Listed \cup Waiting
  <2>1. Pending(g, s, m) # {}
    BY <1>11, <1>13
  <2>2. s.degree[m] # 0
    BY <1>3, <2>1, PendingIsFinite
  <2> QED
    BY <1>3, <2>2
<1> HIDE DEF degree, freed, added, freeing, between
<1>14. Elements(added) \subseteq Keys(g) /\ Elements(added) \cap (Listed \cup Waiting) = {}
  <2>1. \A m \in Elements(added) : m \in Keys(g)
    <3>1. \A k \in 1..Len(added) : added[k] \in Keys(g)
      BY <1>10, ElementOfSeq
    <3> QED
      BY <3>1 DEF Elements
  <2> QED
    BY <1>12, <1>13, <2>1
<1>15. /\ v.queue \in Seq(Keys(g)) /\ NoRepetition(v.queue)
       /\ Elements(v.queue) = (Waiting \ {n}) \cup Elements(added)
  <2> DEFINE tail == Tail(s.queue)
  <2>1. tail \in Seq(Keys(g)) /\ added \in Seq(Keys(g))
    BY <1>4, <1>10
  <2>2. Elements(tail) \cap Elements(added) = {}
    BY <1>6, <1>14
  <2>3. NoRepetition(tail) /\ NoRepetition(added)
    BY <1>6, <1>10
  <2>4. v.queue = tail \o added
    BY <1>2
  <2> HIDE DEF tail, v
  <2>5. /\ tail \o added \in Seq(Keys(g)) /\ NoRepetition(tail \o added)
        /\ Elements(tail \o added) = Elements(tail) \cup Elements(added)
    BY <2>1, <2>2, <2>3, ConcatElements
  <2>6. Elements(tail) = Waiting \ {n}
    BY <1>6 DEF tail
  <2> QED
    BY <2>4, <2>5, <2>6
<1>16. ASSUME NEW m \in Keys(g)
       PROVE  v.degree[m] = 0 <=> m \in Elements(v.result) \cup Elements(v.queue)
  <2>1. degree[m] = 0 <=> (s.degree[m] = 0 \/ m \in Elements(added))
    <3>1. CASE between(m) = {}
      <4>1. Pending(g, v, m) = Pending(g, s, m)
        BY <1>11, <3>1
      <4> QED
        BY <1>3, <1>11, <1>12, <3>1, <4>1
    <3>2. CASE between(m) # {}
      <4>1. s.degree[m] # 0
        BY <1>3, <1>13, <3>2
      <4> QED
        BY <1>12, <3>2, <4>1
    <3> QED
      BY <3>1, <3>2
  <2>2. m \in Elements(v.result) \cup Elements(v.queue)
          <=> m \in Listed \cup Waiting \cup Elements(added)
    BY <1>5, <1>8, <1>15
  <2> QED
    BY <1>2, <1>3, <2>1, <2>2
<1>17. Elements(v.result) \cap Elements(v.queue) = {}
  BY <1>3, <1>5, <1>8, <1>14, <1>15
<1>18. ListedInOrder(g, v.result)
  <2> SUFFICES ASSUME NEW b \in 1..Len(v.result), NEW i \in DOMAIN g,
                      Target(g, i) = v.result[b]
               PROVE  \E a \in 1..(b - 1) : v.result[a] = Source(g, i)
    BY DEF ListedInOrder
  <2>1. CASE b \in 1..Len(s.result)
    <3>1. Target(g, i) = s.result[b]
      BY <1>7, <2>1
    <3>2. PICK a \in 1..(b - 1) : s.result[a] = Source(g, i)
      BY <2>1, <3>1 DEF KahnInv, ListedInOrder
    <3>3. a \in 1..Len(s.result)
      BY <1>7, <2>1
    <3>4. v.result[a] = Source(g, i)
      BY <1>7, <3>2, <3>3
    <3> QED
      BY <3>4
  <2>2. CASE b = Len(s.result) + 1
    <3>1. Target(g, i) = n
      BY <1>7, <2>2
    <3>2. Pending(g, s, n) = {}
      BY <1>3, <1>4, <1>5, PendingIsFinite
    <3>3. Source(g, i) \in Listed
      BY <3>1, <3>2 DEF Pending
    <3>4. PICK a \in 1..Len(s.result) : s.result[a] = Source(g, i)
      BY <3>3 DEF Elements
    <3>5. a \in 1..(b - 1) /\ v.result[a] = Source(g, i)
      BY <1>7, <2>2, <3>4
    <3> QED
      BY <3>5
  <2> QED
    BY <1>7, <2>1, <2>2
<1>19. v \in SortStates(g)
  <2>1. degree \in [Keys(g) -> Int]
    <3>1. degree = [m \in Keys(g) |-> degree[m]]
      BY DEF degree
    <3> QED
      BY <1>11, <3>1
  <2>2. v = [degree |-> v.degree, queue |-> v.queue, result |-> v.result]
    BY <1>1
  <2> QED
    BY <1>2, <1>7, <1>15, <2>1, <2>2 DEF SortStates
<1>20. \A m \in Keys(g) : v.degree[m] = Cardinality(Pending(g, v, m))
  BY <1>2, <1>11
<1>21. KahnInv(g, v)
  BY <1>8, <1>15, <1>16, <1>17, <1>18, <1>19, <1>20 DEF KahnInv
<1> QED
  BY <1>7, <1>21 DEF v

\* The loop ends with an empty queue: no key is left to visit.
LEMMA SortingEnds ==
  ASSUME NEW g, IsLinkList(g)
  PROVE  KahnInv(g, Sorting(g)) /\ Sorting(g).queue = <<>>
<1> DEFINE N == Cardinality(Keys(g))
           S == {s \in SortStates(g) : KahnInv(g, s)}
           start == SortStart(g)
           visited == [s \in SortStates(g) |-> IF s.queue = <<>> THEN s ELSE Visit(g, s)]
           Solves(f) == f = [i \in 0..N |-> IF i = 0 THEN start ELSE visited[f[i - 1]]]
           sorted == CHOOSE f : Solves(f)
           Counts(s, i) == s.queue = <<>> \/ Len(s.result) = i
<1>1. N \in Nat
  BY KeyFacts, FS_CardinalityType
<1>2. start \in S /\ Counts(start, 0)
  <2>1. KahnInv(g, start)
    BY SortStartHolds
  <2>2. Len(start.result) = 0
    BY EmptySeq DEF SortStart
  <2> QED
    BY <2>1, <2>2 DEF KahnInv
<1>3. ASSUME NEW s \in S, NEW i \in Nat, Counts(s, i)
      PROVE  visited[s] \in S /\ Counts(visited[s], i + 1)
  <2>1. CASE s.queue = <<>>
    <3>1. visited[s] = s
      BY <2>1
    <3> QED
      BY <2>1, <3>1
  <2>2. CASE s.queue # <<>>
    <3>1. visited[s] = Visit(g, s)
      BY <2>2
    <3>2. KahnInv(g, Visit(g, s)) /\ Len(Visit(g, s).result) = Len(s.result) + 1
      BY <2>2, VisitHolds
    <3>3. Len(s.result) = i
      BY <1>3, <2>2
    <3>4. Visit(g, s) \in S
      BY <3>2 DEF KahnInv
    <3> QED
      BY <3>1, <3>2, <3>3, <3>4
  <2> QED
    BY <2>1, <2>2
<1>4. \A s \in S : visited[s] \in S
  <2>1. ASSUME NEW s \in S PROVE visited[s] \in S
    <3>1. CASE s.queue = <<>>
      BY <3>1
    <3>2. CASE s.queue # <<>>
      <4>1. KahnInv(g, Visit(g, s))
        BY <3>2, VisitHolds
      <4> QED
        BY <3>2, <4>1 DEF KahnInv
    <3> QED
      BY <3>1, <3>2
  <2> QED
    BY <2>1
<1>5. Sorting(g) = sorted[N]
  BY DEF Sorting
<1>6. \A s \in S : KahnInv(g, s)
  OBVIOUS
<1> HIDE DEF N, S, start, visited, Counts
<1>7. Solves(sorted)
  <2> DEFINE step == [x \in (1..N) \X S |-> visited[x[2]]]
  <2>1. step \in [(1..N) \X S -> S]
    BY <1>4
  <2>2. \A i \in 1..N, s \in S : step[<<i, s>>] = visited[s]
    OBVIOUS
  <2> HIDE DEF step
  <2>3. PICK f : Follows(f, N, S, start, step)
    BY <1>1, <1>2, <2>1, RecursionExists
  <2>4. ASSUME NEW i \in 1..N PROVE f[i] = visited[f[i - 1]]
    <3>1. i - 1 \in 0..N
      BY <1>1
    <3>2. f[i - 1] \in S
      BY <2>3, <3>1 DEF Follows
    <3> QED
      BY <2>2, <2>3, <3>2 DEF Follows
  <2>5. Solves(f)
    <3>1. f = [i \in 0..N |-> f[i]] /\ f[0] = start
      BY <2>3 DEF Follows
    <3>2. \A i \in 0..N : i = 0 \/ i \in 1..N
      BY <1>1
    <3>3. \A i \in 0..N : f[i] = IF i = 0 THEN start ELSE visited[f[i - 1]]
      BY <2>4, <3>1, <3>2
    <3> QED
      BY <3>1, <3>3
  <2> HIDE DEF Solves
  <2> QED
    BY <2>5
<1> HIDE DEF sorted
<1>8. sorted[0] = start /\ \A i \in 0..(N - 1) : sorted[i + 1] = visited[sorted[i]]
  <2>1. \A i \in 0..(N - 1) : i + 1 \in 0..N /\ i + 1 # 0 /\ (i + 1) - 1 = i
    BY <1>1
  <2>2. 0 \in 0..N
    BY <1>1
  <2>3. \A i \in 0..N : sorted[i] = IF i = 0 THEN start ELSE visited[sorted[i - 1]]
    BY <1>7
  <2> HIDE DEF Solves
  <2> QED
    BY <2>1, <2>2, <2>3
<1>9. sorted[N] \in S /\ Counts(sorted[N], N)
  <2> DEFINE I == {i \in 0..N : sorted[i] \in S /\ Counts(sorted[i], i)}
  <2>1. 0 \in I
    BY <1>1, <1>2, <1>8
  <2>2. ASSUME NEW i \in 0..(N - 1), i \in I PROVE i + 1 \in I
    <3>1. i \in Nat /\ i + 1 \in 0..N
      BY <1>1
    <3> QED
      BY <1>3, <1>8, <2>2, <3>1
  <2> HIDE DEF I
  <2>3. 0..N \subseteq I
    BY <1>1, <2>1, <2>2, IntervalInduction
  <2> QED
    BY <1>1, <2>3 DEF I
<1>10. ASSUME NEW s, KahnInv(g, s), Counts(s, N) PROVE s.queue = <<>>
  <2> SUFFICES ASSUME s.queue # <<>> PROVE FALSE
    OBVIOUS
  <2>1. /\ s.result \in Seq(Keys(g)) /\ s.queue \in Seq(Keys(g)) /\ NoRepetition(s.result)
        /\ Elements(s.result) \cap Elements(s.queue) = {}
    BY <1>10 DEF KahnInv, SortStates
  <2>2. Len(s.result) = N
    BY <1>10 DEF Counts
  <2>3. Elements(s.result) = Keys(g)
    BY <2>1, <2>2, KeyFacts, LengthIsCardinality DEF N
  <2>4. s.queue[1] \in Keys(g) /\ s.queue[1] \in Elements(s.queue)
    <3>1. 1 \in 1..Len(s.queue)
      BY <2>1, EmptySeq
    <3> QED
      BY <2>1, <3>1, ElementOfSeq DEF Elements
  <2> QED
    BY <2>1, <2>3, <2>4
<1> QED
  BY <1>5, <1>6, <1>9, <1>10

-----------------------------------------------------------------------------
(* What topological_sort() promises.                                       *)

\* The facts about the sort's result that the engine relies on.
SortResult(g, listed) ==
  /\ listed \in Seq(Keys(g)) /\ NoRepetition(listed) /\ ListedInOrder(g, listed)
  /\ \A m \in Keys(g) : m \in Elements(listed)
       <=> \A i \in DOMAIN g : Target(g, i) = m => Source(g, i) \in Elements(listed)

\* What the sort returns, of a graph with cycles and unknown nodes too.
LEMMA SortIsCorrect ==
  ASSUME NEW g, IsLinkList(g)
  PROVE  SortResult(g, TopologicalSort(g))
<1> DEFINE s == Sorting(g)
<1>1. KahnInv(g, s) /\ s.queue = <<>>
  BY SortingEnds
<1>2. Elements(s.queue) = {}
  BY <1>1, EmptySeq DEF Elements
<1> HIDE DEF s
<1>3. ASSUME NEW m \in Keys(g)
      PROVE  m \in Elements(s.result) <=> Pending(g, s, m) = {}
  BY <1>1, <1>2, PendingIsFinite DEF KahnInv
<1>4. s.result \in Seq(Keys(g)) /\ NoRepetition(s.result) /\ ListedInOrder(g, s.result)
  BY <1>1 DEF KahnInv, SortStates
<1>5. SortResult(g, s.result)
  BY <1>3, <1>4 DEF SortResult, Pending
<1> QED
  BY <1>5 DEF TopologicalSort, s

\* Without a link to an unknown node, the keys of in_degree are the nodes.
LEMMA KeysOfClosedGraph ==
  ASSUME NEW g, \A i \in DOMAIN g : Source(g, i) \in Ids /\ Target(g, i) \in Ids
  PROVE  Keys(g) = Ids
BY DEF Keys

\* A graph that validate() accepts is sorted: the order names every node once
\* and runs along the links (graph.py:107-165).
THEOREM ValidGraphsAreSorted ==
  ASSUME NEW g, IsLinkList(g), Valid(g)
  PROVE  /\ TopologicalSort(g) \in Seq(Ids) /\ NoRepetition(TopologicalSort(g))
         /\ Elements(TopologicalSort(g)) = Ids
         /\ IsTopologicalOrder(g, TopologicalSort(g)) /\ Sortable(g)
<1> DEFINE listed == TopologicalSort(g)
           L == Len(listed)
<1>1. Keys(g) = Ids /\ SortResult(g, listed) /\ L = Len(NodeList)
  BY KeysOfClosedGraph, SortIsCorrect DEF Valid
<1> HIDE DEF listed
<1>2. listed \in Seq(Ids) /\ NoRepetition(listed) /\ ListedInOrder(g, listed)
  BY <1>1 DEF SortResult
<1>3. L = Cardinality(Ids) /\ Elements(listed) = Ids /\ L \in Nat
  BY <1>1, <1>2, NodeFacts, LengthIsCardinality, LenProperties
<1>4. \A n \in Ids : \E i \in 1..L : listed[i] = n
  BY <1>3 DEF Elements
<1>5. ASSUME NEW i \in DOMAIN g
      PROVE  \E a, b \in 1..L : a < b /\ listed[a] = Source(g, i) /\ listed[b] = Target(g, i)
  <2>1. PICK b \in 1..L : listed[b] = Target(g, i)
    BY <1>4 DEF Valid
  <2>2. PICK a \in 1..(b - 1) : listed[a] = Source(g, i)
    BY <1>2, <2>1 DEF ListedInOrder
  <2>3. a \in 1..L /\ a < b
    BY <1>3, <2>1
  <2> QED
    BY <2>1, <2>2, <2>3
<1>6. IsTopologicalOrder(g, listed)
  BY <1>3, <1>4, <1>5 DEF IsTopologicalOrder
<1>7. Sortable(g)
  <2> DEFINE position == [n \in Ids |-> CHOOSE i \in 1..L : listed[i] = n]
  <2>1. \A n \in Ids : position[n] \in 1..L /\ listed[position[n]] = n
    BY <1>4
  <2>2. position \in [Ids -> 1..Len(NodeList)]
    BY <1>1, <2>1
  <2> HIDE DEF position
  <2>3. ASSUME NEW i \in DOMAIN g PROVE position[Source(g, i)] < position[Target(g, i)]
    <3>1. Source(g, i) \in Ids /\ Target(g, i) \in Ids
      BY DEF Valid
    <3>2. PICK a, b \in 1..L :
            a < b /\ listed[a] = Source(g, i) /\ listed[b] = Target(g, i)
      BY <1>5
    <3>3. position[Source(g, i)] = a /\ position[Target(g, i)] = b
      BY <1>2, <2>1, <3>1, <3>2 DEF NoRepetition
    <3> QED
      BY <3>2, <3>3
  <2>4. Forward(g, position)
    BY <2>3 DEF Forward
  <2> QED
    BY <2>2, <2>4 DEF Sortable, Valid
<1> QED
  BY <1>2, <1>3, <1>6, <1>7 DEF listed

\* The sort gives up on no graph that has a topological order: validate()
\* rejects only what cannot be run (graph.py:139-165).
THEOREM SortableGraphsAreValid ==
  ASSUME NEW g, IsLinkList(g), Sortable(g)
  PROVE  Valid(g)
<1> DEFINE listed == TopologicalSort(g)
           Missing == Ids \ Elements(listed)
<1>1. Keys(g) = Ids /\ SortResult(g, listed)
  BY KeysOfClosedGraph, SortIsCorrect DEF Sortable
<1>2. PICK position \in [Ids -> 1..Len(NodeList)] : Forward(g, position)
  BY DEF Sortable
<1> HIDE DEF listed
<1>3. Missing = {}
  <2> SUFFICES ASSUME Missing # {} PROVE FALSE
    OBVIOUS
  <2> DEFINE T == {position[n] : n \in Missing}
  <2>1. T \subseteq Nat /\ T # {}
    <3>1. \A n \in Missing : position[n] \in Nat
      BY <1>2, NodeFacts
    <3> QED
      BY <3>1
  <2>2. PICK p \in T : \A q \in T : p <= q
    <3> HIDE DEF T
    <3> QED
      BY <2>1, LeastElement
  <2>3. PICK n \in Missing : p = position[n]
    BY <2>2
  <2>4. PICK i \in DOMAIN g : Target(g, i) = n /\ Source(g, i) \notin Elements(listed)
    BY <1>1, <2>3 DEF SortResult
  <2>5. Source(g, i) \in Missing /\ position[Source(g, i)] < position[n]
    BY <1>2, <2>4 DEF Sortable, Forward
  <2>6. position[n] <= position[Source(g, i)]
    BY <2>2, <2>3, <2>5
  <2>7. position[n] \in Nat /\ position[Source(g, i)] \in Nat
    BY <2>1, <2>3, <2>5
  <2> QED
    BY <2>5, <2>6, <2>7
<1>4. listed \in Seq(Ids) /\ NoRepetition(listed) /\ \A m \in Elements(listed) : m \in Ids
  <2>1. listed \in Seq(Ids) /\ NoRepetition(listed)
    BY <1>1 DEF SortResult
  <2> QED
    BY <2>1, ElementOfSeq DEF Elements
<1>5. Elements(listed) = Ids
  BY <1>3, <1>4
<1>6. Len(listed) = Len(NodeList)
  BY <1>4, <1>5, NodeFacts, LengthIsCardinality
<1> QED
  BY <1>6 DEF Valid, Sortable, listed

-----------------------------------------------------------------------------
(* The engine.                                                             *)

Ordered == Valid(links) /\ order = TopologicalSort(links)

\* run() is at the node that the loop has reached.
AtNode == pc \in {"prepare", "running", "backoff", "completed", "failing", "failed", "save"}

OrderIsComputed ==
  /\ pc \notin {"new", "raised", "dead"} => Ordered
  /\ Ordered \/ (order = <<>> /\ Visited = {})
  /\ pc = "new" => order = <<>>
  /\ pc = "raised" /\ Visited = {} => ~Valid(links)

\* What the point that run() has reached says of the nodes.
NodesFollowOrder ==
  /\ \A i \in 1..Len(order) : i < pos => state[order[i]] = "completed"
  /\ \A i \in 1..Len(order) : i > pos => state[order[i]] = "absent"
  /\ \A n \in Ids : state[n] = "completed" => n \in outputs

CurrentNode ==
  /\ AtNode => pos <= Len(order) /\ state[Node] # "absent"
  /\ pc = "next" /\ pos <= Len(order) => state[Node] = "absent"
  /\ pc = "completed" => state[Node] = "completed"
  /\ pc = "failed" => state[Node] = "failed"
  /\ pc \in {"finishing", "returned", "raised"} /\ pos <= Len(order)
       => state[Node] = "failed"

Saving ==
  /\ pc = "save" => /\ then \in {"running", "completed", "backoff", "failing", "failed"}
                    /\ then = "completed" => state[Node] = "completed"
                    /\ then = "failed" => state[Node] = "failed"
  /\ pc = "backoff" \/ (pc = "save" /\ then = "backoff") => attempt < MaxRetries

\* The same as StoredAgrees, in the middle of a save too.
SavedStates ==
  faults = 0 =>
    \A n \in Ids :
      state[n] \in {"running", "completed", "failed"} =>
        stored[n].status = state[n] \/ (pc \in {"save", "dead"} /\ n = Node)

EngineInv ==
  /\ TypeOK /\ links \in Graphs
  /\ OrderIsComputed /\ NodesFollowOrder /\ CurrentNode /\ Saving
  /\ SavedStates /\ FailureIsReported

\* A graph of the specification is a list of links.
LEMMA GraphsAreLinkLists ==
  ASSUME NEW g \in Graphs
  PROVE  IsLinkList(g)
BY EngineAssumption DEF IsLinkList

\* What an order that the sort has returned for an accepted graph gives.
LEMMA OrderFacts ==
  ASSUME links \in Graphs, Ordered
  PROVE  /\ order \in Seq(Ids) /\ NoRepetition(order) /\ Elements(order) = Ids
         /\ IsTopologicalOrder(links, order) /\ Sortable(links)
BY GraphsAreLinkLists, ValidGraphsAreSorted DEF Ordered

\* While a node is left, the order is there and names the node once.
LEMMA CurrentNodeFacts ==
  ASSUME EngineInv, pos <= Len(order)
  PROVE  /\ Ordered /\ Len(order) \in Nat /\ pos \in 1..Len(order) /\ Node \in Ids
         /\ \A i \in 1..Len(order) : order[i] \in Ids /\ (order[i] = Node => i = pos)
<1>1. order \in Seq(Ids) /\ Len(order) \in Nat /\ pos \in 1..Len(order)
  BY LenProperties DEF EngineInv, TypeOK
<1>2. order # <<>>
  BY <1>1, EmptySeq
<1>3. Ordered
  BY <1>2 DEF EngineInv, OrderIsComputed
<1>4. \A i \in 1..Len(order) : order[i] \in Ids
  BY <1>1, ElementOfSeq
<1>5. NoRepetition(order)
  BY <1>3, OrderFacts DEF EngineInv
<1> QED
  BY <1>1, <1>3, <1>4, <1>5 DEF NoRepetition, Node

\* A step that marks the current node with s.
MarkStep(s) ==
  /\ pos <= Len(order) /\ s \in NodeStates \ {"absent"}
  /\ Mark(s) /\ UNCHANGED graphVars
  /\ outputs' \in SUBSET Ids /\ outputs \subseteq outputs'
  /\ s = "completed" => Node \in outputs'

\* What every step does that sets the status of the node that run() is at.
LEMMA MarkFacts ==
  ASSUME EngineInv, NEW s, MarkStep(s)
  PROVE  /\ state' \in [Ids -> NodeStates] /\ Node' = Node /\ Node \in Ids
         /\ state'[Node] = s /\ \A n \in Ids : n # Node => state'[n] = state[n]
         /\ Ordered' /\ Ordered /\ Visited' # {} /\ NodesFollowOrder'
         /\ links' \in Graphs /\ order' \in Seq(Ids) /\ pos' \in 1..(Len(order') + 1)
         /\ pos' <= Len(order')
<1>1. /\ Ordered /\ Len(order) \in Nat /\ pos \in 1..Len(order) /\ Node \in Ids
      /\ \A i \in 1..Len(order) : order[i] \in Ids /\ (order[i] = Node => i = pos)
  BY CurrentNodeFacts DEF MarkStep
<1>2. /\ state \in [Ids -> NodeStates] /\ s \in NodeStates
      /\ state' = [state EXCEPT ![Node] = s]
  BY DEF EngineInv, TypeOK, MarkStep, Mark
<1>3. /\ state' \in [Ids -> NodeStates] /\ state'[Node] = s
      /\ \A n \in Ids : n # Node => state'[n] = state[n]
  BY <1>1, <1>2
<1>4. links' = links /\ order' = order /\ pos' = pos /\ Node' = Node
  BY DEF MarkStep, graphVars, Node
<1>5. Visited' # {}
  BY <1>1, <1>3 DEF Visited, MarkStep
<1>6. Ordered'
  BY <1>1, <1>4 DEF Ordered
<1>7. NodesFollowOrder'
  <2>1. /\ \A i \in 1..Len(order) : i < pos => state[order[i]] = "completed"
        /\ \A i \in 1..Len(order) : i > pos => state[order[i]] = "absent"
        /\ \A n \in Ids : state[n] = "completed" => n \in outputs
    BY DEF EngineInv, NodesFollowOrder
  <2>2. \A i \in 1..Len(order) : i # pos => state'[order[i]] = state[order[i]]
    BY <1>1, <1>3
  <2>3. \A n \in Ids : state'[n] = "completed" => n \in outputs'
    BY <1>3, <2>1 DEF MarkStep
  <2>4. \A i \in 1..Len(order) : i < pos => state'[order[i]] = "completed"
    BY <1>1, <2>1, <2>2
  <2>5. \A i \in 1..Len(order) : i > pos => state'[order[i]] = "absent"
    BY <1>1, <2>1, <2>2
  <2> QED
    BY <1>4, <2>3, <2>4, <2>5 DEF NodesFollowOrder
<1> QED
  BY <1>1, <1>3, <1>4, <1>5, <1>6, <1>7 DEF EngineInv, TypeOK

\* A step that moves pc and touches no node.
MoveStep ==
  /\ UNCHANGED <<graphVars, state, outputs>> /\ pc # "new" /\ pc' # "new"
  /\ pc \notin {"raised", "dead"}
  /\ pc' = "raised" => Visited # {}

\* What every step leaves alone that touches no node.
LEMMA MoveFacts ==
  ASSUME EngineInv, MoveStep
  PROVE  /\ state' = state /\ Node' = Node /\ Visited' = Visited /\ Len(order') = Len(order)
         /\ Succeeded' = Succeeded /\ order' = order /\ pos' = pos
         /\ links' \in Graphs /\ OrderIsComputed' /\ NodesFollowOrder'
         /\ state' \in [Ids -> NodeStates] /\ order' \in Seq(Ids)
         /\ pos' \in 1..(Len(order') + 1) /\ outputs' \in SUBSET Ids
<1>1. links' = links /\ order' = order /\ pos' = pos /\ state' = state /\ outputs' = outputs
  BY DEF MoveStep, graphVars
<1>2. Node' = Node /\ Visited' = Visited /\ Succeeded' = Succeeded
  BY <1>1 DEF Node, Visited, Succeeded
<1>3. OrderIsComputed'
  BY <1>1, <1>2 DEF EngineInv, OrderIsComputed, Ordered, MoveStep
<1>4. NodesFollowOrder'
  BY <1>1 DEF EngineInv, NodesFollowOrder
<1> QED
  BY <1>1, <1>2, <1>3, <1>4 DEF EngineInv, TypeOK

\* A new engine knows no node.
LEMMA InitHolds == Init => EngineInv
<1> SUFFICES ASSUME Init PROVE EngineInv
  OBVIOUS
<1>1. order \in Seq(Ids) /\ Len(order) = 0 /\ pos \in 1..(Len(order) + 1)
  BY EmptySeq DEF Init
<1>2. TypeOK
  <2>1. stored \in [Ids -> [status : NodeStates, retries : 0..(MaxRetries + 1)]]
    BY EngineAssumption DEF Init, NodeStates
  <2> QED
    BY <1>1, <2>1, EngineAssumption DEF Init, TypeOK, Points, NodeStates
<1>3. OrderIsComputed
  BY DEF Init, OrderIsComputed, Visited
<1> QED
  BY <1>1, <1>2, <1>3 DEF Init, EngineInv, NodesFollowOrder, CurrentNode, AtNode, Saving,
                          SavedStates, FailureIsReported

\* A graph is rejected before any node is touched, or sorted.
LEMMA StartHolds == EngineInv /\ Start => EngineInv'
<1> SUFFICES ASSUME EngineInv, Start PROVE EngineInv'
  OBVIOUS
<1>0. /\ links' = links /\ then' = then /\ pos' = pos /\ attempt' = attempt
      /\ state' = state /\ outputs' = outputs /\ errors' = errors /\ stored' = stored
      /\ row' = row /\ faults' = faults
  BY DEF Start
<1>1. pc = "new" /\ order = <<>> /\ Len(order) = 0 /\ pos = 1
  <2>1. Len(order) = 0
    BY EmptySeq DEF Start, EngineInv, OrderIsComputed
  <2> QED
    BY <2>1 DEF Start, EngineInv, OrderIsComputed, TypeOK
<1>2. Visited = {} /\ Visited' = {}
  <2>1. Visited = {}
    <3>1. CASE Ordered
      <4>1. Elements(order) = {} /\ Elements(order) = Ids
        BY <1>1, <3>1, OrderFacts DEF EngineInv, Elements
      <4> QED
        BY <4>1 DEF Visited
    <3> QED
      BY <3>1 DEF EngineInv, OrderIsComputed
  <2> QED
    BY <1>0, <2>1 DEF Visited
<1>3. \A n \in Ids : state[n] = "absent"
  BY <1>2 DEF Visited
<1>4. OrderIsComputed' /\ (pc' = "next" \/ pc' = "raised")
  BY <1>0, <1>2 DEF Start, OrderIsComputed, Ordered
<1>5. order' \in Seq(Ids) /\ Len(order') \in Nat
  <2>1. CASE Valid(links)
    BY <2>1, GraphsAreLinkLists, ValidGraphsAreSorted, LenProperties DEF Start, EngineInv
  <2>2. CASE ~Valid(links)
    BY <2>2, EmptySeq DEF Start
  <2> QED
    BY <2>1, <2>2
<1>6. \A i \in 1..Len(order') : order'[i] \in Ids
  BY <1>5, ElementOfSeq
<1>7. TypeOK'
  BY <1>0, <1>1, <1>4, <1>5 DEF EngineInv, TypeOK, Points
<1>8. NodesFollowOrder'
  <2>1. ~\E i \in 1..Len(order') : i < pos'
    BY <1>0, <1>1
  <2> QED
    BY <1>0, <1>3, <1>6, <2>1 DEF NodesFollowOrder
<1>9. CurrentNode'
  <2>1. pc' = "raised" => Len(order') = 0
    BY <1>4, EmptySeq DEF Start
  <2>2. pos' <= Len(order') => Node' \in Ids
    BY <1>0, <1>1, <1>5, <1>6 DEF Node
  <2>3. Node' \in Ids => state'[Node'] = "absent"
    BY <1>0, <1>3
  <2>4. pc' = "raised" => ~(pos' <= Len(order'))
    BY <1>0, <1>1, <2>1
  <2> QED
    BY <1>4, <2>2, <2>3, <2>4 DEF CurrentNode, AtNode
<1>10. Saving' /\ SavedStates' /\ FailureIsReported'
  BY <1>0, <1>3, <1>4 DEF Saving, SavedStates, FailureIsReported
<1> QED
  BY <1>0, <1>4, <1>7, <1>8, <1>9, <1>10 DEF EngineInv

\* What the marking steps have in common: they leave a node behind that run()
\* is at, and the rest is typed.
LEMMA MarkedHolds ==
  ASSUME EngineInv, NEW s, MarkStep(s), AtNode', pc' # "completed",
         s = "failed" \/ pc' # "failed",
         then' \in Points, attempt' \in 0..MaxRetries, errors' \in SUBSET Ids,
         stored' = stored, faults' = faults, row' \in Ids \cup {"pending", "done", "failed"},
         pc # "save", s = "pending" \/ pc' = "save", Saving'
  PROVE  EngineInv'
<1>1. /\ state' \in [Ids -> NodeStates] /\ Node' = Node /\ Node \in Ids
      /\ state'[Node] = s /\ \A n \in Ids : n # Node => state'[n] = state[n]
      /\ Ordered' /\ Ordered /\ Visited' # {} /\ NodesFollowOrder'
      /\ links' \in Graphs /\ order' \in Seq(Ids) /\ pos' \in 1..(Len(order') + 1)
      /\ pos' <= Len(order')
  BY MarkFacts
<1>2. pc' \in Points /\ pc' \notin {"new", "next", "finishing", "returned", "raised", "dead"}
  BY DEF AtNode, Points
<1>3. OrderIsComputed'
  BY <1>1, <1>2 DEF OrderIsComputed
<1>4. TypeOK'
  BY <1>1, <1>2 DEF EngineInv, TypeOK, MarkStep
<1>5. CurrentNode'
  BY <1>1, <1>2 DEF CurrentNode, MarkStep
<1>6. SavedStates'
  <2> SUFFICES ASSUME faults = 0, NEW n \in Ids,
                      state'[n] \in {"running", "completed", "failed"}
               PROVE  stored[n].status = state'[n] \/ (pc' \in {"save", "dead"} /\ n = Node')
    BY DEF SavedStates
  <2>1. CASE n = Node
    BY <1>1, <2>1
  <2>2. CASE n # Node
    <3>1. state'[n] = state[n]
      BY <1>1, <2>2
    <3> QED
      BY <2>2, <3>1 DEF EngineInv, SavedStates
  <2> QED
    BY <2>1, <2>2
<1>7. FailureIsReported'
  BY <1>2 DEF FailureIsReported
<1> QED
  BY <1>1, <1>3, <1>4, <1>5, <1>6, <1>7 DEF EngineInv

\* What the moving steps have in common, for a step that ends no save.
LEMMA MovedHolds ==
  ASSUME EngineInv, MoveStep, CurrentNode', pc' \in Points \ {"save", "backoff"},
         UNCHANGED <<then, attempt, errors, stored>>,
         row' \in Ids \cup {"pending", "done", "failed"},
         faults' \in 0..MaxFaults, faults' # 0 \/ faults = 0,
         pc # "save" \/ pc' = "dead", FailureIsReported'
  PROVE  EngineInv'
<1>1. /\ state' = state /\ Node' = Node /\ links' \in Graphs
      /\ OrderIsComputed' /\ NodesFollowOrder'
      /\ state' \in [Ids -> NodeStates] /\ order' \in Seq(Ids)
      /\ pos' \in 1..(Len(order') + 1) /\ outputs' \in SUBSET Ids
  BY MoveFacts
<1>2. TypeOK'
  BY <1>1 DEF EngineInv, TypeOK
<1>3. Saving'
  BY DEF Saving
<1>4. SavedStates'
  BY <1>1 DEF EngineInv, SavedStates, MoveStep
<1> QED
  BY <1>1, <1>2, <1>3, <1>4 DEF EngineInv

\* The steps that set a status keep the invariant.
LEMMA MarkingStepsHold ==
  EngineInv /\ (BeginNode \/ BeginNodeFails \/ Prepare \/ BlockCompletes
                 \/ BlockFailsRetryably \/ Backoff \/ FailNode) => EngineInv'
<1> SUFFICES ASSUME EngineInv,
                    BeginNode \/ BeginNodeFails \/ Prepare \/ BlockCompletes
                      \/ BlockFailsRetryably \/ Backoff \/ FailNode
             PROVE  EngineInv'
  OBVIOUS
<1> USE DEF Goto, SaveThen
<1>1. /\ pos <= Len(order) => Node \in Ids
      /\ AtNode => pos <= Len(order)
      /\ {"pending", "running", "completed", "failed"} \subseteq NodeStates \ {"absent"}
      /\ outputs \in SUBSET Ids /\ errors \in SUBSET Ids /\ then \in Points
      /\ attempt \in 0..MaxRetries /\ MaxRetries \in Nat
      /\ row \in Ids \cup {"pending", "done", "failed"}
  BY CurrentNodeFacts, EngineAssumption DEF EngineInv, TypeOK, CurrentNode, NodeStates
<1>3. CASE BeginNode
  <2>1. MarkStep("pending")
    BY <1>1, <1>3 DEF BeginNode, MarkStep
  <2> QED
    BY <1>1, <1>3, <2>1, MarkedHolds DEF BeginNode, AtNode, Saving
<1>4. CASE BeginNodeFails
  <2>1. MarkStep("pending")
    BY <1>1, <1>4 DEF BeginNodeFails, MarkStep
  <2> QED
    BY <1>1, <1>4, <2>1, MarkedHolds DEF BeginNodeFails, AtNode, Saving
<1>5. CASE Prepare
  <2>1. MarkStep("running")
    BY <1>1, <1>5 DEF Prepare, MarkStep, AtNode
  <2> QED
    BY <1>1, <1>5, <2>1, MarkedHolds DEF Prepare, AtNode, Saving, Points
<1>6. CASE BlockCompletes
  <2>1. MarkStep("completed")
    BY <1>1, <1>6 DEF BlockCompletes, MarkStep, AtNode
  <2>2. state'[Node'] = "completed"
    BY <2>1, MarkFacts
  <2>3. Saving'
    BY <1>6, <2>2 DEF BlockCompletes, Saving
  <2> QED
    BY <1>1, <1>6, <2>1, <2>3, MarkedHolds DEF BlockCompletes, AtNode, Points
<1>7. CASE BlockFailsRetryably
  <2>1. MarkStep("failed")
    BY <1>1, <1>7 DEF BlockFailsRetryably, MarkStep, AtNode
  <2>2. Saving'
    BY <1>7 DEF BlockFailsRetryably, Saving
  <2>3. errors' \in SUBSET Ids
    BY <1>1, <1>7 DEF BlockFailsRetryably, AtNode
  <2> QED
    BY <1>1, <1>7, <2>1, <2>2, <2>3, MarkedHolds DEF BlockFailsRetryably, AtNode, Points
<1>8. CASE Backoff
  <2>1. MarkStep("pending")
    BY <1>1, <1>8 DEF Backoff, MarkStep, AtNode
  <2>2. attempt' \in 0..MaxRetries
    BY <1>1, <1>8 DEF Backoff, EngineInv, Saving
  <2> QED
    BY <1>1, <1>8, <2>1, <2>2, MarkedHolds DEF Backoff, AtNode, Saving
<1>9. CASE FailNode
  <2>1. MarkStep("failed")
    BY <1>1, <1>9 DEF FailNode, MarkStep, AtNode
  <2>2. state'[Node'] = "failed"
    BY <2>1, MarkFacts
  <2>3. Saving'
    BY <1>9, <2>2 DEF FailNode, Saving
  <2>4. errors' \in SUBSET Ids
    BY <1>1, <1>9 DEF FailNode, AtNode
  <2> QED
    BY <1>1, <1>9, <2>1, <2>3, <2>4, MarkedHolds DEF FailNode, AtNode, Points
<1> QED
  BY <1>3, <1>4, <1>5, <1>6, <1>7, <1>8, <1>9

\* The steps between two points that touch no node keep the invariant.
LEMMA MovingStepsHold ==
  EngineInv /\ (PrepareFails \/ BlockFailsFatally \/ CompleteCallbackRaises \/ AbortGraph
                 \/ LoopEnds \/ ReportSuccess \/ ReportFailure \/ ReportFails)
    => EngineInv'
<1> SUFFICES ASSUME EngineInv,
                    PrepareFails \/ BlockFailsFatally \/ CompleteCallbackRaises \/ AbortGraph
                      \/ LoopEnds \/ ReportSuccess \/ ReportFailure \/ ReportFails
             PROVE  EngineInv'
  OBVIOUS
<1> USE DEF Goto
<1>1. /\ row \in Ids \cup {"pending", "done", "failed"}
      /\ faults \in 0..MaxFaults /\ MaxFaults \in Nat
      /\ pos <= Len(order) => Node \in Ids
  BY CurrentNodeFacts, EngineAssumption DEF EngineInv, TypeOK
<1>2. CASE PrepareFails \/ BlockFailsFatally \/ CompleteCallbackRaises
  <2>1. MoveStep /\ pc' = "failing" /\ AtNode
    BY <1>2 DEF PrepareFails, BlockFailsFatally, CompleteCallbackRaises, MoveStep, AtNode
  <2>2. CurrentNode'
    BY <2>1, MoveFacts DEF EngineInv, CurrentNode
  <2> QED
    BY <1>1, <1>2, <2>1, <2>2, MovedHolds
       DEF PrepareFails, BlockFailsFatally, CompleteCallbackRaises, Points, AtNode,
           FailureIsReported
<1>3. CASE AbortGraph
  <2>1. pos <= Len(order) /\ Node \in Ids /\ state[Node] = "failed"
    BY <1>1, <1>3 DEF AbortGraph, EngineInv, CurrentNode, AtNode
  <2>2. Visited # {}
    BY <2>1 DEF Visited
  <2>3. MoveStep
    BY <1>3, <2>2 DEF AbortGraph, MoveStep
  <2>4. CurrentNode'
    BY <1>3, <2>1, <2>3, MoveFacts DEF AbortGraph, CurrentNode, AtNode
  <2> QED
    BY <1>1, <1>3, <2>3, <2>4, MovedHolds DEF AbortGraph, Points, FailureIsReported
<1>4. CASE LoopEnds
  <2>1. MoveStep
    BY <1>4 DEF LoopEnds, MoveStep
  <2>2. ~(pos' <= Len(order'))
    <3>1. pos > Len(order) /\ pos \in Nat /\ Len(order) \in Nat
      BY <1>4, LenProperties DEF LoopEnds, EngineInv, TypeOK
    <3> QED
      BY <2>1, <3>1, MoveFacts
  <2>3. CurrentNode'
    BY <1>4, <2>2 DEF LoopEnds, CurrentNode, AtNode
  <2> QED
    BY <1>1, <1>4, <2>1, <2>3, MovedHolds DEF LoopEnds, Points, FailureIsReported
<1>5. CASE ReportSuccess \/ ReportFailure \/ ReportFails
  <2>1. MoveStep /\ pc = "finishing" /\ pc' = "returned"
    BY <1>5 DEF ReportSuccess, ReportFailure, ReportFails, MoveStep
  <2>2. CurrentNode'
    BY <2>1, MoveFacts DEF EngineInv, CurrentNode, AtNode
  <2>3. faults' \in 0..MaxFaults /\ (faults' # 0 \/ faults = 0)
    BY <1>1, <1>5 DEF ReportSuccess, ReportFailure, ReportFails, DatabaseFails
  <2>4. FailureIsReported'
    <3>1. Succeeded' = Succeeded
      BY <2>1, MoveFacts
    <3> QED
      BY <1>1, <1>5, <3>1 DEF ReportSuccess, ReportFailure, ReportFails, DatabaseFails,
                              FailureIsReported
  <2>5. /\ UNCHANGED <<then, attempt, errors, stored>>
        /\ row' \in Ids \cup {"pending", "done", "failed"}
    BY <1>1, <1>5 DEF ReportSuccess, ReportFailure, ReportFails
  <2> QED
    BY <2>1, <2>2, <2>3, <2>4, <2>5, MovedHolds DEF Points
<1> QED
  BY <1>2, <1>3, <1>4, <1>5

\* A crash costs the node that is being saved, and no other one.
LEMMA DieHolds == EngineInv /\ Die => EngineInv'
<1> SUFFICES ASSUME EngineInv, Die PROVE EngineInv'
  OBVIOUS
<1>1. /\ pc \notin {"returned", "raised", "dead"} /\ pc' = "dead"
      /\ links' = links /\ order' = order /\ pos' = pos /\ then' = then
      /\ attempt' = attempt /\ state' = state /\ outputs' = outputs /\ errors' = errors
      /\ stored' = stored /\ row' = row /\ faults' = faults
  BY DEF Die, Over, graphVars
<1>2. Node' = Node /\ Visited' = Visited
  BY <1>1 DEF Node, Visited
<1>3. TypeOK' /\ links' \in Graphs
  BY <1>1 DEF EngineInv, TypeOK, Points
<1>4. OrderIsComputed' /\ NodesFollowOrder'
  BY <1>1, <1>2 DEF EngineInv, OrderIsComputed, NodesFollowOrder, Ordered
<1>5. CurrentNode' /\ Saving' /\ FailureIsReported'
  BY <1>1 DEF CurrentNode, AtNode, Saving, FailureIsReported
<1>6. SavedStates'
  BY <1>1, <1>2 DEF EngineInv, SavedStates
<1> QED
  BY <1>3, <1>4, <1>5, <1>6 DEF EngineInv

\* A completed node is behind the loop, with its output.
LEMMA CompleteNodeHolds == EngineInv /\ CompleteNode => EngineInv'
<1> SUFFICES ASSUME EngineInv, CompleteNode PROVE EngineInv'
  OBVIOUS
<1>1. /\ pc = "completed" /\ pc' = "next" /\ pos' = pos + 1
      /\ links' = links /\ order' = order /\ then' = then
      /\ attempt' = attempt /\ state' = state /\ outputs' = outputs /\ errors' = errors
      /\ stored' = stored /\ row' = row /\ faults' = faults
  BY DEF CompleteNode, Goto
<1>2. /\ pos <= Len(order) /\ state[Node] = "completed"
  BY <1>1 DEF EngineInv, CurrentNode, AtNode
<1>3. /\ Ordered /\ Len(order) \in Nat /\ pos \in 1..Len(order)
      /\ \A i \in 1..Len(order) : order[i] \in Ids
  BY <1>2, CurrentNodeFacts
<1>4. TypeOK' /\ links' \in Graphs
  BY <1>1, <1>3 DEF EngineInv, TypeOK, Points
<1>5. OrderIsComputed'
  BY <1>1, <1>3 DEF OrderIsComputed, Ordered
<1>6. /\ \A i \in 1..Len(order) : i < pos => state[order[i]] = "completed"
      /\ \A i \in 1..Len(order) : i > pos => state[order[i]] = "absent"
      /\ \A n \in Ids : state[n] = "completed" => n \in outputs
  BY DEF EngineInv, NodesFollowOrder
<1>7. NodesFollowOrder'
  <2>1. \A i \in 1..Len(order) : i < pos + 1 => i < pos \/ i = pos
    BY <1>3
  <2>2. \A i \in 1..Len(order) : i > pos + 1 => i > pos
    BY <1>3
  <2> QED
    BY <1>1, <1>2, <1>6, <2>1, <2>2 DEF NodesFollowOrder, Node
<1>8. CurrentNode'
  <2>1. pos + 1 <= Len(order) => pos + 1 \in 1..Len(order) /\ pos + 1 > pos
    BY <1>3
  <2> QED
    BY <1>1, <1>6, <2>1 DEF CurrentNode, AtNode, Node
<1>9. Saving' /\ FailureIsReported'
  BY <1>1 DEF Saving, FailureIsReported
<1>10. SavedStates'
  BY <1>1 DEF EngineInv, SavedStates
<1> QED
  BY <1>4, <1>5, <1>7, <1>8, <1>9, <1>10 DEF EngineInv

\* A save writes the status the engine knows, or counts as a fault.
LEMMA SavingStepsHold == EngineInv /\ (Save \/ SaveFails) => EngineInv'
<1> SUFFICES ASSUME EngineInv, Save \/ SaveFails PROVE EngineInv'
  OBVIOUS
<1>1. /\ pc = "save" /\ pc' = then
      /\ UNCHANGED graphVars /\ then' = then
      /\ attempt' = attempt /\ state' = state /\ outputs' = outputs /\ errors' = errors
      /\ row' = row
  BY DEF Save, SaveFails
<1>2. /\ then \in {"running", "completed", "backoff", "failing", "failed"}
      /\ then = "completed" => state[Node] = "completed"
      /\ then = "failed" => state[Node] = "failed"
      /\ then = "backoff" => attempt < MaxRetries
      /\ pos <= Len(order) /\ state[Node] # "absent" /\ Node \in Ids
  BY <1>1, CurrentNodeFacts DEF EngineInv, Saving, CurrentNode, AtNode
<1>3. MoveStep
  BY <1>1, <1>2 DEF MoveStep
<1>4. /\ Node' = Node /\ order' = order /\ pos' = pos
      /\ links' \in Graphs /\ OrderIsComputed' /\ NodesFollowOrder'
      /\ state' \in [Ids -> NodeStates] /\ order' \in Seq(Ids)
      /\ pos' \in 1..(Len(order') + 1) /\ outputs' \in SUBSET Ids
  BY <1>3, MoveFacts
<1>5. faults \in 0..MaxFaults /\ MaxFaults \in Nat /\ MaxRetries \in Nat
      /\ stored \in [Ids -> [status : NodeStates, retries : 0..(MaxRetries + 1)]]
      /\ attempt \in 0..MaxRetries /\ state[Node] \in NodeStates
  BY <1>2, EngineAssumption DEF EngineInv, TypeOK
<1>6. \/ stored' = [stored EXCEPT ![Node] = [status |-> state[Node], retries |-> RetryCount]]
         /\ faults' = faults
      \/ stored' = stored /\ faults' = faults + 1 /\ faults < MaxFaults
  BY DEF Save, SaveFails, DatabaseFails
<1>7. RetryCount \in 0..(MaxRetries + 1)
  <2>1. 0 \in 0..(MaxRetries + 1) /\ attempt \in 0..(MaxRetries + 1)
        /\ attempt + 1 \in 0..(MaxRetries + 1)
    BY <1>5
  <2> QED
    BY <2>1, <1>2 DEF RetryCount
<1>8. /\ stored' \in [Ids -> [status : NodeStates, retries : 0..(MaxRetries + 1)]]
      /\ faults' \in 0..MaxFaults
  <2>1. [status |-> state[Node], retries |-> RetryCount]
          \in [status : NodeStates, retries : 0..(MaxRetries + 1)]
    BY <1>5, <1>7
  <2>2. faults' \in 0..MaxFaults
    BY <1>5, <1>6
  <2> HIDE DEF RetryCount
  <2> QED
    BY <1>2, <1>5, <1>6, <2>1, <2>2
<1>9. TypeOK'
  BY <1>1, <1>2, <1>4, <1>8 DEF EngineInv, TypeOK, Points
<1>10. CurrentNode'
  BY <1>1, <1>2, <1>4 DEF CurrentNode, AtNode
<1>11. Saving'
  BY <1>1, <1>2 DEF Saving
<1>12. FailureIsReported'
  BY <1>1, <1>2 DEF FailureIsReported
<1>13. SavedStates'
  <2>1. CASE faults' # 0
    BY <2>1 DEF SavedStates
  <2>2. CASE faults' = 0
    <3>1. /\ stored' = [stored EXCEPT ![Node] =
                         [status |-> state[Node], retries |-> RetryCount]]
          /\ faults = 0
      BY <1>5, <1>6, <2>2
    <3>2. \A n \in Ids : stored'[n].status = IF n = Node THEN state[n] ELSE stored[n].status
      BY <1>2, <1>5, <3>1
    <3>3. \A n \in Ids : n # Node /\ state[n] \in {"running", "completed", "failed"}
                           => stored[n].status = state[n]
      BY <3>1 DEF EngineInv, SavedStates
    <3> QED
      BY <1>1, <3>2, <3>3 DEF SavedStates
  <2> QED
    BY <2>1, <2>2
<1> QED
  BY <1>4, <1>9, <1>10, <1>11, <1>12, <1>13 DEF EngineInv

\* Every step of the engine keeps its invariant.
LEMMA NextHolds == EngineInv /\ [Next]_vars => EngineInv'
<1>1. EngineInv /\ UNCHANGED vars => EngineInv'
  <2> SUFFICES ASSUME EngineInv, UNCHANGED vars PROVE EngineInv'
    OBVIOUS
  <2>1. TypeOK' /\ links' \in Graphs
    BY DEF EngineInv, TypeOK, vars
  <2>2. OrderIsComputed' /\ NodesFollowOrder'
    BY DEF EngineInv, OrderIsComputed, NodesFollowOrder, Ordered, Visited, vars
  <2>3. CurrentNode' /\ Saving'
    BY DEF EngineInv, CurrentNode, AtNode, Saving, Node, vars
  <2>4. SavedStates' /\ FailureIsReported'
    BY DEF EngineInv, SavedStates, FailureIsReported, Succeeded, Visited, Node, vars
  <2> QED
    BY <2>1, <2>2, <2>3, <2>4 DEF EngineInv
<1> QED
  BY <1>1, StartHolds, MarkingStepsHold, MovingStepsHold, DieHolds, CompleteNodeHolds,
     SavingStepsHold DEF Next, EngineStep

\* Every reachable state satisfies the invariant of the engine.
THEOREM EngineInvariant == Spec => []EngineInv
BY InitHolds, NextHolds, PTL DEF Spec

-----------------------------------------------------------------------------
(* What the invariant says about the properties of the runs.               *)

\* Every variable holds a value of its kind, for every list of nodes, every set
\* of graphs and both bounds (executor.py:222-433).
THEOREM EngineTypes == Spec => []TypeOK
BY EngineInvariant, PTL DEF EngineInv

\* validate() accepts exactly the graphs that have a topological order, and the
\* loop follows one of the whole graph (graph.py:107-165,
\* executor.py:241-258).
THEOREM OrderIsTopologicalAlways == Spec => []OrderIsTopological
<1>1. EngineInv => OrderIsTopological
  BY OrderFacts, SortableGraphsAreValid, GraphsAreLinkLists
     DEF EngineInv, OrderIsComputed, OrderIsTopological
<1> QED
  BY <1>1, EngineInvariant, PTL

\* A block runs only when every block that feeds it has completed and its output
\* is there: _resolve_inputs() never meets a missing one (executor.py:303-380).
THEOREM RunsAfterUpstreamAlways == Spec => []RunsAfterUpstream
<1>1. EngineInv => RunsAfterUpstream
  <2> SUFFICES ASSUME EngineInv, NEW i \in DOMAIN links, NEW n \in Ids,
                      n = Target(links, i), state[n] \in {"running", "completed"}
               PROVE  Source(links, i) \in {m \in outputs : state[m] = "completed"}
    BY DEF RunsAfterUpstream
  <2>1. Visited # {}
    BY DEF Visited
  <2>2. Ordered
    BY <2>1 DEF EngineInv, OrderIsComputed
  <2>3. order \in Seq(Ids) /\ NoRepetition(order) /\ IsTopologicalOrder(links, order)
    BY <2>2, OrderFacts DEF EngineInv
  <2>4. PICK a, b \in 1..Len(order) :
          a < b /\ order[a] = Source(links, i) /\ order[b] = Target(links, i)
    BY <2>3 DEF IsTopologicalOrder
  <2>5. ~(b > pos)
    BY <2>4 DEF EngineInv, NodesFollowOrder
  <2>6. pos \in Nat /\ Len(order) \in Nat
    BY <2>3, LenProperties DEF EngineInv, TypeOK
  <2>7. a < pos
    BY <2>4, <2>5, <2>6
  <2>8. state[order[a]] = "completed" /\ order[a] \in Ids
    BY <2>3, <2>4, <2>7, ElementOfSeq DEF EngineInv, NodesFollowOrder
  <2> QED
    BY <2>4, <2>8 DEF EngineInv, NodesFollowOrder
<1> QED
  BY <1>1, EngineInvariant, PTL

\* Without a database error, what table block_node_states says of a node is what
\* the engine knows, but for the node a crash interrupts (executor.py:160-191,
\* 412-431).
THEOREM StoredAgreesAlways == Spec => []StoredAgrees
<1>1. EngineInv => StoredAgrees
  BY DEF EngineInv, SavedStates, StoredAgrees
<1> QED
  BY <1>1, EngineInvariant, PTL

\* A failure ends the run at the node that failed and reaches the job's row, and
\* a success is one of the whole graph (executor.py:277-297, 500-506).
THEOREM OutcomeIsHonestAlways == Spec => []OutcomeIsHonest
<1>1. EngineInv => OutcomeIsHonest
  <2> SUFFICES ASSUME EngineInv PROVE OutcomeIsHonest
    OBVIOUS
  <2>1. /\ \A i \in 1..Len(order) : i < pos => state[order[i]] = "completed"
        /\ \A i \in 1..Len(order) : i > pos => state[order[i]] = "absent"
        /\ \A n \in Ids : state[n] = "completed" => n \in outputs
        /\ pos \in 1..(Len(order) + 1) /\ order \in Seq(Ids) /\ Len(order) \in Nat
    BY LenProperties DEF EngineInv, NodesFollowOrder, TypeOK
  <2>2. Visited # {} => Ordered /\ \A n \in Ids : \E k \in 1..Len(order) : order[k] = n
    BY OrderFacts DEF EngineInv, OrderIsComputed, IsTopologicalOrder
  <2>3. FailureStopsTheGraph
    <3> SUFFICES ASSUME NEW n \in Ids, state[n] = "failed"
                 PROVE  /\ Node = n
                        /\ Visited = {order[i] : i \in 1..pos}
                        /\ \A i \in 1..(pos - 1) : state[order[i]] = "completed"
      BY DEF FailureStopsTheGraph
    <3>1. PICK k \in 1..Len(order) : order[k] = n
      BY <2>2 DEF Visited
    <3>2. ~(k < pos) /\ ~(k > pos)
      BY <2>1, <3>1
    <3>3. k = pos
      BY <2>1, <3>2
    <3>4. Node = n /\ pos <= Len(order)
      BY <2>1, <3>1, <3>3 DEF Node
    <3>5. \A i \in 1..(pos - 1) : state[order[i]] = "completed"
      BY <2>1, <3>4
    <3>6. \A m \in Visited : \E i \in 1..pos : m = order[i]
      <4> SUFFICES ASSUME NEW m \in Visited PROVE \E i \in 1..pos : m = order[i]
        OBVIOUS
      <4>1. PICK j \in 1..Len(order) : order[j] = m
        BY <2>2 DEF Visited
      <4>2. ~(j > pos)
        BY <2>1, <4>1 DEF Visited
      <4> QED
        BY <2>1, <4>1, <4>2
    <3>7. \A i \in 1..pos : order[i] \in Visited
      <4> SUFFICES ASSUME NEW i \in 1..pos PROVE order[i] \in Visited
        OBVIOUS
      <4>1. order[i] \in Ids
        BY <2>1, <3>4, ElementOfSeq
      <4>2. state[order[i]] \in {"completed", "failed"}
        BY <2>1, <3>1, <3>3, <3>5
      <4> QED
        BY <4>1, <4>2 DEF Visited
    <3> QED
      BY <3>4, <3>5, <3>6, <3>7
  <2>4. SuccessIsWholeGraph
    <3> SUFFICES ASSUME pc \in {"finishing", "returned"}, Succeeded, NEW n \in Ids
                 PROVE  state[n] = "completed" /\ n \in outputs
      BY DEF SuccessIsWholeGraph
    <3>1. ~(pos <= Len(order))
      <4> SUFFICES ASSUME pos <= Len(order) PROVE FALSE
        OBVIOUS
      <4>1. state[Node] = "failed" /\ Node \in Ids
        BY CurrentNodeFacts DEF EngineInv, CurrentNode
      <4> QED
        BY <4>1 DEF Succeeded, Visited
    <3>2. Ordered
      BY DEF EngineInv, OrderIsComputed
    <3>3. PICK k \in 1..Len(order) : order[k] = n
      BY <3>2, OrderFacts DEF EngineInv, IsTopologicalOrder
    <3>4. k < pos
      BY <2>1, <3>1
    <3> QED
      BY <2>1, <3>3, <3>4
  <2> QED
    BY <2>3, <2>4 DEF OutcomeIsHonest, EngineInv
<1> QED
  BY <1>1, EngineInvariant, PTL
-----------------------------------------------------------------------------
(* The story pipeline. First its recursions, unfolded.                     *)

Cuts ==
  [done : Seq([text : Seq(Nat), start_time : Nat, end_time : Nat]),
   current : Seq(Nat), length : Nat, time : Nat]

\* What a flush makes of the variables of the loop.
LEMMA FlushIsCut ==
  ASSUME NEW cut \in Cuts
  PROVE  /\ Flush(cut) \in Cuts
         /\ cut.current # <<>> =>
              /\ Flush(cut).done = Append(cut.done, [text |-> cut.current,
                     start_time |-> cut.time, end_time |-> cut.time + cut.length])
              /\ Flush(cut).current = <<>> /\ Flush(cut).length = 0
              /\ Flush(cut).time = cut.time + cut.length
<1> DEFINE piece == [text |-> cut.current, start_time |-> cut.time,
                     end_time |-> cut.time + cut.length]
           Pieces == [text : Seq(Nat), start_time : Nat, end_time : Nat]
<1>1. /\ cut.done \in Seq(Pieces) /\ cut.current \in Seq(Nat)
      /\ cut.length \in Nat /\ cut.time \in Nat
  BY DEF Cuts
<1>2. piece \in Pieces /\ cut.time + cut.length \in Nat
  BY <1>1
<1>3. Append(cut.done, piece) \in Seq(Pieces)
  BY <1>1, <1>2, AppendProperties
<1>4. <<>> \in Seq(Nat)
  BY EmptySeq
<1>5. CASE cut.current = <<>>
  BY <1>5 DEF Flush
<1>6. CASE cut.current # <<>>
  <2>1. Flush(cut) = [done |-> Append(cut.done, piece), current |-> <<>>, length |-> 0,
                      time |-> cut.time + cut.length]
    BY <1>6 DEF Flush
  <2> HIDE DEF piece, Pieces
  <2>2. /\ Flush(cut).done = Append(cut.done, piece)
        /\ Flush(cut).current = <<>> /\ Flush(cut).length = 0
        /\ Flush(cut).time = cut.time + cut.length
    BY <2>1
  <2>3. Flush(cut) \in Cuts
    BY <1>2, <1>3, <1>4, <2>1 DEF Cuts, Pieces
  <2> QED
    BY <2>2, <2>3 DEF piece
<1> QED
  BY <1>5, <1>6

\* What taking a sentence makes of them.
LEMMA TakingIsCut ==
  ASSUME NEW cut \in Cuts, NEW i \in Nat, NEW estimate \in Nat
  PROVE  /\ Taking(cut, i, estimate) \in Cuts
         /\ Taking(cut, i, estimate).done = cut.done
         /\ Taking(cut, i, estimate).current = Append(cut.current, i)
         /\ Taking(cut, i, estimate).length = cut.length + estimate
         /\ Taking(cut, i, estimate).time = cut.time
<1>1. cut.current \in Seq(Nat) /\ cut.length \in Nat
  BY DEF Cuts
<1>2. Append(cut.current, i) \in Seq(Nat) /\ cut.length + estimate \in Nat
  BY <1>1, AppendProperties
<1> QED
  BY <1>2 DEF Taking, Cuts

\* The loop over the sentences, one sentence after the other.
LEMMA CuttingRecursion ==
  ASSUME NEW text \in Seq(Nat)
  PROVE  /\ Cutting(text) \in [0..Len(text) -> Cuts]
         /\ Cutting(text)[0] = NothingYet
         /\ \A i \in 1..Len(text) :
              Cutting(text)[i] = AddSentence(Cutting(text)[i - 1], i, text[i])
<1> DEFINE N == Len(text)
           next(x, i) == AddSentence(x, i, text[i])
           step == [x \in (1..N) \X Cuts |-> next(x[2], x[1])]
           Solves(f) == f = [i \in 0..N |-> IF i = 0 THEN NothingYet ELSE next(f[i - 1], i)]
           f == Cutting(text)
<1>1. N \in Nat /\ \A i \in 1..N : text[i] \in Nat
  BY LenProperties, ElementOfSeq
<1>2. NothingYet \in Cuts
  BY EmptySeq DEF NothingYet, Cuts
<1>3. \A i \in 1..N, x \in Cuts : next(x, i) \in Cuts
  <2> TAKE i \in 1..N, x \in Cuts
  <2> DEFINE y == IF Overfull(x, text[i]) THEN Flush(x) ELSE x
  <2>1. y \in Cuts
    BY FlushIsCut
  <2>2. next(x, i) = Taking(y, i, text[i])
    BY DEF AddSentence
  <2>3. i \in Nat /\ text[i] \in Nat
    BY <1>1
  <2> HIDE DEF y, next
  <2> QED
    BY <2>1, <2>2, <2>3, TakingIsCut
<1> HIDE DEF next
<1>4. step \in [(1..N) \X Cuts -> Cuts]
  BY <1>3
<1>5. \A i \in 1..N, x \in Cuts : step[<<i, x>>] = next(x, i)
  OBVIOUS
<1> HIDE DEF N, step
<1>6. PICK g : Follows(g, N, Cuts, NothingYet, step)
  BY <1>1, <1>2, <1>4, RecursionExists
<1>7. ASSUME NEW i \in 1..N PROVE g[i] = next(g[i - 1], i)
  <2>1. i - 1 \in 0..N
    BY <1>1
  <2>2. g[i - 1] \in Cuts
    BY <1>6, <2>1 DEF Follows
  <2> QED
    BY <1>5, <1>6, <2>2 DEF Follows
<1>8. Solves(g)
  <2>1. DOMAIN g = 0..N /\ g = [i \in 0..N |-> g[i]]
    BY <1>6 DEF Follows
  <2>2. \A i \in 0..N : g[i] = IF i = 0 THEN NothingYet ELSE next(g[i - 1], i)
    <3>1. \A i \in 0..N : i = 0 \/ i \in 1..N
      BY <1>1
    <3> QED
      BY <1>6, <1>7, <3>1 DEF Follows
  <2> QED
    BY <2>1, <2>2
<1>9. Solves(f)
  <2>1. f = CHOOSE h : Solves(h)
    BY DEF Cutting, N, next
  <2> HIDE DEF Solves, f
  <2> QED
    BY <1>8, <2>1
<1> HIDE DEF f
<1>10. DOMAIN f = 0..N /\ f[0] = NothingYet /\ f = [i \in 0..N |-> f[i]]
  BY <1>1, <1>9
<1>11. ASSUME NEW i \in 1..N PROVE f[i] = next(f[i - 1], i)
  <2>1. i \in 0..N /\ i # 0
    BY <1>1
  <2> QED
    BY <1>9, <2>1
<1> HIDE DEF Solves
<1>12. \A i \in 0..N : f[i] \in Cuts
  <2> DEFINE I == {i \in 0..N : f[i] \in Cuts}
  <2>1. 0 \in I
    BY <1>1, <1>2, <1>10
  <2>2. ASSUME NEW n \in 0..(N - 1), n \in I PROVE n + 1 \in I
    <3>1. n + 1 \in 1..N /\ n + 1 \in 0..N /\ (n + 1) - 1 = n
      BY <1>1
    <3>2. f[n + 1] = next(f[n], n + 1)
      BY <1>11, <3>1
    <3> QED
      BY <1>3, <2>2, <3>1, <3>2
  <2> HIDE DEF I
  <2>3. 0..N \subseteq I
    BY <1>1, <2>1, <2>2, IntervalInduction
  <2> QED
    BY <2>3 DEF I
<1>13. f \in [0..N -> Cuts]
  BY <1>10, <1>12
<1> QED
  BY <1>10, <1>11, <1>13 DEF f, N, next

\* The length of the text up to a sentence.
LEMMA ElapsedRecursion ==
  ASSUME NEW text \in Seq(Nat)
  PROVE  /\ Elapsed(text) \in [0..Len(text) -> Nat]
         /\ Elapsed(text)[0] = 0
         /\ \A i \in 1..Len(text) : Elapsed(text)[i] = Elapsed(text)[i - 1] + text[i]
<1> DEFINE N == Len(text)
           step == [x \in (1..N) \X Nat |-> x[2] + text[x[1]]]
           Solves(f) == f = [n \in 0..N |-> IF n = 0 THEN 0 ELSE f[n - 1] + text[n]]
           f == Elapsed(text)
<1>1. N \in Nat /\ \A i \in 1..N : text[i] \in Nat
  BY LenProperties, ElementOfSeq
<1>2. step \in [(1..N) \X Nat -> Nat]
  BY <1>1
<1>3. \A i \in 1..N, x \in Nat : step[<<i, x>>] = x + text[i]
  OBVIOUS
<1> HIDE DEF N, step
<1>4. PICK g : Follows(g, N, Nat, 0, step)
  BY <1>1, <1>2, RecursionExists
<1>5. ASSUME NEW i \in 1..N PROVE g[i] = g[i - 1] + text[i]
  <2>1. i - 1 \in 0..N
    BY <1>1
  <2>2. g[i - 1] \in Nat
    BY <1>4, <2>1 DEF Follows
  <2> QED
    BY <1>3, <1>4, <2>2 DEF Follows
<1>6. Solves(g)
  <2>1. DOMAIN g = 0..N /\ g = [i \in 0..N |-> g[i]]
    BY <1>4 DEF Follows
  <2>2. \A i \in 0..N : g[i] = IF i = 0 THEN 0 ELSE g[i - 1] + text[i]
    <3>1. \A i \in 0..N : i = 0 \/ i \in 1..N
      BY <1>1
    <3> QED
      BY <1>4, <1>5, <3>1 DEF Follows
  <2> QED
    BY <2>1, <2>2
<1>7. Solves(f)
  <2>1. f = CHOOSE h : Solves(h)
    BY DEF Elapsed, N
  <2> HIDE DEF Solves, f
  <2> QED
    BY <1>6, <2>1
<1> HIDE DEF f
<1>8. DOMAIN f = 0..N /\ f[0] = 0 /\ f = [i \in 0..N |-> f[i]]
  BY <1>1, <1>7
<1>9. ASSUME NEW i \in 1..N PROVE f[i] = f[i - 1] + text[i]
  <2>1. i \in 0..N /\ i # 0
    BY <1>1
  <2> QED
    BY <1>7, <2>1
<1> HIDE DEF Solves
<1>10. \A i \in 0..N : f[i] \in Nat
  <2> DEFINE I == {i \in 0..N : f[i] \in Nat}
  <2>1. 0 \in I
    BY <1>1, <1>8
  <2>2. ASSUME NEW n \in 0..(N - 1), n \in I PROVE n + 1 \in I
    <3>1. n + 1 \in 1..N /\ n + 1 \in 0..N /\ (n + 1) - 1 = n
      BY <1>1
    <3>2. f[n + 1] = f[n] + text[n + 1]
      BY <1>9, <3>1
    <3> QED
      BY <1>1, <2>2, <3>1, <3>2
  <2> HIDE DEF I
  <2>3. 0..N \subseteq I
    BY <1>1, <2>1, <2>2, IntervalInduction
  <2> QED
    BY <2>3 DEF I
<1>11. f \in [0..N -> Nat]
  BY <1>8, <1>10
<1> QED
  BY <1>8, <1>9, <1>11 DEF f, N

\* The length of the film up to a picture.
LEMMA RunningRecursion ==
  ASSUME Len(scenes) \in Nat, \A i \in 1..Len(scenes) : Duration(i) \in Int
  PROVE  /\ \A i \in 1..Len(scenes) : Running[i] \in Int
         /\ Len(scenes) > 0 => Running[1] = Duration(1)
         /\ \A i \in 2..Len(scenes) :
              Running[i] = Running[i - 1] + Duration(i) - Transition
<1> DEFINE N == Len(scenes)
           next(x, n) == IF n = 1 THEN Duration(1) ELSE x + Duration(n) - Transition
           step == [x \in (1..N) \X Int |-> next(x[2], x[1])]
           Solves(f) == f = [n \in 1..N |-> next(f[n - 1], n)]
           f == Running
<1>1. N \in Nat /\ 0 \in Int
  OBVIOUS
<1>2. \A i \in 1..N, x \in Int : next(x, i) \in Int
  <2>1. (\A i \in 1..N : Duration(i) \in Int) /\ Transition \in Int
    BY StoryAssumption
  <2> QED
    BY <2>1
<1> HIDE DEF next, N
<1>3. step \in [(1..N) \X Int -> Int]
  BY <1>2
<1>4. \A i \in 1..N, x \in Int : step[<<i, x>>] = next(x, i)
  OBVIOUS
<1> HIDE DEF step
<1>5. PICK g : Follows(g, N, Int, 0, step)
  BY <1>1, <1>3, RecursionExists
<1>6. ASSUME NEW i \in 1..N PROVE g[i] = next(g[i - 1], i)
  <2>1. i - 1 \in 0..N
    BY <1>1
  <2>2. g[i - 1] \in Int
    BY <1>5, <2>1 DEF Follows
  <2> QED
    BY <1>4, <1>5, <2>2 DEF Follows
<1> DEFINE h == [i \in 1..N |-> g[i]]
<1>7. Solves(h)
  <2>1. ASSUME NEW i \in 1..N PROVE g[i] = next(h[i - 1], i)
    <3>1. CASE i = 1
      BY <1>6, <3>1 DEF next
    <3>2. CASE i # 1
      <4>1. h[i - 1] = g[i - 1]
        BY <1>1, <3>2
      <4> QED
        BY <1>6, <4>1
    <3> QED
      BY <3>1, <3>2
  <2> QED
    BY <2>1
<1>8. Solves(f)
  <2>1. f = CHOOSE r : Solves(r)
    BY DEF Running, N, next
  <2> HIDE DEF Solves, f, h
  <2> QED
    BY <1>7, <2>1
<1> HIDE DEF f, h
<1>9. \A i \in 1..N : f[i] = next(f[i - 1], i)
  BY <1>8
<1> HIDE DEF Solves
<1>10. \A i \in 1..N : f[i] \in Int
  <2> DEFINE I == {i \in 0..N : i > 0 => f[i] \in Int}
  <2>1. 0 \in I
    BY <1>1
  <2>2. ASSUME NEW n \in 0..(N - 1), n \in I PROVE n + 1 \in I
    <3>1. n + 1 \in 1..N /\ n + 1 \in 0..N /\ (n + 1) - 1 = n
      BY <1>1
    <3>2. f[n + 1] = next(f[n], n + 1)
      BY <1>9, <3>1
    <3>3. CASE n = 0
      <4>1. f[n + 1] = next(0, n + 1)
        BY <3>2, <3>3 DEF next
      <4> QED
        BY <1>1, <1>2, <3>1, <4>1
    <3>4. CASE n > 0
      BY <1>2, <2>2, <3>1, <3>2, <3>4
    <3> QED
      BY <3>3, <3>4
  <2> HIDE DEF I
  <2>3. 0..N \subseteq I
    BY <1>1, <2>1, <2>2, IntervalInduction
  <2> QED
    BY <1>1, <2>3 DEF I
<1>11. N > 0 => f[1] = Duration(1)
  BY <1>1, <1>9 DEF next
<1>12. ASSUME NEW i \in 2..N PROVE f[i] = f[i - 1] + Duration(i) - Transition
  <2>1. i \in 1..N /\ i # 1
    BY <1>1
  <2>2. f[i] = next(f[i - 1], i)
    BY <1>9, <2>1
  <2> QED
    BY <2>1, <2>2 DEF next
<1> QED
  BY <1>10, <1>11, <1>12 DEF f, N

-----------------------------------------------------------------------------
(* The loop invariant of segment_text().                                   *)

\* The first i sentences are cut: those from the `from`-th on are collected.
SegInv(text, cut, i) ==
  LET m == Len(cut.current)
      from == i - m
  IN
  /\ cut \in Cuts /\ from \in Nat /\ m \in Nat
  /\ \A k \in 1..m : cut.current[k] = from + k
  /\ i > 0 => m > 0
  /\ cut.time = Elapsed(text)[from] /\ cut.time + cut.length = Elapsed(text)[i]
  /\ m > 1 => cut.length <= MaxSceneDuration
  /\ Tiles(cut.done, text, from)
  /\ Len(cut.done) <= from
  /\ \A j \in 1..Len(cut.done) : cut.done[j].text \in Seq(1..from)
  /\ cut.done # <<>> /\ m > 0 =>
       LET last == cut.done[Len(cut.done)]
       IN (last.end_time - last.start_time) + text[from + 1] > MaxSceneDuration

\* What is left once the collected sentences have become a scene.
Flushed(text, cut, i) ==
  /\ Tiles(cut.done, text, i)
  /\ cut.done # <<>> /\ Len(cut.done) <= i
  /\ \A j \in 1..Len(cut.done) : cut.done[j].text \in Seq(1..i)

\* A flush closes a scene that goes on where the last one ended.
LEMMA FlushTiles ==
  ASSUME NEW text \in Seq(Nat), NEW i \in 0..Len(text), NEW cut, SegInv(text, cut, i),
         cut.current # <<>>
  PROVE  /\ Flush(cut) \in Cuts /\ Flushed(text, Flush(cut), i)
         /\ Flush(cut).current = <<>> /\ Flush(cut).length = 0
         /\ Flush(cut).time = Elapsed(text)[i]
         /\ LET last == Flush(cut).done[Len(Flush(cut).done)]
            IN last.end_time - last.start_time = cut.length
<1> DEFINE m == Len(cut.current)
           from == i - m
           d == cut.done
           L == Len(d)
           c == Flush(cut)
           e == c.done
           E == Elapsed(text)
           piece == [text |-> cut.current, start_time |-> cut.time,
                     end_time |-> cut.time + cut.length]
           Pieces == [text : Seq(Nat), start_time : Nat, end_time : Nat]
<1>0. i \in Nat
  BY LenProperties
<1>1. /\ cut \in Cuts /\ from \in Nat /\ m \in Nat
      /\ \A k \in 1..m : cut.current[k] = from + k
      /\ cut.time = E[from] /\ cut.time + cut.length = E[i]
      /\ (m > 1 => cut.length <= MaxSceneDuration)
  BY DEF SegInv
<1>21. /\ Tiles(d, text, from)
       /\ L <= from
       /\ \A j \in 1..L : d[j].text \in Seq(1..from)
       /\ (d # <<>> /\ m > 0 =>
             (d[L].end_time - d[L].start_time) + text[from + 1] > MaxSceneDuration)
  BY DEF SegInv
<1>2. /\ d \in Seq(Pieces) /\ cut.current \in Seq(Nat) /\ L \in Nat
      /\ cut.length \in Nat /\ cut.time \in Nat
  BY <1>1, LenProperties DEF Cuts
<1>3. /\ c \in Cuts /\ e = Append(d, piece)
      /\ c.current = <<>> /\ c.length = 0 /\ c.time = cut.time + cut.length
  BY <1>1, FlushIsCut
<1>4. m > 0
  BY <1>1, <1>2, EmptySeq
<1>5. piece \in Pieces
  BY <1>2
<1>6. /\ Len(e) = L + 1 /\ e[L + 1] = piece /\ \A j \in 1..L : e[j] = d[j]
  BY <1>2, <1>3, <1>5, AppendProperties
<1>7. /\ piece.text = cut.current /\ piece.start_time = E[from] /\ piece.end_time = E[i]
      /\ piece.end_time - piece.start_time = cut.length
  BY <1>1, <1>2
<1>20. from = i - m /\ i = from + m /\ from <= i /\ from + 1 <= i
  BY <1>0, <1>1, <1>4
<1> HIDE DEF piece, Pieces, c, d, L, E, m, from
<1>8. Last(piece) = i
  <2>1. piece.text[m] = from + m
    BY <1>1, <1>4, <1>7
  <2> QED
    BY <1>7, <1>20, <2>1 DEF Last, m
<1>9. from = IF L = 0 THEN 0 ELSE Last(d[L])
  <2>1. from = IF d = <<>> THEN 0 ELSE Last(d[Len(d)])
    BY <1>21 DEF Tiles
  <2>2. d = <<>> <=> L = 0
    BY <1>2, EmptySeq DEF L
  <2> QED
    BY <2>1, <2>2 DEF L
<1> DEFINE first(list, j) == IF j = 1 THEN 1 ELSE Last(list[j - 1]) + 1
           Good(list, j) ==
             /\ list[j].text # <<>>
             /\ \A k \in 1..Len(list[j].text) : list[j].text[k] = first(list, j) + (k - 1)
             /\ list[j].start_time = E[first(list, j) - 1]
             /\ list[j].end_time = E[Last(list[j])]
             /\ (list[j].end_time - list[j].start_time > MaxSceneDuration
                  => Len(list[j].text) = 1)
             /\ (j > 1 => (list[j - 1].end_time - list[j - 1].start_time)
                            + text[first(list, j)] > MaxSceneDuration)
<1>10. \A j \in 1..L : Good(d, j)
  BY <1>21 DEF Tiles, L, E
<1>11. ASSUME NEW j \in 1..L PROVE Good(e, j)
  <2>1. e[j] = d[j] /\ (j > 1 => e[j - 1] = d[j - 1])
    BY <1>2, <1>6
  <2>2. first(e, j) = first(d, j)
    BY <2>1
  <2> QED
    BY <1>10, <2>1, <2>2
<1>12. Good(e, L + 1)
  <2>1. first(e, L + 1) = from + 1
    <3>1. CASE L = 0
      BY <1>9, <3>1
    <3>2. CASE L # 0
      <4>1. e[L] = d[L] /\ (L + 1) - 1 = L /\ L + 1 # 1
        BY <1>2, <1>6, <3>2
      <4> QED
        BY <1>9, <3>2, <4>1
    <3> QED
      BY <3>1, <3>2
  <2> HIDE DEF first
  <2>2. \A k \in 1..m : cut.current[k] = (from + 1) + (k - 1)
    <3> TAKE k \in 1..m
    <3>1. cut.current[k] = from + k
      BY <1>1
    <3>2. k \in Int /\ from \in Int
      BY <1>1
    <3> QED
      BY <3>1, <3>2
  <2>3. (from + 1) - 1 = from
    BY <1>1
  <2>4. cut.length > MaxSceneDuration => m = 1
    <3>1. m > 1 => ~(cut.length > MaxSceneDuration)
      BY <1>1, <1>2, StoryAssumption
    <3> QED
      BY <1>1, <1>4, <3>1
  <2>5. L + 1 > 1 => (e[(L + 1) - 1].end_time - e[(L + 1) - 1].start_time)
                     + text[from + 1] > MaxSceneDuration
    <3>1. L + 1 > 1 => d # <<>> /\ (L + 1) - 1 = L /\ L \in 1..L
      BY <1>2, EmptySeq DEF L
    <3> QED
      BY <1>4, <1>6, <1>21, <3>1
  <2>6. /\ e[L + 1].text = cut.current /\ Len(cut.current) = m
        /\ e[L + 1].start_time = E[from] /\ e[L + 1].end_time = E[i]
        /\ e[L + 1].end_time - e[L + 1].start_time = cut.length
        /\ Last(e[L + 1]) = i
    BY <1>6, <1>7, <1>8 DEF m
  <2> QED
    BY <2>1, <2>2, <2>3, <2>4, <2>5, <2>6
<1>13. \A j \in 1..(L + 1) : Good(e, j)
  <2>1. \A j \in 1..(L + 1) : j \in 1..L \/ j = L + 1
    BY <1>2
  <2> HIDE DEF Good
  <2> QED
    BY <1>11, <1>12, <2>1
<1>14. e # <<>>
  BY <1>2, <1>6, EmptySeq
<1>15. Tiles(e, text, i)
  <2>1. i = Last(e[Len(e)])
    BY <1>6, <1>8
  <2> HIDE DEF e
  <2> QED
    BY <1>6, <1>13, <1>14, <2>1 DEF Tiles, E
<1>16. Len(e) <= i
  <2>1. L <= from
    BY <1>21
  <2> QED
    BY <1>0, <1>1, <1>2, <1>6, <1>20, <2>1
<1>17. ASSUME NEW j \in 1..Len(e) PROVE e[j].text \in Seq(1..i)
  <2>1. CASE j \in 1..L
    <3>1. 1..from \subseteq 1..i
      BY <1>0, <1>1, <1>20
    <3> QED
      BY <1>6, <1>21, <2>1, <3>1, SeqMonotonic
  <2>2. CASE j = L + 1
    <3>1. \A k \in 1..m : from + k \in 1..i
      BY <1>0, <1>1, <1>20
    <3>2. \A k \in 1..m : cut.current[k] \in 1..i
      BY <1>1, <3>1
    <3>3. cut.current \in [1..m -> 1..i]
      BY <1>2, <3>2, LenProperties DEF m
    <3>4. cut.current \in Seq(1..i)
      BY <1>1, <3>3, SeqDef
    <3> QED
      BY <1>6, <1>7, <2>2, <3>4
  <2> QED
    BY <1>2, <1>6, <2>1, <2>2
<1>18. Flushed(text, c, i)
  BY <1>14, <1>15, <1>16, <1>17 DEF Flushed
<1>19. e[Len(e)].end_time - e[Len(e)].start_time = cut.length
  BY <1>6, <1>7
<1> QED
  BY <1>1, <1>3, <1>18, <1>19 DEF c, E
\* The invariant of the loop is kept by the next sentence.
LEMMA AddSentenceHolds ==
  ASSUME NEW text \in Seq(Nat), NEW i \in 0..(Len(text) - 1), NEW cut, SegInv(text, cut, i)
  PROVE  SegInv(text, AddSentence(cut, i + 1, text[i + 1]), i + 1)
<1> DEFINE E == Elapsed(text)
           word == text[i + 1]
           c == IF Overfull(cut, word) THEN Flush(cut) ELSE cut
           a == Taking(c, i + 1, word)
           m == Len(cut.current)
           from == i - m
           d == cut.done
           Close(list) == (list[Len(list)].end_time - list[Len(list)].start_time)
                            + word > MaxSceneDuration
<1>1. i \in Nat /\ i + 1 \in 1..Len(text) /\ (i + 1) - 1 = i /\ i \in 0..Len(text)
  BY LenProperties
<1>2. word \in Nat /\ E[i] \in Nat /\ E[i + 1] = E[i] + word
  <2>1. word \in Nat
    BY <1>1, ElementOfSeq
  <2>2. E[i + 1] = E[(i + 1) - 1] + word /\ E[i] \in Nat
    BY <1>1, ElapsedRecursion
  <2> QED
    BY <1>1, <2>1, <2>2
<1>3. AddSentence(cut, i + 1, word) = a
  BY DEF AddSentence
<1>4. /\ cut \in Cuts /\ from \in Nat /\ m \in Nat
      /\ \A k \in 1..m : cut.current[k] = from + k
      /\ i > 0 => m > 0
      /\ cut.time = E[from] /\ cut.time + cut.length = E[i]
      /\ m > 1 => cut.length <= MaxSceneDuration
      /\ Tiles(d, text, from)
      /\ Len(d) <= from
      /\ \A j \in 1..Len(d) : d[j].text \in Seq(1..from)
      /\ d # <<>> /\ m > 0 =>
           (d[Len(d)].end_time - d[Len(d)].start_time) + text[from + 1] > MaxSceneDuration
  BY DEF SegInv
<1>5. from = i - m /\ i = from + m /\ from <= i
  BY <1>1, <1>4
<1> HIDE DEF E, word, c
<1>8. ASSUME c \in Cuts
      PROVE  /\ a \in Cuts /\ a.done = c.done /\ a.current = Append(c.current, i + 1)
             /\ a.length = c.length + word /\ a.time = c.time
  <2>1. i + 1 \in Nat /\ word \in Nat
    BY <1>1, <1>2
  <2> QED
    BY <1>8, <2>1, TakingIsCut
<1> HIDE DEF a
<1>6. CASE Overfull(cut, word)
  <2>1. cut.current # <<>> /\ cut.length + word > MaxSceneDuration /\ c = Flush(cut)
    BY <1>6 DEF Overfull, c
  <2>2. /\ c \in Cuts /\ Flushed(text, c, i)
        /\ c.current = <<>> /\ c.length = 0 /\ c.time = E[i]
        /\ c.done[Len(c.done)].end_time - c.done[Len(c.done)].start_time = cut.length
    BY <1>1, <2>1, FlushTiles DEF E
  <2>3. /\ a \in Cuts /\ a.done = c.done /\ a.current = Append(<<>>, i + 1)
        /\ a.length = 0 + word /\ a.time = E[i]
    BY <1>8, <2>2
  <2>4. Len(a.current) = 1 /\ a.current[1] = i + 1
    <3>1. <<>> \in Seq(Nat) /\ i + 1 \in Nat /\ Len(<<>>) = 0
      BY <1>1, EmptySeq
    <3> QED
      BY <2>3, <3>1, AppendProperties
  <2>5. (i + 1) - Len(a.current) = i
    BY <1>1, <2>4
  <2>6. \A k \in 1..1 : a.current[k] = i + k
    BY <2>4
  <2>7. a.time + a.length = E[i + 1]
    BY <1>2, <2>3
  <2>8. Tiles(a.done, text, i) /\ Len(a.done) <= i
        /\ \A j \in 1..Len(a.done) : a.done[j].text \in Seq(1..i)
    BY <2>2, <2>3 DEF Flushed
  <2>9. Close(a.done)
    BY <2>1, <2>2, <2>3
  <2>10. SegInv(text, a, i + 1)
    BY <1>1, <2>3, <2>4, <2>5, <2>6, <2>7, <2>8, <2>9 DEF SegInv, E, word
  <2> QED
    BY <1>3, <2>10 DEF word
<1>7. CASE ~Overfull(cut, word)
  <2>1. c = cut
    BY <1>7 DEF c
  <2>2. /\ a \in Cuts /\ a.done = d /\ a.current = Append(cut.current, i + 1)
        /\ a.length = cut.length + word /\ a.time = cut.time
    BY <1>4, <1>8, <2>1
  <2>3. /\ cut.current \in Seq(Nat) /\ d \in Seq([text : Seq(Nat), start_time : Nat, end_time : Nat])
        /\ cut.length \in Nat /\ cut.time \in Nat
    BY <1>4 DEF Cuts
  <2>4. /\ Len(a.current) = m + 1 /\ a.current[m + 1] = i + 1
        /\ \A k \in 1..m : a.current[k] = cut.current[k]
    <3>1. i + 1 \in Nat
      BY <1>1
    <3> QED
      BY <2>2, <2>3, <3>1, AppendProperties
  <2>5. cut.current = <<>> <=> m = 0
    BY <2>3, EmptySeq
  <2>6. d = <<>> <=> Len(d) = 0
    BY <2>3, EmptySeq
  <2>7. Len(d) \in Nat
    BY <2>3, LenProperties
  <2> HIDE DEF m, from, d
  <2>8. (i + 1) - Len(a.current) = from
    BY <1>1, <1>4, <1>5, <2>4
  <2>9. \A k \in 1..(m + 1) : a.current[k] = from + k
    <3> TAKE k \in 1..(m + 1)
    <3>1. k \in 1..m \/ k = m + 1
      BY <1>4
    <3>2. from + (m + 1) = i + 1
      BY <1>4, <1>5
    <3> QED
      BY <1>4, <2>4, <3>1, <3>2
  <2>10. a.time = E[from] /\ a.time + a.length = E[i + 1]
    <3>1. cut.time = E[from] /\ cut.time + cut.length = E[i]
      BY <1>4
    <3>2. cut.time \in Nat /\ cut.length \in Nat /\ word \in Nat /\ E[i + 1] = E[i] + word
      BY <1>2, <2>3
    <3>3. a.time = cut.time /\ a.length = cut.length + word
      BY <2>2
    <3> QED
      BY <3>1, <3>2, <3>3
  <2>11. m + 1 > 1 => a.length <= MaxSceneDuration
    <3>1. m + 1 > 1 => ~(cut.length + word > MaxSceneDuration)
      BY <1>4, <1>7, <2>5 DEF Overfull
    <3> QED
      BY <1>2, <2>2, <2>3, <3>1, StoryAssumption
  <2>12. d # <<>> =>
           (d[Len(d)].end_time - d[Len(d)].start_time) + text[from + 1] > MaxSceneDuration
    <3>1. d # <<>> => m > 0
      BY <1>1, <1>4, <1>5, <2>6, <2>7
    <3> QED
      BY <1>4, <3>1
  <2>13. m + 1 \in Nat /\ m + 1 > 0
    BY <1>4
  <2>14. SegInv(text, a, i + 1)
    BY <1>4, <2>2, <2>4, <2>8, <2>9, <2>10, <2>11, <2>12, <2>13 DEF SegInv, E
  <2> QED
    BY <1>3, <2>14 DEF word
<1> QED
  BY <1>6, <1>7

Pieces(limit) == [text : Seq(1..limit), start_time : Nat, end_time : Nat]

\* The scenes of an article tile it, and none of them is without a sentence.
LEMMA SegmentTiles ==
  ASSUME NEW text \in Seq(Nat)
  PROVE  /\ Tiles(SegmentText(text), text, Len(text))
         /\ SegmentText(text) \in Seq(Pieces(Len(text)))
         /\ Len(SegmentText(text)) <= Len(text)
<1> DEFINE N == Len(text)
           f == Cutting(text)
           I == {i \in 0..N : SegInv(text, f[i], i)}
<1>1. N \in Nat
  BY LenProperties
<1>2. /\ f \in [0..N -> Cuts] /\ f[0] = NothingYet
      /\ \A i \in 1..N : f[i] = AddSentence(f[i - 1], i, text[i])
  BY CuttingRecursion
<1> HIDE DEF f
<1>3. SegInv(text, f[0], 0)
  <2>1. NothingYet \in Cuts
    BY EmptySeq DEF NothingYet, Cuts
  <2>2. NothingYet.done = <<>> /\ NothingYet.current = <<>> /\ NothingYet.time = 0
        /\ NothingYet.length = 0
    BY DEF NothingYet
  <2>3. Len(<<>>) = 0
    BY EmptySeq
  <2>4. Tiles(<<>>, text, 0)
    BY <2>3 DEF Tiles
  <2>5. 0 - 0 = 0 /\ 0 + 0 = 0 /\ \A k : k \notin 1..0
    OBVIOUS
  <2>6. Elapsed(text)[0] = 0
    BY ElapsedRecursion
  <2> QED
    BY <1>2, <2>1, <2>2, <2>3, <2>4, <2>5, <2>6 DEF SegInv
<1>4. ASSUME NEW i \in 0..(N - 1), SegInv(text, f[i], i) PROVE SegInv(text, f[i + 1], i + 1)
  <2>1. i + 1 \in 1..N /\ (i + 1) - 1 = i
    BY <1>1
  <2>2. f[i + 1] = AddSentence(f[i], i + 1, text[i + 1])
    BY <1>2, <2>1
  <2> QED
    BY <1>4, <2>2, AddSentenceHolds
<1>5. 0..N \subseteq I
  <2>1. 0 \in I /\ \A i \in 0..(N - 1) : i \in I => i + 1 \in I
    BY <1>1, <1>3, <1>4
  <2> HIDE DEF I
  <2> QED
    BY <1>1, <2>1, IntervalInduction
<1> DEFINE cut == f[N]
           list == SegmentText(text)
<1>6. SegInv(text, cut, N) /\ cut \in Cuts
  BY <1>1, <1>2, <1>5
<1>7. list = Flush(cut).done
  BY DEF SegmentText, f
<1> HIDE DEF cut, list
<1>8. /\ Tiles(list, text, N) /\ Len(list) <= N
      /\ \A j \in 1..Len(list) : list[j].text \in Seq(1..N)
  <2>1. CASE cut.current = <<>>
    <3>1. N = 0 /\ Len(cut.current) = 0
      <4>1. Len(cut.current) = 0
        BY <2>1, EmptySeq
      <4>2. ~(N > 0)
        BY <1>6, <4>1 DEF SegInv
      <4> QED
        BY <1>1, <4>1, <4>2
    <3>2. list = cut.done
      BY <1>7, <2>1 DEF Flush
    <3>3. N - 0 = N
      BY <1>1
    <3> QED
      BY <1>6, <3>1, <3>2, <3>3 DEF SegInv
  <2>2. CASE cut.current # <<>>
    <3>1. N \in 0..Len(text)
      BY <1>1
    <3> QED
      BY <1>6, <1>7, <2>2, <3>1, FlushTiles DEF Flushed
  <2> QED
    BY <2>1, <2>2
<1>9. list \in Seq([text : Seq(Nat), start_time : Nat, end_time : Nat])
  BY <1>6, <1>7, FlushIsCut DEF Cuts
<1>10. \A j \in 1..Len(list) : list[j] \in Pieces(N)
  <2> TAKE j \in 1..Len(list)
  <2>1. list[j] \in [text : Seq(Nat), start_time : Nat, end_time : Nat]
    BY <1>9, ElementOfSeq
  <2>2. list[j].text \in Seq(1..N)
    BY <1>8
  <2> QED
    BY <2>1, <2>2 DEF Pieces
<1>11. list \in Seq(Pieces(N))
  <2>1. Len(list) \in Nat /\ list \in [1..Len(list) -> Pieces(N)]
    BY <1>9, <1>10, LenProperties
  <2> QED
    BY <2>1, SeqDef
<1> QED
  BY <1>8, <1>11 DEF list
-----------------------------------------------------------------------------
(* What follows for the film.                                              *)

\* Text takes time.
LEMMA ElapsedGrows ==
  ASSUME NEW text \in Seq(Nat), NEW a \in 0..Len(text)
  PROVE  \A b \in a..Len(text) : Elapsed(text)[a] <= Elapsed(text)[b]
<1> DEFINE N == Len(text)
           E == Elapsed(text)
           I == {k \in 0..(N - a) : E[a] <= E[a + k]}
<1>1. N \in Nat /\ a \in Nat /\ N - a \in Nat
  BY LenProperties
<1>2. /\ \A i \in 0..N : E[i] \in Nat
      /\ \A i \in 1..N : E[i] = E[i - 1] + text[i] /\ text[i] \in Nat
  BY ElapsedRecursion, ElementOfSeq
<1> HIDE DEF E, N
<1>3. 0 \in I
  BY <1>1, <1>2
<1>4. ASSUME NEW k \in 0..((N - a) - 1), k \in I PROVE k + 1 \in I
  <2>1. a + (k + 1) \in 1..N /\ (a + (k + 1)) - 1 = a + k /\ a + k \in 0..N /\ a \in 0..N
    BY <1>1 DEF N
  <2>2. E[a + (k + 1)] = E[a + k] + text[a + (k + 1)] /\ text[a + (k + 1)] \in Nat
    BY <1>2, <2>1
  <2>3. E[a] \in Nat /\ E[a + k] \in Nat
    BY <1>2, <2>1
  <2>4. E[a] <= E[a + (k + 1)]
    BY <1>4, <2>2, <2>3
  <2> QED
    BY <1>1, <2>4
<1>5. 0..(N - a) \subseteq I
  <2> HIDE DEF I
  <2> QED
    BY <1>1, <1>3, <1>4, IntervalInduction
<1>6. ASSUME NEW b \in a..N PROVE E[a] <= E[b]
  <2>1. b - a \in 0..(N - a) /\ a + (b - a) = b
    BY <1>1
  <2> QED
    BY <1>5, <2>1
<1> QED
  BY <1>6 DEF N, E

Lengths(list, i) == list[i].end_time - list[i].start_time

\* Scenes last, and two neighbours together last longer than the limit.
LEMMA NeighboursAreLong ==
  ASSUME NEW text \in Seq(Nat \ {0}), NEW list \in Seq(Pieces(Len(text))),
         Tiles(list, text, Len(text))
  PROVE  /\ \A i \in 1..Len(list) : Lengths(list, i) \in Int /\ Lengths(list, i) > 0
         /\ \A i \in 2..Len(list) :
              Lengths(list, i - 1) + Lengths(list, i) > MaxSceneDuration
<1> DEFINE N == Len(text)
           E == Elapsed(text)
           first(i) == IF i = 1 THEN 1 ELSE Last(list[i - 1]) + 1
<1>1. N \in Nat /\ Len(list) \in Nat
  BY LenProperties
<1>2. text \in Seq(Nat)
  BY SeqMonotonic
<1>3. /\ \A i \in 0..N : E[i] \in Nat
      /\ \A i \in 1..N : E[i] = E[i - 1] + text[i] /\ text[i] \in Nat /\ text[i] > 0
  <2>1. \A i \in 1..N : text[i] \in Nat \ {0}
    BY ElementOfSeq
  <2>2. \A i \in 1..N : text[i] \in Nat /\ text[i] > 0
    BY <2>1
  <2> QED
    BY <1>2, <2>2, ElapsedRecursion
<1>4. \A i \in 1..Len(list) :
        /\ list[i].text # <<>> /\ list[i].text \in Seq(1..N)
        /\ list[i].start_time \in Nat /\ list[i].end_time \in Nat
        /\ \A k \in 1..Len(list[i].text) : list[i].text[k] = first(i) + (k - 1)
        /\ list[i].start_time = E[first(i) - 1]
        /\ list[i].end_time = E[Last(list[i])]
        /\ i > 1 => Lengths(list, i - 1) + text[first(i)] > MaxSceneDuration
  <2> TAKE i \in 1..Len(list)
  <2>1. list[i] \in Pieces(N)
    BY ElementOfSeq
  <2>2. /\ list[i].text \in Seq(1..N)
        /\ list[i].start_time \in Nat /\ list[i].end_time \in Nat
    BY <2>1 DEF Pieces
  <2> HIDE DEF N
  <2>3. /\ list[i].text # <<>>
        /\ \A k \in 1..Len(list[i].text) : list[i].text[k] = first(i) + (k - 1)
        /\ list[i].start_time = E[first(i) - 1]
        /\ list[i].end_time = E[Last(list[i])]
        /\ i > 1 => Lengths(list, i - 1) + text[first(i)] > MaxSceneDuration
    BY DEF Tiles, Lengths
  <2> QED
    BY <2>2, <2>3
<1> HIDE DEF first, E, N
<1>5. ASSUME NEW i \in 1..Len(list)
      PROVE  /\ first(i) \in 1..N /\ Lengths(list, i) \in Int
             /\ Lengths(list, i) >= text[first(i)]
  <2> DEFINE words == list[i].text
             m == Len(words)
  <2>1. m \in Nat /\ m > 0
    BY <1>4, LenProperties, EmptySeq
  <2>2. words[1] \in 1..N /\ words[m] \in 1..N
    <3>1. words \in Seq(1..N) /\ 1 \in 1..m /\ m \in 1..m
      BY <1>4, <2>1
    <3> QED
      BY <3>1, ElementOfSeq
  <2>3. words[1] = first(i) + (1 - 1) /\ words[m] = first(i) + (m - 1)
    BY <1>4, <2>1
  <2>4. Last(list[i]) = words[m]
    BY DEF Last
  <2> HIDE DEF words, m
  <2>5. Last(list[i]) \in 1..N
    BY <2>2, <2>4
  <2>6. first(i) \in Int
    <3>1. CASE i = 1
      BY <3>1 DEF first
    <3>2. CASE i # 1
      <4>1. i - 1 \in 1..Len(list)
        BY <1>1, <3>2
      <4>2. list[i - 1].text # <<>> /\ list[i - 1].text \in Seq(1..N)
        BY <1>4, <4>1
      <4>3. Len(list[i - 1].text) \in 1..Len(list[i - 1].text)
        BY <4>2, LenProperties, EmptySeq
      <4>4. Last(list[i - 1]) \in 1..N
        BY <4>2, <4>3, ElementOfSeq DEF Last
      <4> QED
        BY <3>2, <4>4 DEF first
    <3> QED
      BY <3>1, <3>2
  <2>10. first(i) \in 1..N /\ first(i) <= Last(list[i])
    <3>1. words[1] = first(i)
      BY <2>3, <2>6
    <3>2. first(i) \in 1..N
      BY <2>2, <3>1
    <3> QED
      BY <1>1, <2>1, <2>3, <2>4, <3>2
  <2>7. E[first(i)] <= E[Last(list[i])]
    <3>1. first(i) \in 0..N /\ Last(list[i]) \in first(i)..N
      BY <1>1, <2>5, <2>10
    <3> QED
      BY <1>2, <3>1, ElapsedGrows DEF E, N
  <2>8. /\ E[first(i)] = E[first(i) - 1] + text[first(i)] /\ text[first(i)] \in Nat
        /\ E[first(i)] \in Nat /\ E[first(i) - 1] \in Nat /\ E[Last(list[i])] \in Nat
    <3>1. first(i) \in 0..N /\ first(i) - 1 \in 0..N /\ Last(list[i]) \in 0..N
      BY <1>1, <2>5, <2>10
    <3> QED
      BY <1>3, <2>10, <3>1
  <2>9. Lengths(list, i) = E[Last(list[i])] - E[first(i) - 1]
    BY <1>4 DEF Lengths
  <2> QED
    BY <2>7, <2>8, <2>9, <2>10
<1>6. ASSUME NEW i \in 1..Len(list) PROVE Lengths(list, i) > 0
  <2>1. text[first(i)] \in Nat /\ text[first(i)] > 0
    BY <1>3, <1>5
  <2> QED
    BY <1>5, <2>1
<1>7. ASSUME NEW i \in 2..Len(list)
      PROVE  Lengths(list, i - 1) + Lengths(list, i) > MaxSceneDuration
  <2>1. i \in 1..Len(list) /\ i > 1 /\ i - 1 \in 1..Len(list)
    BY <1>1
  <2>2. Lengths(list, i - 1) + text[first(i)] > MaxSceneDuration
    BY <1>4, <2>1
  <2>3. /\ Lengths(list, i) >= text[first(i)] /\ Lengths(list, i) \in Int
        /\ Lengths(list, i - 1) \in Int /\ text[first(i)] \in Nat
    BY <1>3, <1>5, <2>1
  <2> QED
    BY <2>2, <2>3, StoryAssumption
<1> QED
  BY <1>5, <1>6, <1>7
\* So the film is longer than a crossfade after two pictures or more, and every
\* crossfade after the first fits: a short scene is made up for by its neighbour
\* (slideshow.py:205-215).  The first one is exempt.
LEMMA FilmFits ==
  ASSUME NEW text \in Seq(Nat \ {0}), scenes \in Seq(Pieces(Len(text))),
         Tiles(scenes, text, Len(text))
  PROVE  CrossfadesFit
<1> DEFINE N == Len(scenes)
           D(i) == Duration(i)
           R == Running
           T == Transition
           I == {k \in 0..N : (k > 1 => R[k] > T) /\ (k + 1 \in 2..N => R[k + 1] > T)}
<1>1. N \in Nat
  BY LenProperties
<1>2. /\ \A i \in 1..N : D(i) \in Int /\ D(i) > 0
      /\ \A i \in 2..N : D(i - 1) + D(i) > MaxSceneDuration
  BY NeighboursAreLong DEF Lengths, Duration
<1> HIDE DEF D
<1>3. /\ \A i \in 1..N : R[i] \in Int
      /\ N > 0 => R[1] = D(1)
      /\ \A i \in 2..N : R[i] = R[i - 1] + D(i) - T
  <2>1. \A i \in 1..N : D(i) \in Int
    BY <1>2
  <2> QED
    BY <1>1, <2>1, RunningRecursion DEF D
<1>4. T \in Nat /\ MaxSceneDuration \in Nat /\ MaxSceneDuration >= 3 * T
  BY StoryAssumption
<1> HIDE DEF N, R, T
\* Two neighbours add more than the two crossfades they lose.
<1>5. \A i \in 2..N : D(i - 1) + D(i) > 3 * T
  <2> TAKE i \in 2..N
  <2>1. i \in 1..N /\ i - 1 \in 1..N /\ D(i - 1) + D(i) > MaxSceneDuration
    BY <1>1, <1>2
  <2>2. D(i) \in Int /\ D(i - 1) \in Int
    BY <1>2, <2>1
  <2> QED
    BY <1>4, <2>1, <2>2
<1>6. 2 \in 2..N => R[2] > 2 * T
  <2> SUFFICES ASSUME 2 \in 2..N PROVE R[2] > 2 * T
    OBVIOUS
  <2>1. 1 \in 1..N /\ 2 \in 1..N /\ 2 - 1 = 1 /\ N > 0
    BY <1>1
  <2>2. R[2] = D(1) + D(2) - T /\ D(1) + D(2) > 3 * T
    BY <1>3, <1>5, <2>1
  <2>3. D(1) \in Int /\ D(2) \in Int
    BY <1>2, <2>1
  <2> QED
    BY <1>4, <2>2, <2>3
<1>7. 0 \in I
  BY <1>1
<1>8. ASSUME NEW k \in 0..(N - 1), k \in I PROVE k + 1 \in I
  <2>1. k + 1 \in 0..N /\ k \in Nat
    BY <1>1
  <2>2. k + 1 > 1 => R[k + 1] > T
    BY <1>1, <1>8, <2>1
  <2>3. ASSUME (k + 1) + 1 \in 2..N PROVE R[(k + 1) + 1] > T
    <3> DEFINE n == k + 2
    <3>1. (k + 1) + 1 = n /\ n \in 2..N /\ n \in 1..N /\ n - 1 = k + 1 /\ k + 1 \in 1..N
      BY <1>1, <2>1, <2>3
    <3>2. R[n] = R[k + 1] + D(n) - T /\ D(n) \in Int /\ D(n) > 0 /\ R[k + 1] \in Int
      BY <1>2, <1>3, <3>1
    <3>3. CASE k = 0
      <4>1. n = 2 /\ 2 \in 2..N /\ 2 \in 1..N
        BY <1>1, <3>1, <3>3
      <4>2. R[2] > 2 * T /\ R[2] \in Int
        BY <1>3, <1>6, <4>1
      <4>3. R[2] > T
        BY <1>4, <4>2
      <4> QED
        BY <3>1, <4>1, <4>3
    <3>4. CASE k = 1
      <4>1. R[2] > 2 * T /\ k + 1 = 2
        BY <1>1, <1>6, <3>1, <3>4
      <4> QED
        BY <1>4, <3>1, <3>2, <4>1
    <3>5. CASE k > 1
      <4>1. k + 1 \in 2..N /\ (k + 1) - 1 = k /\ k \in 1..N
        BY <1>1, <2>1, <3>1, <3>5
      <4>2. R[k + 1] = R[k] + D(k + 1) - T /\ R[k] > T
        BY <1>3, <1>8, <3>5, <4>1
      <4>3. D(k + 1) + D(n) > 3 * T
        BY <1>5, <3>1
      <4>4. D(k + 1) \in Int /\ R[k] \in Int
        BY <1>2, <1>3, <3>1, <4>1
      <4> QED
        BY <1>4, <3>1, <3>2, <4>2, <4>3, <4>4
    <3> QED
      BY <2>1, <3>3, <3>4, <3>5
  <2> QED
    BY <2>1, <2>2, <2>3
<1>9. 0..N \subseteq I
  <2> HIDE DEF I
  <2> QED
    BY <1>1, <1>7, <1>8, IntervalInduction
<1>10. \A i \in 2..N : R[i] > T /\ R[i] \in Int
  BY <1>1, <1>3, <1>9
<1>11. ASSUME NEW i \in 1..N, i > 1 PROVE R[i] > 0
  <2>1. i \in 2..N
    BY <1>1, <1>11
  <2> QED
    BY <1>4, <1>10, <2>1
<1>12. ASSUME NEW i \in 1..N, i > 2 PROVE R[i - 1] - T >= 0
  <2>1. i - 1 \in 2..N
    BY <1>1, <1>12
  <2> QED
    BY <1>4, <1>10, <2>1
<1> QED
  BY <1>11, <1>12 DEF CrossfadesFit, Offset, N, R, T
-----------------------------------------------------------------------------
(* The invariant of a run.                                                 *)

StoryWords ==
  /\ sentences \in Seq(Estimates) /\ Len(sentences) <= MaxSentences
  /\ scenes = IF stage = "segment" THEN <<>> ELSE SegmentText(sentences)

\* The k-th clip is speech of a scene already done, or the silence of its number.
StoryClips ==
  /\ audio_clips \in Seq(Clips) /\ Len(audio_clips) <= spoken
  /\ stage = "speak" => spoken < Len(scenes)
  /\ \A k \in 1..Len(audio_clips) :
       /\ files[audio_clips[k]] = "whole"
       /\ audio_clips[k] = Silence(k - 1) \/ \E i \in 1..spoken : audio_clips[k] = Speech(i)

\* Each stage finds whole what the stage before has handed on.
StoryFiles ==
  /\ stage \in {"segment", "speak", "mix"} => mixed_audio = Mixed
  /\ stage \in {"draw", "slideshow", "combine", "mux"} /\ audio_clips # <<>>
       => files[mixed_audio] = "whole"
  /\ stage \in {"combine", "mux"} => files[Slideshow] = "whole"
  /\ stage # "end" => result.success = "running"
  /\ VideoIsWhole

StoryInv == StoryTypes /\ StoryWords /\ StoryClips /\ StoryFiles

Conditions == {"absent", "partial", "whole"}

\* The names of the files differ: no stage overwrites what another one left.
LEMMA FileFacts ==
  /\ Mixed \in Files /\ Slideshow \in Files /\ Final \in Files
  /\ Clips \subseteq Files
  /\ Mixed \notin Clips /\ Slideshow \notin Clips /\ Final \notin Clips
  /\ Mixed # Slideshow /\ Mixed # Final /\ Slideshow # Final
  /\ \A i \in 1..MaxSentences : Speech(i) \in Clips
  /\ \A k \in 0..MaxSentences : Silence(k) \in Clips
  /\ \A i, k : Speech(i) # Silence(k)
  /\ \A i, k : (Speech(i) = Speech(k) \/ Silence(i) = Silence(k)) => i = k
BY DEF Mixed, Slideshow, Final, Files, Clips, Speech, Silence

\* A command touches no file but its own.
LEMMA CommandFacts ==
  ASSUME files \in [Files -> Conditions], NEW file \in Files,
         FfmpegWrites(file) \/ FfmpegFails(file)
  PROVE  /\ files' \in [Files -> Conditions]
         /\ \A f \in Files : f # file => files'[f] = files[f]
         /\ FfmpegWrites(file) => files'[file] = "whole"
BY DEF FfmpegWrites, FfmpegFails, Conditions

\* The scenes of an article are well-formed, tile it and are no more than its
\* sentences.
LEMMA SegmentTypes ==
  ASSUME NEW text \in Seq(Estimates), Len(text) <= MaxSentences
  PROVE  /\ text \in Seq(Nat \ {0}) /\ SegmentText(text) \in Seq(Pieces(Len(text)))
         /\ Tiles(SegmentText(text), text, Len(text))
         /\ Len(SegmentText(text)) \in 0..MaxSentences
         /\ \A i \in DOMAIN SegmentText(text) : SegmentText(text)[i] \in Scene
<1> DEFINE list == SegmentText(text)
           N == Len(text)
<1>1. text \in Seq(Nat \ {0}) /\ text \in Seq(Nat)
  <2>1. Estimates \subseteq Nat \ {0} /\ Estimates \subseteq Nat
    BY StoryAssumption
  <2> QED
    BY <2>1, SeqMonotonic
<1>2. list \in Seq(Pieces(N)) /\ Tiles(list, text, N) /\ Len(list) <= N
  BY <1>1, SegmentTiles
<1>3. Len(list) \in Nat /\ N \in Nat /\ MaxSentences \in Nat /\ N <= MaxSentences
  BY <1>2, LenProperties, StoryAssumption
<1> HIDE DEF list, N
<1>4. Len(list) \in 0..MaxSentences
  BY <1>2, <1>3
<1>5. ASSUME NEW i \in DOMAIN list PROVE list[i] \in Scene
  <2>1. i \in 1..Len(list)
    BY <1>2, LenProperties
  <2>2. list[i] \in Pieces(N)
    BY <1>2, <2>1, ElementOfSeq
  <2>3. 1..N \subseteq 1..MaxSentences
    BY <1>3
  <2>4. list[i].text \in Seq(1..N)
    BY <2>2 DEF Pieces
  <2>5. list[i].text \in Seq(1..MaxSentences)
    BY <2>3, <2>4, SeqMonotonic
  <2> QED
    BY <2>2, <2>5 DEF Pieces, Scene
<1> QED
  BY <1>1, <1>2, <1>4, <1>5 DEF list, N

\* The kinds of the variables, out of the invariant.
LEMMA StoryFacts ==
  ASSUME StoryInv
  PROVE  /\ sentences \in Seq(Estimates) /\ Len(sentences) <= MaxSentences
         /\ Len(scenes) \in 0..MaxSentences /\ spoken \in 0..Len(scenes)
         /\ files \in [Files -> Conditions]
         /\ audio_clips \in Seq(Clips) /\ Len(audio_clips) \in 0..spoken
         /\ DOMAIN audio_clips = 1..Len(audio_clips)
<1>1. sentences \in Seq(Estimates) /\ Len(sentences) <= MaxSentences
  BY DEF StoryInv, StoryWords
<1>2. MaxSentences \in Nat /\ Len(<<>>) = 0
  BY StoryAssumption, EmptySeq
<1>3. Len(scenes) \in 0..MaxSentences
  <2>1. CASE stage = "segment"
    <3>1. scenes = <<>>
      BY <2>1 DEF StoryInv, StoryWords
    <3> QED
      BY <1>2, <3>1
  <2>2. CASE stage # "segment"
    <3>1. scenes = SegmentText(sentences)
      BY <2>2 DEF StoryInv, StoryWords
    <3> QED
      BY <1>1, <3>1, SegmentTypes
  <2> QED
    BY <2>1, <2>2
<1>4. spoken \in 0..Len(scenes) /\ files \in [Files -> Conditions]
  BY DEF StoryInv, StoryTypes, Conditions
<1>5. audio_clips \in Seq(Clips) /\ Len(audio_clips) <= spoken
  BY DEF StoryInv, StoryClips
<1>6. Len(audio_clips) \in Nat /\ DOMAIN audio_clips = 1..Len(audio_clips)
  BY <1>5, LenProperties
<1>7. Len(audio_clips) \in 0..spoken
  BY <1>3, <1>4, <1>5, <1>6
<1> QED
  BY <1>1, <1>3, <1>4, <1>5, <1>6, <1>7

\* A run begins with nothing on disk.
LEMMA StoryInitHolds == StoryInit => StoryInv
<1> SUFFICES ASSUME StoryInit PROVE StoryInv
  OBVIOUS
<1>1. sentences \in Seq(Estimates) /\ Len(sentences) <= MaxSentences
  <2>1. PICK n \in 0..MaxSentences : sentences \in [1..n -> Estimates]
    BY DEF StoryInit
  <2>2. n \in Nat /\ n <= MaxSentences
    BY <2>1, StoryAssumption
  <2>3. sentences \in Seq(Estimates)
    BY <2>1, <2>2, SeqDef
  <2>4. Len(sentences) = n
    <3>1. DOMAIN sentences = 1..n /\ Len(sentences) \in Nat
          /\ DOMAIN sentences = 1..Len(sentences)
      BY <2>1, <2>3, LenProperties
    <3> QED
      BY <2>2, <3>1
  <2> QED
    BY <2>2, <2>3, <2>4
<1>2. Len(<<>>) = 0 /\ DOMAIN <<>> = {} /\ <<>> \in Seq(Clips)
  BY EmptySeq
<1>3. StoryTypes
  BY <1>2 DEF StoryInit, StoryTypes
<1>4. StoryWords
  BY <1>1 DEF StoryInit, StoryWords
<1>5. StoryClips
  BY <1>2 DEF StoryInit, StoryClips
<1>6. StoryFiles
  BY DEF StoryInit, StoryFiles, VideoIsWhole
<1> QED
  BY <1>3, <1>4, <1>5, <1>6 DEF StoryInv

\* The segmentation returns no scene, and the run with it, or the scenes.
LEMMA SegmentHolds == StoryInv /\ Segment => StoryInv'
<1> SUFFICES ASSUME StoryInv, Segment PROVE StoryInv'
  OBVIOUS
<1>1. /\ stage = "segment" /\ scenes' = SegmentText(sentences)
      /\ UNCHANGED <<sentences, spoken, audio_clips, files, mixed_audio>>
      /\ IF scenes' = <<>> THEN Return("yes", None) ELSE Enter("speak")
  BY DEF Segment
<1>2. /\ \A i \in DOMAIN scenes' : scenes'[i] \in Scene
      /\ Len(scenes') \in 0..MaxSentences
      /\ scenes' = <<>> <=> Len(scenes') = 0
  <2>1. scenes' \in Seq(Pieces(Len(sentences)))
    BY <1>1, StoryFacts, SegmentTypes
  <2> QED
    BY <1>1, <2>1, StoryFacts, SegmentTypes, EmptySeq
<1>3. spoken = 0 /\ Len(audio_clips) = 0
  <2>1. Len(scenes) = 0
    BY <1>1, EmptySeq DEF StoryInv, StoryWords
  <2> QED
    BY <2>1, StoryFacts
<1>4. \/ scenes' = <<>> /\ stage' = "end" /\ result' = [success |-> "yes", output_path |-> None]
      \/ scenes' # <<>> /\ stage' = "speak" /\ UNCHANGED result
  BY <1>1 DEF Return, Enter
<1>5. StoryTypes'
  <2>1. spoken' \in 0..Len(scenes')
    BY <1>1, <1>2, <1>3
  <2> QED
    BY <1>1, <1>2, <1>4, <2>1 DEF StoryInv, StoryTypes
<1>6. StoryWords'
  BY <1>1, <1>4 DEF StoryInv, StoryWords
<1>7. StoryClips'
  <2>1. stage' = "speak" => spoken' < Len(scenes')
    BY <1>1, <1>2, <1>3, <1>4
  <2> QED
    BY <1>1, <2>1 DEF StoryInv, StoryClips
<1>8. StoryFiles'
  BY <1>1, <1>4 DEF StoryInv, StoryFiles, VideoIsWhole
<1> QED
  BY <1>5, <1>6, <1>7, <1>8 DEF StoryInv
\* A scene is done, and at most one clip has been added that is new and whole.
LEMMA SceneDoneHolds ==
  ASSUME StoryInv, stage = "speak", SceneDone,
         files' \in [Files -> Conditions],
         NEW clip \in {Speech(spoken + 1), Silence(Len(audio_clips))},
         \A f \in Files : f # clip => files'[f] = files[f],
         \/ UNCHANGED audio_clips
         \/ audio_clips' = Append(audio_clips, clip) /\ files'[clip] = "whole"
  PROVE  StoryInv'
<1> DEFINE L == Len(audio_clips)
<1>1. /\ spoken' = spoken + 1 /\ UNCHANGED <<sentences, scenes, mixed_audio, result>>
      /\ stage' = IF spoken + 1 = Len(scenes) THEN "mix" ELSE "speak"
  BY DEF SceneDone, Enter
<1>2. /\ spoken \in Nat /\ spoken < Len(scenes) /\ Len(scenes) \in Nat
      /\ spoken + 1 \in 1..MaxSentences /\ spoken + 1 \in 0..Len(scenes)
      /\ L \in 0..spoken /\ L \in 0..MaxSentences /\ MaxSentences \in Nat
  <2>1. spoken < Len(scenes)
    BY DEF StoryInv, StoryClips
  <2> QED
    BY <2>1, StoryFacts, StoryAssumption
<1>3. clip \in Clips
  BY <1>2, FileFacts
<1>4. /\ audio_clips \in Seq(Clips) /\ DOMAIN audio_clips = 1..L
      /\ \A k \in 1..L : /\ audio_clips[k] \in Clips /\ files[audio_clips[k]] = "whole"
                         /\ \/ audio_clips[k] = Silence(k - 1)
                            \/ \E i \in 1..spoken : audio_clips[k] = Speech(i)
  BY StoryFacts, ElementOfSeq DEF StoryInv, StoryClips
<1>5. ASSUME NEW k \in 1..L
      PROVE  /\ files'[audio_clips[k]] = "whole"
             /\ \/ audio_clips[k] = Silence(k - 1)
                \/ \E i \in 1..(spoken + 1) : audio_clips[k] = Speech(i)
  <2>1. CASE audio_clips[k] = Silence(k - 1)
    <3>1. k - 1 # L
      BY <1>2
    <3>2. audio_clips[k] # clip
      BY <2>1, <3>1, FileFacts
    <3> QED
      BY <1>4, <2>1, <3>2, FileFacts
  <2>2. ASSUME NEW i \in 1..spoken, audio_clips[k] = Speech(i)
        PROVE  files'[audio_clips[k]] = "whole" /\ i \in 1..(spoken + 1)
    <3>1. i # spoken + 1 /\ i \in 1..(spoken + 1)
      BY <1>2
    <3>2. audio_clips[k] # clip
      BY <2>2, <3>1, FileFacts
    <3> QED
      BY <1>4, <3>1, <3>2, FileFacts
  <2> QED
    BY <1>4, <2>1, <2>2
<1>6. /\ audio_clips' \in Seq(Clips) /\ Len(audio_clips') \in Nat
      /\ Len(audio_clips') <= spoken + 1 /\ DOMAIN audio_clips' = 1..Len(audio_clips')
      /\ \A k \in 1..Len(audio_clips') :
           /\ files'[audio_clips'[k]] = "whole"
           /\ \/ audio_clips'[k] = Silence(k - 1)
              \/ \E i \in 1..(spoken + 1) : audio_clips'[k] = Speech(i)
  <2>1. CASE UNCHANGED audio_clips
    BY <1>2, <1>4, <1>5, <2>1
  <2>2. CASE audio_clips' = Append(audio_clips, clip) /\ files'[clip] = "whole"
    <3>1. /\ audio_clips' \in Seq(Clips) /\ Len(audio_clips') = L + 1
          /\ \A k \in 1..L : audio_clips'[k] = audio_clips[k]
          /\ audio_clips'[L + 1] = clip
      BY <1>3, <1>4, <2>2, AppendProperties
    <3>2. DOMAIN audio_clips' = 1..Len(audio_clips')
      BY <3>1, LenProperties
    <3>3. (L + 1) - 1 = L /\ spoken + 1 \in 1..(spoken + 1)
          /\ \A k \in 1..(L + 1) : k \in 1..L \/ k = L + 1
      BY <1>2
    <3>4. Len(audio_clips') \in Nat /\ Len(audio_clips') <= spoken + 1
      BY <1>2, <3>1
    <3> HIDE DEF L
    <3>5. ASSUME NEW k \in 1..(L + 1)
          PROVE  /\ files'[audio_clips'[k]] = "whole"
                 /\ \/ audio_clips'[k] = Silence(k - 1)
                    \/ \E i \in 1..(spoken + 1) : audio_clips'[k] = Speech(i)
      <4>1. CASE k \in 1..L
        BY <1>5, <3>1, <4>1
      <4>2. CASE k = L + 1
        BY <2>2, <3>1, <3>3, <4>2 DEF L
      <4> QED
        BY <3>3, <4>1, <4>2
    <3> QED
      BY <3>1, <3>2, <3>4, <3>5
  <2> QED
    BY <2>1, <2>2
<1>7. StoryTypes'
  <2>1. \A k \in DOMAIN audio_clips' : audio_clips'[k] \in Clips
    BY <1>6, ElementOfSeq
  <2>2. stage' \in {"mix", "speak"}
    BY <1>1
  <2>3. spoken' \in 0..Len(scenes')
    BY <1>1, <1>2
  <2> QED
    BY <1>1, <2>1, <2>2, <2>3 DEF StoryInv, StoryTypes, Conditions
<1>8. StoryWords'
  BY <1>1 DEF StoryInv, StoryWords
<1>9. StoryClips'
  <2>1. stage' = "speak" => spoken' < Len(scenes')
    BY <1>1, <1>2
  <2>2. Len(audio_clips') <= spoken'
    BY <1>1, <1>6
  <2> QED
    BY <1>1, <1>6, <2>1, <2>2 DEF StoryClips
<1>10. StoryFiles'
  BY <1>1 DEF StoryInv, StoryFiles, VideoIsWhole
<1> QED
  BY <1>7, <1>8, <1>9, <1>10 DEF StoryInv

\* Speech, silence in its place, or no clip at all.
LEMMA SpeakingHolds ==
  StoryInv /\ (TtsAnswers \/ TtsRefuses \/ SilenceFails) => StoryInv'
<1> SUFFICES ASSUME StoryInv, TtsAnswers \/ TtsRefuses \/ SilenceFails PROVE StoryInv'
  OBVIOUS
<1> DEFINE speech == Speech(spoken + 1)
           silence == Silence(Len(audio_clips))
<1>1. stage = "speak" /\ SceneDone
  BY DEF TtsAnswers, TtsRefuses, SilenceFails
<1>2. speech \in Files /\ silence \in Files
  <2>1. spoken < Len(scenes)
    BY <1>1 DEF StoryInv, StoryClips
  <2>2. spoken + 1 \in 1..MaxSentences /\ Len(audio_clips) \in 0..MaxSentences
    BY <2>1, StoryFacts, StoryAssumption
  <2> QED
    BY <2>2, FileFacts
<1>3. files \in [Files -> Conditions]
  BY StoryFacts
<1>4. CASE TtsAnswers
  <2>1. FfmpegWrites(speech) /\ audio_clips' = Append(audio_clips, speech)
    BY <1>4 DEF TtsAnswers, FfmpegWrites
  <2> HIDE DEF speech
  <2>2. /\ files' \in [Files -> Conditions] /\ files'[speech] = "whole"
        /\ \A f \in Files : f # speech => files'[f] = files[f]
    BY <1>2, <1>3, <2>1, CommandFacts
  <2> QED
    BY <1>1, <2>1, <2>2, SceneDoneHolds DEF speech
<1>5. CASE TtsRefuses
  <2>1. FfmpegWrites(silence) /\ audio_clips' = Append(audio_clips, silence)
    BY <1>5 DEF TtsRefuses
  <2> HIDE DEF silence
  <2>2. /\ files' \in [Files -> Conditions] /\ files'[silence] = "whole"
        /\ \A f \in Files : f # silence => files'[f] = files[f]
    BY <1>2, <1>3, <2>1, CommandFacts
  <2> QED
    BY <1>1, <2>1, <2>2, SceneDoneHolds DEF silence
<1>6. CASE SilenceFails
  <2>1. FfmpegFails(silence) /\ UNCHANGED audio_clips
    BY <1>6 DEF SilenceFails
  <2> HIDE DEF silence
  <2>2. /\ files' \in [Files -> Conditions]
        /\ \A f \in Files : f # silence => files'[f] = files[f]
    BY <1>2, <1>3, <2>1, CommandFacts
  <2> QED
    BY <1>1, <2>1, <2>2, SceneDoneHolds DEF silence
<1> QED
  BY <1>4, <1>5, <1>6

\* From the mix on the clips stay as they are.
LEMMA ClipsAside ==
  ASSUME StoryInv, stage # "segment", stage' \notin {"segment", "speak"},
         UNCHANGED <<sentences, scenes, spoken, audio_clips>>,
         \A k \in 1..Len(audio_clips) : files'[audio_clips[k]] = files[audio_clips[k]]
  PROVE  StoryWords' /\ StoryClips'
<1>1. StoryWords'
  BY DEF StoryInv, StoryWords
<1>2. StoryClips'
  BY DEF StoryInv, StoryClips
<1> QED
  BY <1>1, <1>2

\* An exception of the speech service ends the run.
LEMMA SpeakRaisesHolds == StoryInv /\ SpeakRaises => StoryInv'
<1> SUFFICES ASSUME StoryInv, SpeakRaises PROVE StoryInv'
  OBVIOUS
<1> DEFINE silence == Silence(Len(audio_clips))
           L == Len(audio_clips)
<1>1. /\ stage = "speak" /\ stage' = "end"
      /\ result' = [success |-> "raised", output_path |-> None]
      /\ FfmpegFails(silence)
      /\ UNCHANGED <<sentences, scenes, spoken, audio_clips, mixed_audio>>
  BY DEF SpeakRaises, Raise, Return, FfmpegFails
<1>2. L \in Nat /\ L \in 0..MaxSentences /\ spoken < Len(scenes)
  BY <1>1, StoryFacts, StoryAssumption DEF StoryInv, StoryClips
<1>3. silence \in Files
  BY <1>2, FileFacts
<1>4. /\ files' \in [Files -> Conditions]
      /\ \A f \in Files : f # silence => files'[f] = files[f]
  <2> HIDE DEF silence
  <2> QED
    BY <1>1, <1>3, StoryFacts, CommandFacts
<1>5. ASSUME NEW k \in 1..L PROVE files'[audio_clips[k]] = files[audio_clips[k]]
  <2>1. /\ audio_clips[k] \in Clips
        /\ audio_clips[k] = Silence(k - 1) \/ \E i \in 1..spoken : audio_clips[k] = Speech(i)
    BY StoryFacts, ElementOfSeq DEF StoryInv, StoryClips
  <2>2. k - 1 # L
    BY <1>2
  <2>3. audio_clips[k] # silence
    BY <2>1, <2>2, FileFacts
  <2> QED
    BY <1>4, <2>1, <2>3, FileFacts
<1>6. StoryWords' /\ StoryClips'
  BY <1>1, <1>5, ClipsAside
<1>7. StoryTypes'
  BY <1>1, <1>4 DEF StoryInv, StoryTypes, Conditions
<1>8. StoryFiles'
  BY <1>1 DEF StoryInv, StoryFiles, VideoIsWhole
<1> QED
  BY <1>6, <1>7, <1>8 DEF StoryInv

\* A later step keeps the clips and tells the truth about what it hands on.
LEMMA LaterStepHolds ==
  ASSUME StoryInv, stage \in {"mix", "draw", "slideshow", "combine", "mux"},
         stage' \in {"draw", "slideshow", "combine", "mux", "end"},
         UNCHANGED <<sentences, scenes, spoken, audio_clips>>,
         files' \in [Files -> Conditions],
         \A f \in Clips : files'[f] = files[f],
         mixed_audio' \in Clips \union {Mixed},
         result' \in [success : {"running", "yes", "no", "raised"},
                      output_path : {None, Slideshow, Final}],
         StoryFiles'
  PROVE  StoryInv'
<1>1. \A k \in 1..Len(audio_clips) : files'[audio_clips[k]] = files[audio_clips[k]]
  BY StoryFacts, ElementOfSeq
<1>2. stage # "segment" /\ stage' \notin {"segment", "speak"}
  OBVIOUS
<1>3. StoryWords' /\ StoryClips'
  BY <1>1, <1>2, ClipsAside
<1>4. StoryTypes'
  BY DEF StoryInv, StoryTypes, Conditions
<1> QED
  BY <1>3, <1>4 DEF StoryInv
\* What the later stages rely on.
LEMMA LaterFacts ==
  ASSUME StoryInv, stage \in {"mix", "draw", "slideshow", "combine", "mux"}
  PROVE  /\ result.success = "running" /\ result \in [success : {"running", "yes", "no", "raised"},
                                                     output_path : {None, Slideshow, Final}]
         /\ mixed_audio \in Clips \union {Mixed}
         /\ stage = "mix" => mixed_audio = Mixed
         /\ stage # "mix" /\ audio_clips # <<>> => files[mixed_audio] = "whole"
         /\ stage \in {"combine", "mux"} => files[Slideshow] = "whole"
BY DEF StoryInv, StoryTypes, StoryFiles

\* The mixed sound is whole, or the first clip takes its place.
LEMMA MixingHolds == StoryInv /\ (NoClips \/ Mix \/ MixFails) => StoryInv'
<1> SUFFICES ASSUME StoryInv, NoClips \/ Mix \/ MixFails PROVE StoryInv'
  OBVIOUS
<1>1. /\ stage = "mix" /\ stage' = "draw" /\ UNCHANGED result
      /\ UNCHANGED <<sentences, scenes, spoken, audio_clips>>
  BY DEF NoClips, Mix, MixFails, Enter
<1>2. /\ files \in [Files -> Conditions] /\ result.success = "running" /\ mixed_audio = Mixed
      /\ result \in [success : {"running", "yes", "no", "raised"},
                     output_path : {None, Slideshow, Final}]
  BY <1>1, StoryFacts, LaterFacts
<1>3. CASE NoClips
  <2>1. audio_clips = <<>> /\ UNCHANGED <<files, mixed_audio>>
    BY <1>3 DEF NoClips
  <2>2. StoryFiles'
    BY <1>1, <1>2, <2>1 DEF StoryFiles, VideoIsWhole
  <2> QED
    BY <1>1, <1>2, <2>1, <2>2, LaterStepHolds
<1>4. CASE Mix
  <2>1. FfmpegWrites(Mixed) /\ UNCHANGED mixed_audio
    BY <1>4 DEF Mix
  <2>2. /\ files' \in [Files -> Conditions] /\ files'[Mixed] = "whole"
        /\ \A f \in Clips : files'[f] = files[f]
    BY <1>2, <2>1, FileFacts, CommandFacts
  <2>3. StoryFiles'
    BY <1>1, <1>2, <2>1, <2>2 DEF StoryFiles, VideoIsWhole
  <2> QED
    BY <1>1, <1>2, <2>1, <2>2, <2>3, LaterStepHolds
<1>5. CASE MixFails
  <2>1. FfmpegFails(Mixed) /\ audio_clips # <<>> /\ mixed_audio' = Head(audio_clips)
    BY <1>5 DEF MixFails
  <2>2. /\ files' \in [Files -> Conditions] /\ \A f \in Clips : files'[f] = files[f]
    BY <1>2, <2>1, FileFacts, CommandFacts
  <2>3. Head(audio_clips) \in Clips /\ files[Head(audio_clips)] = "whole"
    <3>1. audio_clips \in Seq(Clips)
      BY StoryFacts
    <3>2. Len(audio_clips) \in Nat /\ Len(audio_clips) # 0
      BY <2>1, <3>1, EmptySeq, LenProperties
    <3>3. 1 \in 1..Len(audio_clips) /\ Head(audio_clips) = audio_clips[1]
      BY <2>1, <3>1, <3>2, HeadTailProperties
    <3> QED
      BY <3>1, <3>3, ElementOfSeq DEF StoryInv, StoryClips
  <2>4. StoryFiles'
    BY <1>1, <1>2, <2>1, <2>2, <2>3 DEF StoryFiles, VideoIsWhole
  <2> QED
    BY <1>1, <1>2, <2>1, <2>2, <2>3, <2>4, LaterStepHolds
<1> QED
  BY <1>3, <1>4, <1>5

\* A slideshow is whole, or the run ends.
LEMMA PicturesHold ==
  StoryInv /\ (Draw \/ CreateSlideshow \/ SlideshowFails) => StoryInv'
<1> SUFFICES ASSUME StoryInv, Draw \/ CreateSlideshow \/ SlideshowFails PROVE StoryInv'
  OBVIOUS
<1>1. /\ stage \in {"draw", "slideshow"}
      /\ UNCHANGED <<sentences, scenes, spoken, audio_clips, mixed_audio>>
  BY DEF Draw, CreateSlideshow, SlideshowFails
<1>2. /\ files \in [Files -> Conditions] /\ result.success = "running"
      /\ mixed_audio \in Clips \union {Mixed}
      /\ audio_clips # <<>> => files[mixed_audio] = "whole"
      /\ result \in [success : {"running", "yes", "no", "raised"},
                     output_path : {None, Slideshow, Final}]
  BY <1>1, StoryFacts, LaterFacts
<1>3. CASE Draw
  <2>1. /\ UNCHANGED files
        /\ \/ stage' = "slideshow" /\ UNCHANGED result
           \/ stage' = "end" /\ result' = [success |-> "raised", output_path |-> None]
    BY <1>3 DEF Draw, Enter, Raise, Return
  <2>2. StoryFiles'
    BY <1>1, <1>2, <2>1 DEF StoryFiles, VideoIsWhole
  <2> QED
    BY <1>1, <1>2, <2>1, <2>2, LaterStepHolds
<1>4. CASE CreateSlideshow
  <2>1. FfmpegWrites(Slideshow) /\ stage' = "combine" /\ UNCHANGED result
    BY <1>4 DEF CreateSlideshow, Enter
  <2>2. /\ files' \in [Files -> Conditions] /\ files'[Slideshow] = "whole"
        /\ \A f \in Clips \union {Mixed} : files'[f] = files[f]
    BY <1>2, <2>1, FileFacts, CommandFacts
  <2>3. StoryFiles'
    BY <1>1, <1>2, <2>1, <2>2 DEF StoryFiles, VideoIsWhole
  <2> QED
    BY <1>1, <1>2, <2>1, <2>2, <2>3, LaterStepHolds
<1>5. CASE SlideshowFails
  <2>1. /\ FfmpegFails(Slideshow) /\ stage' = "end"
        /\ result' = [success |-> "no", output_path |-> None]
    BY <1>5 DEF SlideshowFails, Return
  <2>2. files' \in [Files -> Conditions] /\ \A f \in Clips : files'[f] = files[f]
    BY <1>2, <2>1, FileFacts, CommandFacts
  <2>3. StoryFiles'
    BY <1>1, <2>1 DEF StoryFiles, VideoIsWhole
  <2> QED
    BY <1>1, <1>2, <2>1, <2>2, <2>3, LaterStepHolds
<1> QED
  BY <1>3, <1>4, <1>5

\* The last two stages write final.mp4 alone, and answer with it only if they
\* have written it to the end.
LEMMA CombiningHolds ==
  StoryInv /\ (Compose \/ ComposeFails \/ WithoutSound \/ Mux \/ MuxFails \/ MuxTimesOut)
    => StoryInv'
<1> SUFFICES ASSUME StoryInv,
                    \/ Compose \/ ComposeFails \/ WithoutSound
                    \/ Mux \/ MuxFails \/ MuxTimesOut
             PROVE  StoryInv'
  OBVIOUS
<1>1. /\ stage \in {"combine", "mux"}
      /\ UNCHANGED <<sentences, scenes, spoken, audio_clips, mixed_audio>>
  BY DEF Compose, ComposeFails, WithoutSound, Mux, MuxFails, MuxTimesOut
<1>2. /\ files \in [Files -> Conditions] /\ result.success = "running"
      /\ mixed_audio \in Clips \union {Mixed}
      /\ audio_clips # <<>> => files[mixed_audio] = "whole"
      /\ files[Slideshow] = "whole"
      /\ result \in [success : {"running", "yes", "no", "raised"},
                     output_path : {None, Slideshow, Final}]
  BY <1>1, StoryFacts, LaterFacts
<1>3. FfmpegWrites(Final) \/ FfmpegFails(Final)
  <2>1. UNCHANGED files => FfmpegFails(Final)
    BY DEF FfmpegFails
  <2> QED
    BY <2>1 DEF Compose, ComposeFails, WithoutSound, Mux, MuxFails, MuxTimesOut
<1>4. /\ files' \in [Files -> Conditions]
      /\ FfmpegWrites(Final) => files'[Final] = "whole"
      /\ \A f \in Clips \union {Mixed, Slideshow} : files'[f] = files[f]
  BY <1>2, <1>3, FileFacts, CommandFacts
<1>5. \/ stage' = "mux" /\ UNCHANGED result
      \/ /\ stage' = "end" /\ result' = [success |-> "yes", output_path |-> Final]
         /\ FfmpegWrites(Final)
      \/ stage' = "end" /\ result' = [success |-> "yes", output_path |-> Slideshow]
      \/ stage' = "end" /\ result' = [success |-> "raised", output_path |-> None]
  BY DEF Compose, ComposeFails, WithoutSound, Mux, MuxFails, MuxTimesOut, Enter, Raise, Return
<1>6. /\ stage' \in {"mux", "end"}
      /\ stage' # "end" => result'.success = "running"
      /\ result' \in [success : {"running", "yes", "no", "raised"},
                      output_path : {None, Slideshow, Final}]
  BY <1>2, <1>5
<1>7. files'[Slideshow] = "whole" /\ files'[mixed_audio] = files[mixed_audio]
  BY <1>2, <1>4
<1>8. result'.success = "yes" => files'[result'.output_path] = "whole"
  <2>1. CASE stage' = "mux" /\ UNCHANGED result
    BY <1>2, <2>1
  <2>2. CASE result' = [success |-> "yes", output_path |-> Final] /\ FfmpegWrites(Final)
    BY <1>4, <2>2
  <2>3. CASE result' = [success |-> "yes", output_path |-> Slideshow]
    BY <1>7, <2>3
  <2>4. CASE result' = [success |-> "raised", output_path |-> None]
    BY <2>4
  <2> QED
    BY <1>5, <2>1, <2>2, <2>3, <2>4
<1>9. StoryFiles'
  BY <1>1, <1>2, <1>6, <1>7, <1>8 DEF StoryFiles, VideoIsWhole
<1>10. \A f \in Clips : files'[f] = files[f]
  BY <1>4
<1> QED
  BY <1>1, <1>2, <1>4, <1>6, <1>9, <1>10, LaterStepHolds

\* Every stage with every outcome keeps the invariant.
LEMMA StoryNextHolds == StoryInv /\ [StoryNext]_storyVars => StoryInv'
<1> SUFFICES ASSUME StoryInv, [StoryNext]_storyVars PROVE StoryInv'
  OBVIOUS
<1>1. CASE StoryNext
  BY <1>1, SegmentHolds, SpeakingHolds, SpeakRaisesHolds, MixingHolds, PicturesHold,
     CombiningHolds DEF StoryNext
<1>2. CASE UNCHANGED storyVars
  BY <1>2 DEF storyVars, StoryInv, StoryTypes, StoryWords, StoryClips, StoryFiles, VideoIsWhole
<1> QED
  BY <1>1, <1>2

\* The invariant of a run of run_story2video_pipeline, for articles of every
\* length and commands that fail at every stage (pipeline.py:161-299).
THEOREM StoryInvariant == StorySpec => []StoryInv
BY StoryInitHolds, StoryNextHolds, PTL DEF StorySpec

\* Every variable of the pipeline keeps its type, and each scene is spoken once.
THEOREM StoryTypesAlways == StorySpec => []StoryTypes
<1>1. StoryInv => StoryTypes
  BY DEF StoryInv
<1> QED
  BY <1>1, StoryInvariant, PTL

\* A run that reports success shows a film that was written to the end, and no
\* broken clip or mix is among such sound as it has, whatever commands fail
\* (pipeline.py:217-285).  Missing clips are not ruled out.
THEOREM ResultIsHonestAlways == StorySpec => []ResultIsHonest
<1>1. StoryInv => ResultIsHonest
  <2> SUFFICES ASSUME StoryInv PROVE ResultIsHonest
    OBVIOUS
  <2>1. VideoIsWhole
    BY DEF StoryInv, StoryFiles
  <2>2. SoundIsWhole
    <3>1. stage \in {"combine", "mux"} /\ HasSound => files[mixed_audio] = "whole"
      BY DEF StoryInv, StoryFiles, HasSound
    <3>2. \A k \in DOMAIN audio_clips : files[audio_clips[k]] = "whole"
      BY StoryFacts DEF StoryInv, StoryClips
    <3> QED
      BY <3>1, <3>2 DEF SoundIsWhole
  <2> QED
    BY <2>1, <2>2 DEF ResultIsHonest
<1> QED
  BY <1>1, StoryInvariant, PTL

\* The scenes tile every article, their film never has a length of zero, and
\* every crossfade after the first begins within the film before it
\* (text_segmentation.py:46-120, slideshow.py:205-215).
THEOREM FilmFollowsTextAlways == StorySpec => []FilmFollowsText
<1>1. StoryInv => FilmFollowsText
  <2> SUFFICES ASSUME StoryInv, stage # "segment" PROVE ScenesTileTheText /\ CrossfadesFit
    BY DEF FilmFollowsText
  <2>1. /\ scenes = SegmentText(sentences)
        /\ sentences \in Seq(Estimates) /\ Len(sentences) <= MaxSentences
    BY DEF StoryInv, StoryWords
  <2>2. /\ sentences \in Seq(Nat \ {0}) /\ scenes \in Seq(Pieces(Len(sentences)))
        /\ Tiles(scenes, sentences, Len(sentences))
    BY <2>1, SegmentTypes
  <2> QED
    BY <2>2, FilmFits DEF ScenesTileTheText
<1> QED
  BY <1>1, StoryInvariant, PTL
=============================================================================
