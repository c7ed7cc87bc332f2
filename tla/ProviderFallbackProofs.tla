----------------------- MODULE ProviderFallbackProofs -----------------------
(***************************************************************************)
(* Proofs about ProviderFallback, for any providers, thresholds and        *)
(* cool-downs and any number of overlapping calls.                         *)
(***************************************************************************)
EXTENDS ProviderFallback, RecursionTheorems

\* The counters of the breaker and of the history hold counts.
CountersOK ==
  /\ failures \in [Providers -> 0..Threshold]
  /\ streak \in [Providers -> 0..Threshold]

\* The breaker never knows of fewer failures than there were in a row: whoever
\* sees a failure records it in the same step, and a success that is recorded
\* ends the row of failures.
NoFailureIsMissed == \A p \in Providers : streak[p] <= failures[p]

BreakerInv == CountersOK /\ NoFailureIsMissed

\* Counting saturates at the threshold.
LEMMA CountedIsMonotone ==
  ASSUME NEW m \in 0..Threshold, NEW n \in 0..Threshold, m <= n
  PROVE  Counted(m) \in 0..Threshold /\ Counted(n) \in 0..Threshold /\ Counted(m) <= Counted(n)
BY BreakerAssumption DEF Counted

\* A failure that is recorded, whoever is asked next.
LEMMA FailureKeepsBreakerInv ==
  ASSUME BreakerInv, NEW p, NEW asked, RecordFailure(p, asked),
         streak' = [streak EXCEPT ![p] = Counted(@)]
  PROVE  BreakerInv'
<1>1. \A q \in Providers :
        /\ failures'[q] = IF q = p THEN Counted(failures[q]) ELSE failures[q]
        /\ streak'[q] = IF q = p THEN Counted(streak[q]) ELSE streak[q]
  BY DEF BreakerInv, CountersOK, RecordFailure
<1>2. CountersOK'
  BY CountedIsMonotone DEF BreakerInv, CountersOK, NoFailureIsMissed, RecordFailure
<1>3. NoFailureIsMissed'
  BY <1>1, CountedIsMonotone DEF BreakerInv, CountersOK, NoFailureIsMissed
<1> QED
  BY <1>2, <1>3 DEF BreakerInv

\* A row of failures that ends, whether or not the breaker learns of it.
LEMMA SuccessKeepsBreakerInv ==
  ASSUME BreakerInv, NEW p,
         streak' = [streak EXCEPT ![p] = 0],
         failures' \in {failures, [failures EXCEPT ![p] = 0]}
  PROVE  BreakerInv'
<1>1. \A q \in Providers :
        /\ streak'[q] = IF q = p THEN 0 ELSE streak[q]
        /\ failures'[q] = failures[q] \/ (q = p /\ failures'[q] = 0)
  BY DEF BreakerInv, CountersOK
<1>2. CountersOK'
  <2>1. 0 \in 0..Threshold
    BY BreakerAssumption
  <2>2. \A f \in [Providers -> 0..Threshold] : [f EXCEPT ![p] = 0] \in [Providers -> 0..Threshold]
    BY <2>1
  <2> QED
    BY <2>2 DEF BreakerInv, CountersOK
<1>3. NoFailureIsMissed'
  BY <1>1, BreakerAssumption DEF BreakerInv, CountersOK, NoFailureIsMissed
<1> QED
  BY <1>2, <1>3 DEF BreakerInv

\* Steps that neither succeed nor fail.
LEMMA OthersKeepBreakerInv ==
  ASSUME BreakerInv, UNCHANGED <<failures, streak>>
  PROVE  BreakerInv'
BY DEF BreakerInv, CountersOK, NoFailureIsMissed

-----------------------------------------------------------------------------
\* The inductive invariant holds in every reachable state.
THEOREM BreakerInvariant == Spec => []BreakerInv
<1>1. Init => BreakerInv
  BY BreakerAssumption DEF Init, BreakerInit, BreakerInv, CountersOK, NoFailureIsMissed
<1>2. BreakerInv /\ [Next]_vars => BreakerInv'
  <2> SUFFICES ASSUME BreakerInv, [Next]_vars PROVE BreakerInv'
    OBVIOUS
  <2>1. ASSUME NEW p \in Providers, Create(p) \/ Update(p) \/ Delete(p) PROVE BreakerInv'
    BY <2>1, OthersKeepBreakerInv DEF Create, Update, Delete, Change, breakerVars
  <2>2. ASSUME NEW p \in Providers, Reset(p) PROVE BreakerInv'
    BY <2>2, SuccessKeepsBreakerInv DEF Reset, ResetBreaker
  <2>3. ASSUME NEW c \in Calls, BeginChain(c) \/ BeginRouted(c) PROVE BreakerInv'
    BY <2>3, OthersKeepBreakerInv DEF BeginChain, BeginRouted, breakerVars
  <2>4. ASSUME NEW c \in Calls, Select(c) \/ ListOthers(c) \/ TryOthers(c) PROVE BreakerInv'
    BY <2>4, OthersKeepBreakerInv DEF Select, ListOthers, TryOthers, breakerVars
  <2>5. ASSUME NEW c \in Calls, Answers(c) \/ FirstAnswers(c) PROVE BreakerInv'
    BY <2>5, SuccessKeepsBreakerInv DEF Answers, RecordSuccess, FirstAnswers, breakerVars
  <2>6. ASSUME NEW c \in Calls, Fails(c) \/ FirstFails(c) PROVE BreakerInv'
    BY <2>6, FailureKeepsBreakerInv DEF Fails, FirstFails
  <2>7. CASE TimePasses \/ UNCHANGED vars
    BY <2>7, OthersKeepBreakerInv DEF TimePasses, Tick, vars, breakerVars
  <2> QED
    BY <2>1, <2>2, <2>3, <2>4, <2>5, <2>6, <2>7 DEF Next, Carry, Calls
<1> QED
  BY <1>1, <1>2, PTL DEF Spec

\* A provider that only fails is taken out, in whatever order the outcomes of
\* overlapping calls arrive and whatever an administrator does meanwhile.
THEOREM FailingProvidersAreIsolated == Spec => []FailingProviderIsIsolated
<1>1. BreakerInv => FailingProviderIsIsolated
  <2> SUFFICES ASSUME BreakerInv, NEW p \in Providers, streak[p] >= Threshold
               PROVE  Circuit(p) # "closed"
    BY DEF FailingProviderIsIsolated
  <2>1. failures[p] >= Threshold
    BY BreakerAssumption DEF BreakerInv, CountersOK, NoFailureIsMissed
  <2> QED
    BY <2>1 DEF Circuit
<1> QED
  BY <1>1, BreakerInvariant, PTL

-----------------------------------------------------------------------------
(* The round robin.                                                        *)

\* Division with remainder: the next number has the next remainder.
LEMMA NextRemainder ==
  ASSUME NEW i \in Nat, NEW n \in Nat \ {0}
  PROVE  /\ i % n \in 0..(n - 1)
         /\ (i + 1) % n = IF (i % n) + 1 = n THEN 0 ELSE (i % n) + 1
         /\ i < n => i % n = i
<1> DEFINE q == i \div n
           r == i % n
<1>1. q \in Int /\ r \in 0..(n - 1) /\ i = (n * q) + r
  OBVIOUS
<1>2. i < n => r = i
  OBVIOUS
<1>3. \A p \in Int, s \in 0..(n - 1) : ((n * p) + s) % n = s
  OBVIOUS
<1> HIDE DEF q, r
<1>4. CASE r + 1 = n
  <2>1. i + 1 = (n * (q + 1)) + 0
    BY <1>1, <1>4
  <2>2. q + 1 \in Int /\ 0 \in 0..(n - 1)
    BY <1>1
  <2>3. (i + 1) % n = 0
    BY <1>3, <2>1, <2>2
  <2> QED
    BY <1>1, <1>2, <1>4, <2>3 DEF r
<1>5. CASE r + 1 # n
  <2>1. i + 1 = (n * q) + (r + 1) /\ r + 1 \in 0..(n - 1)
    BY <1>1, <1>5
  <2>2. (i + 1) % n = r + 1
    BY <1>1, <1>3, <2>1
  <2> QED
    BY <1>1, <1>2, <1>5, <2>2 DEF r
<1> QED
  BY <1>4, <1>5

\* Where the pick that lies d places before the index is, 1 <= d <= n.
Place(i, d, n) == 1 + (IF d <= i THEN i - d ELSE i - d + n)

\* The picks that are remembered are neighbours in the list, and the index is
\* at the place after the last one.
PicksAreNeighbours ==
  LET n == Len(round.among)
      k == Len(round.picked)
  IN /\ round.among \in Seq(Providers) /\ IsInjective(round.among)
     /\ round.picked \in Seq(Providers) /\ k <= n
     /\ n > 0 => index < n
     /\ \A j \in 1..k : round.picked[j] = round.among[Place(index, k - j + 1, n)]

\* The list that a routed call selects from.
SelectsFromOrder ==
  \A c \in Calls : at[c] = "selecting" => IsInjective(rows[c]) /\ Len(rows[c]) <= Len(Order)

\* A part of a list without repetition repeats nothing and is no longer.
LEMMA FilterOfDistinct ==
  ASSUME NEW S, NEW list \in Seq(S), NEW kept
  PROVE  /\ Filter(list, kept) \in Seq(S)
         /\ Len(Filter(list, kept)) \in 0..Len(list)
         /\ IsInjective(list) => IsInjective(Filter(list, kept))
<1>1. Filter(list, kept) \in Seq(S) /\ Len(Filter(list, kept)) \in 0..Len(list)
  BY FilterProperties, FilterIsNoLonger
<1>2. DOMAIN list = 1..Len(list) /\ DOMAIN Filter(list, kept) = 1..Len(Filter(list, kept))
  BY <1>1, LenProperties
<1>3. IsInjective(list) => IsInjective(Filter(list, kept))
  BY <1>2, FilterIsInjective DEF IsInjective
<1> QED
  BY <1>1, <1>3

\* One pick from a list whose index is in range.
LEMMA SamePlaces ==
  ASSUME NEW n \in Nat \ {0}, NEW i \in 0..(n - 1), NEW i2 \in 0..(n - 1),
         i2 = IF i + 1 = n THEN 0 ELSE i + 1
  PROVE  /\ Place(i2, 1, n) = i + 1
         /\ \A d \in 1..(n - 1) : Place(i2, d + 1, n) = Place(i, d, n)
BY DEF Place

\* As many places back as the list is long, no place comes twice.
LEMMA PlacesDiffer ==
  ASSUME NEW n \in Nat \ {0}, NEW i \in 0..(n - 1), NEW d \in 1..n, NEW e \in 1..n
  PROVE  /\ Place(i, d, n) \in 1..n
         /\ Place(i, d, n) = Place(i, e, n) => d = e
BY DEF Place

\* What select_provider() does to the history and the index.
LEMMA SelectionKeepsNeighbours ==
  ASSUME PicksAreNeighbours, index \in Nat, NEW list \in Seq(Providers), IsInjective(list),
         list # <<>>, Advance(Len(list)),
         round' = Remembered(list, list[1 + (index % Len(list))])
  PROVE  PicksAreNeighbours' /\ list[1 + (index % Len(list))] \in Providers
         /\ index' \in 0..(Len(list) - 1)
<1> DEFINE n == Len(list)
           r == index % n
           p == list[1 + r]
           before == IF round.among = list THEN round.picked ELSE <<>>
           L == Len(before)
           recent == IF L < n THEN before ELSE Tail(before)
           after == Append(recent, p)
           M == Len(recent)
<1>1. n \in Nat \ {0} /\ DOMAIN list = 1..n
  BY EmptySeq, LenProperties
<1>2. r \in 0..(n - 1) /\ index' = (IF r + 1 = n THEN 0 ELSE r + 1) /\ (index < n => r = index)
  BY <1>1, NextRemainder DEF Advance
<1>3. index' \in 0..(n - 1) /\ p \in Providers
  <2> HIDE DEF n, r
  <2>1. index' \in 0..(n - 1) /\ 1 + r \in 1..n
    BY <1>1, <1>2
  <2> QED
    BY <2>1, ElementOfSeq DEF n
<1>4. round' = [among |-> list, picked |-> after]
  BY DEF Remembered
<1>5. before \in Seq(Providers) /\ L \in 0..n
  <2>1. CASE round.among = list
    <3>1. before = round.picked /\ before \in Seq(Providers) /\ L <= n
      BY <2>1 DEF PicksAreNeighbours
    <3> QED
      BY <1>1, <3>1, LenProperties
  <2>2. CASE round.among # list
    <3>1. before = <<>> /\ L = 0
      BY <2>2, EmptySeq
    <3>2. <<>> \in Seq(Providers) /\ 0 \in 0..n
      BY <1>1, EmptySeq
    <3> HIDE DEF before, n, L
    <3> QED
      BY <3>1, <3>2
  <2> QED
    BY <2>1, <2>2
<1>6. \A j \in 1..L : before[j] = list[Place(r, L - j + 1, n)]
  <2>1. CASE round.among = list
    <3>1. n > 0 => index < n
      BY <2>1 DEF PicksAreNeighbours
    <3>2. r = index
      <4> HIDE DEF n, r
      <4> QED
        BY <1>1, <1>2, <3>1
    <3>3. before = round.picked
      BY <2>1
    <3> HIDE DEF r
    <3> QED
      BY <2>1, <3>2, <3>3 DEF PicksAreNeighbours
  <2>2. CASE round.among # list
    <3>1. L = 0
      BY <2>2, EmptySeq
    <3> QED
      BY <3>1
  <2> QED
    BY <2>1, <2>2
<1> HIDE DEF before, n, r, p
<1>7. /\ recent \in Seq(Providers) /\ M \in 0..(n - 1)
      /\ \A j \in 1..M : recent[j] = list[Place(r, M - j + 1, n)]
  <2>1. CASE L < n
    <3>1. recent = before
      BY <2>1
    <3> QED
      BY <1>1, <1>5, <1>6, <2>1, <3>1
  <2>2. CASE ~(L < n)
    <3> DEFINE t == Tail(before)
    <3>1. before # <<>>
      BY <1>1, <1>5, <2>2, EmptySeq
    <3>2. /\ t \in Seq(Providers) /\ Len(t) = L - 1
          /\ \A j \in 1..Len(t) : t[j] = before[j + 1]
      BY <1>5, <3>1, HeadTailProperties
    <3> HIDE DEF t
    <3>3. ASSUME NEW j \in 1..Len(t) PROVE t[j] = list[Place(r, Len(t) - j + 1, n)]
      <4>1. j + 1 \in 1..L /\ L - (j + 1) + 1 = Len(t) - j + 1
        BY <1>5, <3>2
      <4>2. t[j] = before[j + 1]
        BY <3>2
      <4>3. before[j + 1] = list[Place(r, L - (j + 1) + 1, n)]
        BY <1>6, <4>1
      <4> QED
        BY <4>1, <4>2, <4>3
    <3>4. recent = t
      BY <2>2 DEF t
    <3>5. Len(t) \in 0..(n - 1)
      BY <1>1, <1>5, <2>2, <3>2
    <3> QED
      BY <3>2, <3>3, <3>4, <3>5
  <2> QED
    BY <2>1, <2>2
<1> HIDE DEF recent
<1>8. /\ after \in Seq(Providers) /\ Len(after) = M + 1 /\ after[M + 1] = p
      /\ \A j \in 1..M : after[j] = recent[j]
  BY <1>3, <1>7, AppendProperties
<1> HIDE DEF after, M
<1>9. ASSUME NEW j \in 1..(M + 1)
      PROVE  after[j] = list[Place(index', (M + 1) - j + 1, n)]
  <2>1. CASE j = M + 1
    <3>1. Place(index', 1, n) = r + 1
      BY <1>1, <1>2, <1>3, SamePlaces
    <3>2. (M + 1) - j + 1 = 1 /\ 1 + r = r + 1
      BY <1>1, <1>2, <1>7, <2>1
    <3> QED
      BY <1>8, <2>1, <3>1, <3>2 DEF p
  <2>2. CASE j \in 1..M
    <3> DEFINE d == M - j + 1
    <3>1. d \in 1..(n - 1) /\ (M + 1) - j + 1 = d + 1
      BY <1>1, <1>7, <2>2
    <3>2. Place(index', d + 1, n) = Place(r, d, n)
      BY <1>1, <1>2, <1>3, <3>1, SamePlaces
    <3> QED
      BY <1>7, <1>8, <2>2, <3>1, <3>2
  <2> QED
    BY <1>7, <2>1, <2>2
<1>10. PicksAreNeighbours'
  <2>1. round'.among = list /\ round'.picked = after
    BY <1>4 DEF after
  <2>2. M + 1 <= n /\ index' < n
    BY <1>1, <1>3, <1>7
  <2> QED
    BY <1>8, <1>9, <2>1, <2>2 DEF PicksAreNeighbours, n
<1> QED
  BY <1>3, <1>10 DEF p, n, r

-----------------------------------------------------------------------------
(* Types.                                                                  *)

CallTypes ==
  /\ at \in [Calls -> {"idle", "selecting", "first", "listing", "listed", "trying"}]
  /\ on \in [Calls -> Providers \cup {NoProvider}]
  /\ \A c \in Calls : at[c] \in {"idle", "selecting"} <=> on[c] = NoProvider
  /\ rows \in [Calls -> Seq(Providers)]

RouterTypes ==
  /\ config \in [Providers -> {"on", "off", "absent"}]
  /\ changes \in 0..MaxChanges
  /\ index \in Nat /\ (index = 0 \/ index < Len(Order))
  /\ round \in [among : Seq(Providers), picked : Seq(Providers)]

\* A call moves on with a list of providers.
LEMMA MoveKeepsTypes ==
  ASSUME CallTypes, SelectsFromOrder, NEW c \in Calls, NEW list \in Seq(Providers),
         NEW to \in {"idle", "selecting", "first", "listing", "listed", "trying"},
         NEW p \in Providers \cup {NoProvider}, Move(c, to, p, list),
         to \in {"idle", "selecting"} <=> p = NoProvider,
         to = "selecting" => IsInjective(list) /\ Len(list) <= Len(Order)
  PROVE  CallTypes' /\ SelectsFromOrder'
<1>1. /\ at' \in [Calls -> {"idle", "selecting", "first", "listing", "listed", "trying"}]
      /\ on' \in [Calls -> Providers \cup {NoProvider}]
      /\ rows' \in [Calls -> Seq(Providers)]
  BY DEF CallTypes, Move
<1>2. \A d \in Calls :
        /\ at'[d] = IF d = c THEN to ELSE at[d]
        /\ on'[d] = IF d = c THEN p ELSE on[d]
        /\ rows'[d] = IF d = c THEN list ELSE rows[d]
  BY DEF CallTypes, Move
<1>3. CallTypes'
  BY <1>1, <1>2 DEF CallTypes
<1>4. SelectsFromOrder'
  BY <1>2 DEF SelectsFromOrder
<1> QED
  BY <1>3, <1>4

\* A call that has returned waits for nobody.
LEMMA EndKeepsTypes ==
  ASSUME CallTypes, SelectsFromOrder, NEW c \in Calls, Ends(c)
  PROVE  CallTypes' /\ SelectsFromOrder'
<1>1. <<>> \in Seq(Providers)
  BY EmptySeq
<1> QED
  BY <1>1, MoveKeepsTypes DEF Ends

\* Who is called next, and who is left after that.
LEMMA UpcomingFacts ==
  ASSUME NEW list \in Seq(Providers)
  PROVE  /\ Open(list) \in Seq(Providers) /\ Upcoming(list) \subseteq Providers
         /\ Upcoming(list) # {} => Head(Open(list)) \in Providers
         /\ Rest(list) \in Seq(Providers)
<1>1. Open(list) \in Seq(Providers)
  BY FilterOfDistinct DEF Open
<1>2. Open(list) # <<>> => Head(Open(list)) \in Providers
  BY <1>1, HeadTailProperties
<1>3. Rest(list) \in Seq(Providers)
  <2> DEFINE I == {i \in 1..Len(list) : Available(list[i])}
             first == SelectInSeq(list, Available)
             L == Len(list)
  <2>1. L \in Nat /\ \A i \in 1..L : list[i] \in Providers
    BY LenProperties, ElementOfSeq
  <2>2. first \in 0..L
    <3>1. first = IF I # {} THEN Min(I) ELSE 0
      BY DEF SelectInSeq
    <3>2. CASE I # {}
      <4>1. I \subseteq Nat
        BY <2>1
      <4> HIDE DEF I
      <4>2. \E x \in I : \A y \in I : x <= y
        BY <3>2, <4>1, LeastElement
      <4>3. Min(I) \in I
        BY <4>2 DEF Min
      <4> QED
        BY <2>1, <3>1, <3>2, <4>3 DEF I
    <3> QED
      BY <2>1, <3>1, <3>2
  <2> HIDE DEF first, L
  <2>3. 1 + first \in Int /\ L \in Int /\ \A i \in (1 + first)..L : list[i] \in Providers
    BY <2>1, <2>2
  <2>4. SubSeq(list, 1 + first, L) \in Seq(Providers)
    BY <2>3, SubSeqProperties
  <2> QED
    BY <2>4 DEF Rest, first, L
<1> QED
  BY <1>1, <1>2, <1>3 DEF Upcoming

\* A chain goes on with the providers after the one that failed.
LEMMA ProceedKeepsTypes ==
  ASSUME CallTypes, SelectsFromOrder, NEW c \in Calls, NEW list \in Seq(Providers),
         Proceed(c, list)
  PROVE  CallTypes' /\ SelectsFromOrder'
<1>1. CASE Upcoming(list) = {}
  BY <1>1, EndKeepsTypes DEF Proceed
<1>2. CASE Upcoming(list) # {}
  <2>1. Move(c, "trying", Head(Open(list)), Rest(list))
    BY <1>2 DEF Proceed
  <2>2. Head(Open(list)) \in Providers /\ Rest(list) \in Seq(Providers)
    BY <1>2, UpcomingFacts
  <2>3. Head(Open(list)) # NoProvider
    BY <2>2, FallbackAssumption
  <2> QED
    BY <2>1, <2>2, <2>3, MoveKeepsTypes
<1> QED
  BY <1>1, <1>2

\* Counting a failure or taking it back keeps the breaker's types.
LEMMA BreakerKeepsTypes ==
  ASSUME BreakerTypeOK, NEW p \in Providers, NEW asked \in SUBSET Providers,
         \/ RecordFailure(p, asked) \/ RecordSuccess(p) \/ ResetBreaker(p)
         \/ UNCHANGED <<failures, cooling>> /\ halfOpen' = halfOpen \cup asked
  PROVE  BreakerTypeOK'
<1>1. 0 \in 0..Threshold /\ 0 \in 0..Cooldown /\ Cooldown \in 0..Cooldown
      /\ \A n \in 0..Threshold : Counted(n) \in 0..Threshold
  BY BreakerAssumption DEF Counted
<1>2. failures' \in [Providers -> 0..Threshold]
  BY <1>1 DEF BreakerTypeOK, RecordFailure, RecordSuccess, ResetBreaker
<1>3. cooling' \in [Providers -> 0..Cooldown]
  BY <1>1 DEF BreakerTypeOK, RecordFailure, RecordSuccess, ResetBreaker
<1>4. halfOpen' \subseteq Providers
  BY DEF BreakerTypeOK, RecordFailure, RecordSuccess, ResetBreaker
<1> QED
  BY <1>2, <1>3, <1>4 DEF BreakerTypeOK

\* Cool-downs end at zero.
LEMMA TickKeepsTypes ==
  ASSUME BreakerTypeOK, Tick
  PROVE  BreakerTypeOK'
<1>1. \A p \in Providers : (IF cooling[p] > 0 THEN cooling[p] - 1 ELSE 0) \in 0..Cooldown
  <2>1. \A n \in 0..Cooldown : (IF n > 0 THEN n - 1 ELSE 0) \in 0..Cooldown
    BY BreakerAssumption
  <2> QED
    BY <2>1 DEF BreakerTypeOK
<1> QED
  BY <1>1 DEF BreakerTypeOK, Tick

\* Only those that were asked about become half open.
LEMMA ProbedIsTyped ==
  \A ps : Probed(ps) \subseteq ps
BY DEF Probed

\* Everything that TypeOK says but the counts, which BreakerInv knows of.
RoutingInv ==
  BreakerTypeOK /\ CallTypes /\ RouterTypes /\ SelectsFromOrder /\ PicksAreNeighbours

\* A step that selects nobody keeps what is known of the selection.
LEMMA SameRouter ==
  ASSUME RouterTypes, PicksAreNeighbours, UNCHANGED <<index, round>>,
         config' \in [Providers -> {"on", "off", "absent"}], changes' \in 0..MaxChanges
  PROVE  RouterTypes' /\ PicksAreNeighbours'
BY DEF RouterTypes, PicksAreNeighbours

\* A step that moves no call keeps what is known of the calls.
LEMMA SameCalls ==
  ASSUME CallTypes, SelectsFromOrder, UNCHANGED <<at, on, rows>>
  PROVE  CallTypes' /\ SelectsFromOrder'
BY DEF CallTypes, SelectsFromOrder

\* A selection takes the place at the index of a list of the table, or the call
\* ends (provider_router.py:363-406).
LEMMA SelectKeepsInv ==
  ASSUME RoutingInv, NEW c \in Calls, Select(c)
  PROVE  RoutingInv'
<1> DEFINE available == Open(rows[c])
           chosen == available[1 + (index % Len(available))]
<1>1. rows[c] \in Seq(Providers) /\ IsInjective(rows[c]) /\ Len(rows[c]) <= Len(Order)
  BY DEF RoutingInv, CallTypes, SelectsFromOrder, Select
<1>2. /\ available \in Seq(Providers) /\ IsInjective(available)
      /\ Len(available) \in 0..Len(rows[c])
  BY <1>1, FilterOfDistinct DEF Open
<1>3. index \in Nat /\ Len(Order) \in Nat /\ Len(rows[c]) \in Nat
  BY <1>1, FallbackAssumption, LenProperties DEF RoutingInv, RouterTypes
<1>4. UNCHANGED <<failures, cooling, config, changes, streak>>
  BY DEF Select
<1>5. CASE available = <<>>
  <2>1. Ends(c) /\ UNCHANGED <<halfOpen, index, round>>
    BY <1>5 DEF Select
  <2>2. CallTypes' /\ SelectsFromOrder'
    BY <2>1, EndKeepsTypes DEF RoutingInv
  <2>3. RouterTypes' /\ PicksAreNeighbours'
    BY <1>4, <2>1, SameRouter DEF RoutingInv, RouterTypes
  <2>4. BreakerTypeOK'
    BY <1>4, <2>1 DEF RoutingInv, BreakerTypeOK
  <2> QED
    BY <2>2, <2>3, <2>4 DEF RoutingInv
<1>6. CASE available # <<>>
  <2>1. /\ Move(c, "first", chosen, <<>>) /\ Advance(Len(available))
        /\ halfOpen' = halfOpen \cup Probed(ToSet(available))
        /\ round' = Remembered(available, chosen)
    BY <1>6 DEF Select
  <2>2. PicksAreNeighbours' /\ chosen \in Providers /\ index' \in 0..(Len(available) - 1)
    <3> HIDE DEF available
    <3> QED
      BY <1>2, <1>3, <1>6, <2>1, SelectionKeepsNeighbours DEF RoutingInv
  <2>3. CallTypes' /\ SelectsFromOrder'
    <3>1. chosen # NoProvider /\ <<>> \in Seq(Providers)
      BY <2>2, FallbackAssumption, EmptySeq
    <3> HIDE DEF chosen
    <3> QED
      BY <2>1, <2>2, <3>1, MoveKeepsTypes DEF RoutingInv
  <2>4. round' \in [among : Seq(Providers), picked : Seq(Providers)]
    <3>1. round' = [among |-> round'.among, picked |-> round'.picked]
      BY <2>1 DEF Remembered
    <3> QED
      BY <2>2, <3>1 DEF PicksAreNeighbours
  <2>5. index' \in Nat /\ index' < Len(Order)
    <3> HIDE DEF available
    <3> QED
      BY <1>1, <1>2, <1>3, <2>2
  <2>6. RouterTypes'
    BY <1>4, <2>4, <2>5 DEF RoutingInv, RouterTypes
  <2>7. ToSet(available) \subseteq Providers
    <3> HIDE DEF available
    <3>1. DOMAIN available = 1..Len(available)
          /\ \A i \in 1..Len(available) : available[i] \in Providers
      BY <1>2, LenProperties, ElementOfSeq
    <3> QED
      BY <3>1 DEF ToSet
  <2>8. BreakerTypeOK'
    BY <1>4, <2>1, <2>7, ProbedIsTyped DEF RoutingInv, BreakerTypeOK
  <2> QED
    BY <2>2, <2>3, <2>6, <2>8 DEF RoutingInv
<1> QED
  BY <1>5, <1>6

\* The other steps of a call select nobody.
LEMMA CarryKeepsInv ==
  ASSUME RoutingInv, NEW c \in Calls, Carry(c)
  PROVE  RoutingInv'
<1>1. /\ BreakerTypeOK /\ CallTypes /\ RouterTypes /\ SelectsFromOrder /\ PicksAreNeighbours
      /\ rows[c] \in Seq(Providers) /\ Upcoming(rows[c]) \in SUBSET Providers
      /\ {} \in SUBSET Providers
      /\ at[c] \notin {"idle", "selecting"} => on[c] \in Providers
      /\ at[c] \notin {"idle", "selecting"} => on[c] # NoProvider
  BY UpcomingFacts DEF RoutingInv, CallTypes
<1>2. UNCHANGED routerVars => RouterTypes' /\ PicksAreNeighbours'
  BY <1>1, SameRouter DEF routerVars, RouterTypes
<1>3. UNCHANGED breakerVars => BreakerTypeOK'
  BY <1>1 DEF breakerVars, BreakerTypeOK
<1>4. CASE Answers(c)
  <2>1. BreakerTypeOK'
    BY <1>1, <1>4, BreakerKeepsTypes DEF Answers
  <2> QED
    BY <1>1, <1>2, <1>4, <2>1, EndKeepsTypes DEF Answers, RoutingInv
<1>5. CASE Fails(c)
  <2>1. Probed(Upcoming(rows[c])) \in SUBSET Providers
    BY <1>1, ProbedIsTyped
  <2>2. BreakerTypeOK'
    BY <1>1, <1>5, <2>1, BreakerKeepsTypes DEF Fails
  <2> QED
    BY <1>1, <1>2, <1>5, <2>2, ProceedKeepsTypes DEF Fails, RoutingInv
<1>6. CASE Select(c)
  BY <1>6, SelectKeepsInv
<1>7. CASE FirstAnswers(c)
  BY <1>1, <1>2, <1>3, <1>7, EndKeepsTypes DEF FirstAnswers, RoutingInv
<1>8. CASE FirstFails(c)
  <2>1. BreakerTypeOK'
    BY <1>1, <1>8, BreakerKeepsTypes DEF FirstFails
  <2>2. Move(c, "listing", on[c], <<>>) /\ <<>> \in Seq(Providers)
        /\ on[c] \in Providers /\ on[c] # NoProvider
    BY <1>1, <1>8, EmptySeq DEF FirstFails
  <2>3. CallTypes' /\ SelectsFromOrder'
    BY <1>1, <2>2, MoveKeepsTypes
  <2> QED
    BY <1>2, <1>8, <2>1, <2>3 DEF FirstFails, RoutingInv
<1>9. CASE ListOthers(c)
  <2> DEFINE others == Filter(Listed({"on", "off"}), Providers \ {on[c]})
  <2>1. others \in Seq(Providers)
    BY FilterOfDistinct, FallbackAssumption DEF Listed
  <2> HIDE DEF others
  <2>2. Move(c, "listed", on[c], others) /\ on[c] \in Providers /\ on[c] # NoProvider
    BY <1>1, <1>9 DEF ListOthers, others
  <2>3. CallTypes' /\ SelectsFromOrder'
    BY <1>1, <2>1, <2>2, MoveKeepsTypes
  <2> QED
    BY <1>2, <1>3, <1>9, <2>3 DEF ListOthers, RoutingInv
<1>10. CASE TryOthers(c)
  <2>1. Probed(Upcoming(rows[c])) \in SUBSET Providers
    BY <1>1, ProbedIsTyped
  <2>2. BreakerTypeOK'
    BY <1>1, <1>10, <2>1 DEF TryOthers, BreakerTypeOK
  <2> QED
    BY <1>1, <1>2, <1>10, <2>2, ProceedKeepsTypes DEF TryOthers, RoutingInv
<1> QED
  BY <1>4, <1>5, <1>6, <1>7, <1>8, <1>9, <1>10 DEF Carry

\* The invariant of the routed calls holds in every reachable state.
THEOREM RoutingInvariant == Spec => []RoutingInv
<1>1. Init => RoutingInv
  <2> SUFFICES ASSUME Init PROVE RoutingInv
    OBVIOUS
  <2>1. <<>> \in Seq(Providers) /\ Len(<<>>) = 0 /\ IsInjective(<<>>)
    BY EmptySeq DEF IsInjective
  <2>2. BreakerTypeOK
    BY BreakerAssumption DEF Init, BreakerInit, BreakerTypeOK
  <2>3. CallTypes /\ SelectsFromOrder
    BY <2>1, FallbackAssumption DEF Init, CallTypes, SelectsFromOrder
  <2>4. RouterTypes
    BY <2>1, FallbackAssumption DEF Init, RouterTypes
  <2>5. PicksAreNeighbours
    <3>1. round.among = <<>> /\ round.picked = <<>>
      BY DEF Init
    <3> QED
      BY <2>1, <3>1 DEF PicksAreNeighbours
  <2> QED
    BY <2>2, <2>3, <2>4, <2>5 DEF RoutingInv
<1>2. RoutingInv /\ [Next]_vars => RoutingInv'
  <2> SUFFICES ASSUME RoutingInv, [Next]_vars PROVE RoutingInv'
    OBVIOUS
  <2>1. /\ BreakerTypeOK /\ CallTypes /\ RouterTypes /\ SelectsFromOrder
        /\ PicksAreNeighbours
    BY DEF RoutingInv
  <2>2. UNCHANGED breakerVars => BreakerTypeOK'
    BY <2>1 DEF breakerVars, BreakerTypeOK
  <2>3. UNCHANGED routerVars => RouterTypes' /\ PicksAreNeighbours'
    BY <2>1, SameRouter DEF routerVars, RouterTypes
  <2>4. ASSUME NEW p \in Providers, Create(p) \/ Update(p) \/ Delete(p) PROVE RoutingInv'
    <3>1. UNCHANGED <<breakerVars, index, at, on, rows, streak, round>>
      BY <2>4 DEF Create, Update, Delete, Change
    <3>2. changes' = changes + 1 /\ changes < MaxChanges
      BY <2>4 DEF Create, Update, Delete, Change
    <3>3. config' \in [Providers -> {"on", "off", "absent"}]
      BY <2>1, <2>4 DEF Create, Update, Delete, Change, RouterTypes
    <3>4. changes' \in 0..MaxChanges
      BY <2>1, <3>2, FallbackAssumption DEF RouterTypes
    <3>5. RouterTypes' /\ PicksAreNeighbours'
      BY <2>1, <3>1, <3>3, <3>4, SameRouter
    <3> QED
      BY <2>1, <2>2, <3>1, <3>5, SameCalls DEF RoutingInv
  <2>5. ASSUME NEW p \in Providers, Reset(p) PROVE RoutingInv'
    <3>1. BreakerTypeOK'
      BY <2>1, <2>5, BreakerKeepsTypes DEF Reset
    <3> QED
      BY <2>1, <2>3, <2>5, <3>1, SameCalls DEF Reset, RoutingInv
  <2>6. ASSUME NEW c \in ChainCalls, BeginChain(c) PROVE RoutingInv'
    <3>1. Probed(Upcoming(Order)) \in SUBSET Providers
      BY FallbackAssumption, UpcomingFacts, ProbedIsTyped
    <3>2. BreakerTypeOK'
      BY <2>1, <2>6, <3>1 DEF BeginChain, BreakerTypeOK
    <3>3. CallTypes' /\ SelectsFromOrder'
      BY <2>1, <2>6, FallbackAssumption, ProceedKeepsTypes DEF BeginChain, Calls
    <3> QED
      BY <2>3, <2>6, <3>2, <3>3 DEF BeginChain, RoutingInv
  <2>7. ASSUME NEW c \in RoutedCalls, BeginRouted(c) PROVE RoutingInv'
    <3> DEFINE list == Listed({"on"})
    <3>1. list \in Seq(Providers) /\ IsInjective(list) /\ Len(list) <= Len(Order)
      <4>1. Len(Order) \in Nat
        BY FallbackAssumption, LenProperties
      <4> QED
        BY <4>1, FallbackAssumption, FilterOfDistinct DEF Listed
    <3> HIDE DEF list
    <3>2. Move(c, "selecting", NoProvider, list) /\ c \in Calls
      BY <2>7 DEF BeginRouted, Calls, list
    <3>3. CallTypes' /\ SelectsFromOrder'
      BY <2>1, <3>1, <3>2, MoveKeepsTypes
    <3> QED
      BY <2>2, <2>3, <2>7, <3>3 DEF BeginRouted, RoutingInv
  <2>8. ASSUME NEW c \in Calls, Carry(c) PROVE RoutingInv'
    BY <2>8, CarryKeepsInv
  <2>9. CASE TimePasses
    BY <2>1, <2>3, <2>9, TickKeepsTypes, SameCalls DEF TimePasses, RoutingInv
  <2>10. CASE UNCHANGED vars
    BY <2>1, <2>2, <2>3, <2>10, SameCalls DEF vars, routerVars, RoutingInv
  <2> QED
    BY <2>4, <2>5, <2>6, <2>7, <2>8, <2>9, <2>10 DEF Next
<1> QED
  BY <1>1, <1>2, PTL DEF Spec

\* Every variable holds a value of its kind; the index stays inside the list of
\* all providers however many of them are available (fallback_provider.py,
\* RoundRobinState).
THEOREM FallbackTypes == Spec => []TypeOK
<1>1. RoutingInv /\ BreakerInv => TypeOK
  BY DEF RoutingInv, BreakerInv, CountersOK, CallTypes, RouterTypes, TypeOK
<1> QED
  BY <1>1, RoutingInvariant, BreakerInvariant, PTL

\* While the same providers are available, nobody is selected twice before all of
\* them were, for any number of providers, although the index is kept when their
\* number changes (fallback_provider.py, RoundRobinState.next).
THEOREM RoundRobinIsFairAlways == Spec => []RoundRobinIsFair
<1>1. RoutingInv => RoundRobinIsFair
  <2> SUFFICES ASSUME RoutingInv PROVE RoundRobinIsFair
    OBVIOUS
  <2> DEFINE n == Len(round.among)
             k == Len(round.picked)
             picked == round.picked
             among == round.among
  <2>1. /\ among \in Seq(Providers) /\ picked \in Seq(Providers) /\ k <= n
        /\ IsInjective(among) /\ index \in Nat /\ (n > 0 => index < n)
        /\ \A j \in 1..k : picked[j] = among[Place(index, k - j + 1, n)]
    BY DEF RoutingInv, PicksAreNeighbours, RouterTypes
  <2>2. DOMAIN among = 1..n /\ DOMAIN picked = 1..k /\ n \in Nat /\ k \in Nat
    BY <2>1, LenProperties
  <2> HIDE DEF n, k, picked, among
  <2>3. ASSUME NEW a \in 1..k, NEW b \in 1..k, picked[a] = picked[b] PROVE a = b
    <3> DEFINE d == k - a + 1
               e == k - b + 1
    <3>1. n \in Nat \ {0} /\ index \in 0..(n - 1) /\ d \in 1..n /\ e \in 1..n
      BY <2>1, <2>2
    <3>2. Place(index, d, n) \in 1..n /\ Place(index, e, n) \in 1..n
      BY <3>1, PlacesDiffer
    <3>3. among[Place(index, d, n)] = among[Place(index, e, n)]
      BY <2>1, <2>3
    <3>4. Place(index, d, n) = Place(index, e, n)
      BY <2>1, <2>2, <3>2, <3>3 DEF IsInjective
    <3>5. d = e
      BY <3>1, <3>4, PlacesDiffer
    <3> QED
      BY <2>2, <3>5
  <2> QED
    BY <2>2, <2>3 DEF RoundRobinIsFair, IsInjective, picked
<1> QED
  BY <1>1, RoutingInvariant, PTL
=============================================================================
