----------------------------- MODULE BlockGraph -----------------------------
(***************************************************************************)
(* Block graphs and their execution order (engine/graph.py).  A graph is a *)
(* list of nodes with distinct ids and a list of links <<source, target>>; *)
(* the pins of a link only make parallel links possible.                   *)
(***************************************************************************)
EXTENDS Integers, Sequences, FiniteSets, Filters

CONSTANT NodeList   \* the ids of graph.nodes, in the order of the list

Ids == {NodeList[i] : i \in 1..Len(NodeList)}

ASSUME NodeListAssumption ==
  /\ NodeList \in Seq(Ids)
  /\ \A i, k \in 1..Len(NodeList) : NodeList[i] = NodeList[k] => i = k

Source(links, i) == links[i][1]
Target(links, i) == links[i][2]

\* The keys of in_degree: a link to an unknown node adds a key.
Keys(links) == Ids \cup {Target(links, i) : i \in DOMAIN links}

-----------------------------------------------------------------------------
(* topological_sort(): Kahn's algorithm.  A state of the loop is the record *)
(* of in_degree, the deque and the result so far.                          *)

InDegree(links) ==
  [n \in Keys(links) |-> Cardinality({i \in DOMAIN links : Target(links, i) = n})]

SortStart(links) ==
  [degree |-> InDegree(links),
   queue  |-> Filter(NodeList, {n \in Ids : InDegree(links)[n] = 0}),
   result |-> <<>>]

BugVisit(links, s) ==
  LET n == Head(s.queue)
      out == Filter([i \in DOMAIN links |-> i], {i \in DOMAIN links : Source(links, i) = n})
  IN [degree |-> s.degree,
      queue  |-> Tail(s.queue) \o [k \in DOMAIN out |-> Target(links, out[k])],
      result |-> Append(s.result, n)]

\* popleft(), then one decrement per outgoing link, in the order of the links;
\* a neighbour is appended at the link that brings its degree to 0.
Visit(links, s) ==
  LET n == Head(s.queue)
      between(m) == {i \in DOMAIN links : Source(links, i) = n /\ Target(links, i) = m}
      degree == [m \in Keys(links) |-> s.degree[m] - Cardinality(between(m))]
      frees(i) == /\ Source(links, i) = n
                  /\ degree[Target(links, i)] = 0
                  /\ \A k \in between(Target(links, i)) : k <= i
      freed == Filter([i \in DOMAIN links |-> i], {i \in DOMAIN links : frees(i)})
  IN [degree |-> degree,
      queue  |-> Tail(s.queue) \o [k \in DOMAIN freed |-> Target(links, freed[k])],
      result |-> Append(s.result, n)]

SortStates(links) ==
  [degree : [Keys(links) -> Int], queue : Seq(Keys(links)), result : Seq(Keys(links))]

\* The loop, which visits every key at most once.
Sorting(links) ==
  LET visited[s \in SortStates(links)] ==
        IF s.queue = <<>> THEN s ELSE Visit(links, s)
      sorted[i \in 0..Cardinality(Keys(links))] ==
        IF i = 0 THEN SortStart(links) ELSE visited[sorted[i - 1]]
  IN sorted[Cardinality(Keys(links))]

TopologicalSort(links) == Sorting(links).result

-----------------------------------------------------------------------------
(* validate(): no error at all.                                            *)
Valid(links) ==
  /\ NodeList # <<>>
  /\ \A i \in DOMAIN links : Source(links, i) \in Ids /\ Target(links, i) \in Ids
  /\ Len(TopologicalSort(links)) = Len(NodeList)

-----------------------------------------------------------------------------
(* What a topological order is, independently of how one is computed.      *)

Forward(links, position) ==
  \A i \in DOMAIN links : position[Source(links, i)] < position[Target(links, i)]

Sortable(links) ==
  /\ NodeList # <<>>
  /\ \A i \in DOMAIN links : Source(links, i) \in Ids /\ Target(links, i) \in Ids
  /\ \E position \in [Ids -> 1..Len(NodeList)] : Forward(links, position)

IsTopologicalOrder(links, order) ==
  /\ Len(order) = Cardinality(Ids)
  /\ \A n \in Ids : \E i \in 1..Len(order) : order[i] = n
  /\ \A i \in DOMAIN links : \E a, b \in 1..Len(order) :
       a < b /\ order[a] = Source(links, i) /\ order[b] = Target(links, i)
=============================================================================
