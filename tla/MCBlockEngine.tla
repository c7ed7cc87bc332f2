--------------------------- MODULE MCBlockEngine ---------------------------
(* Every graph over three nodes, self loops and links to and from an       *)
(* unknown node included, with the links listed in one fixed order.        *)
EXTENDS BlockEngine, TLC, SequencesExt

ThreeNodes == <<"a", "b", "c">>

AllLinks ==
  [i \in 1..9 |-> <<ThreeNodes[((i - 1) \div 3) + 1], ThreeNodes[((i - 1) % 3) + 1]>>]
    \o << <<"a", "ghost">>, <<"ghost", "b">> >>

AllGraphs ==
  {SelectSeq(AllLinks, LAMBDA l : l \in S) : S \in SUBSET Range(AllLinks)}
=============================================================================
