------------------------------- MODULE Filters -------------------------------
(***************************************************************************)
(* The list comprehension [x for x in s if x in kept], which the planner,  *)
(* the provider router and the block graph use: SelectSeq for a set in the *)
(* place of a predicate, as a recursive function that proofs can unfold.   *)
(***************************************************************************)
EXTENDS Naturals, Sequences

FilterSteps(s, kept) ==
  LET upTo[i \in 0..Len(s)] ==
        IF i = 0 THEN <<>>
        ELSE IF s[i] \in kept THEN Append(upTo[i - 1], s[i]) ELSE upTo[i - 1]
  IN upTo

Filter(s, kept) == FilterSteps(s, kept)[Len(s)]
=============================================================================
