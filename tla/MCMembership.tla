----------------------------- MODULE MCMembership -----------------------------
(* Model values and bounds for Membership: one tick is half a day, and a   *)
(* subscription lasts one day and a half instead of thirty days.           *)
EXTENDS Membership, TLC

CONSTANT c1

MCPlanOf == c1 :> "pro"

\* Deliveries of one event, and calls of upgrade, are alike.
Symmetry == Permutations(Copies) \cup Permutations(Upgrades)
===============================================================================
