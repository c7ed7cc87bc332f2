--------------------------- MODULE MCProviderStore ---------------------------
(* Model values for ProviderStore.                                         *)
EXTENDS ProviderStore, TLC

CONSTANTS u1, u2, a1, a2, k1, k2

MCSymmetry == Permutations({u1, u2}) \cup Permutations({a1, a2}) \cup Permutations({k1, k2})
=============================================================================
