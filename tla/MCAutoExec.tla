----------------------------- MODULE MCAutoExec -----------------------------
(* Three tasks, which may be independent, or the last depend on the first. *)
EXTENDS AutoExec, TLC

CONSTANTS t1, t2, t3

ThreeInOrder == <<t1, t2, t3>>
TwoPlans == {[t \in Ids |-> {}], [t \in Ids |-> IF t = t3 THEN {t1} ELSE {}]}
=============================================================================
