------------------------- MODULE MCProviderFallback -------------------------
(* Two providers in the order of their names, overlapping calls.           *)
EXTENDS ProviderFallback, TLC

CONSTANTS a, b

ByName == <<a, b>>
=============================================================================
