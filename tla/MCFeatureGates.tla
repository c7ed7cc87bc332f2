--------------------------- MODULE MCFeatureGates ---------------------------
(* Model values for FeatureGates: two versions of the file that gate the    *)
(* feature, beside the ones that are missing, broken or cut short.          *)
EXTENDS FeatureGates

CONSTANTS v1, v2

MCVersions == {v1, v2}
=============================================================================
