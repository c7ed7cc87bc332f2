----------------------------- MODULE MCVideoJobs -----------------------------
(* Model values and bounds for VideoJobs: which jobs come from POST        *)
(* /story2video and which from POST /video is set in each .cfg.            *)
EXTENDS VideoJobs, TLC

CONSTANTS j1, j2, j3, j4

AlwaysOn == {TRUE}
Toggling == BOOLEAN

\* Jobs of one kind behave alike: each set is permuted by itself.
KindSymmetry == Permutations(StoryJobs) \cup Permutations(Jobs \ StoryJobs)
=============================================================================
