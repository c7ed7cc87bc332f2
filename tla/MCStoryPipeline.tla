-------------------------- MODULE MCStoryPipeline --------------------------
(* Articles of up to four sentences: shorter than a crossfade, as long,    *)
(* nearly a scene, and longer than a scene may be.                         *)
EXTENDS StoryPipeline

FourEstimates == {1, 2, 5, 7}
=============================================================================
