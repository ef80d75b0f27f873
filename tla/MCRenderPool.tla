---- MODULE MCRenderPool ----
(***************************************************************************)
(* Instance of RenderPool for TLC.                                         *)
(***************************************************************************)
EXTENDS RenderPool, TLC

MCKeys == Browsers \X Sessions
Symmetry == Permutations(Tasks) \cup Permutations(Browsers)
====
