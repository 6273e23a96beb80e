-------------------------- MODULE MCRenderPublication --------------------------
(* Instances of RenderPublication for TLC. *)
EXTENDS RenderPublication, TLC

CONSTANTS e1, e2, c1, r1, r2

\* Render workers may be exchanged, and so may the jobs of one kind.
ProcessSymmetry == Permutations(RenderWorkers) \cup Permutations(Edits)
=============================================================================
