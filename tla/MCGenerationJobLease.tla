------------------------- MODULE MCGenerationJobLease -------------------------
(* Instances of GenerationJobLease for TLC. *)
EXTENDS GenerationJobLease, TLC

CONSTANTS g1, g2, r1, r2, q1, q2

\* One GENERATION_WORKER_ID and one RENDER_WORKER_ID for all replicas.
SharedNames == [w \in Workers |-> IF w \in GenWorkers THEN "generation" ELSE "render"]

OneGenerate == [j \in Jobs |-> "generate"]
GenerateThenEdit == [j \in Jobs |-> IF j = 1 THEN "generate" ELSE "derived"]
=============================================================================
