---------------------------- MODULE RevisionCatalog ----------------------------
(***************************************************************************)
(* What publication promises to a reader of Chart Artifacts: Chart         *)
(* Revisions appear one by one, each with all of its output objects, at    *)
(* most one per Generation Job and one per number of an artifact; the head *)
(* is the highest number; nothing published is taken back.                 *)
(*                                                                         *)
(* RenderPublication, with its leases, its object store and its cleaner,   *)
(* implements this specification.                                          *)
(***************************************************************************)
EXTENDS Integers

CONSTANTS Jobs,            \* Generation Jobs in their render phase
          Artifacts,       \* Chart Artifacts
          ArtifactOf,      \* the artifact a job publishes to
          Numbers          \* revision numbers

VARIABLES catalog,         \* published revisions: [job, artifact, number]
          head,            \* number of chart_artifacts.head_revision_id, 0 before the first
          readable         \* jobs whose published outputs can all be read

vars == <<catalog, head, readable>>

Init == /\ catalog = {}
        /\ head \in [Artifacts -> {0, 1}]
        /\ readable = {}

(* The numbers of one artifact are not contiguous (a reserved number of a  *)
(* failed job stays unused) and need not be published in order.            *)
Publish(j, n) ==
    LET a == ArtifactOf[j]
    IN  /\ \A r \in catalog : r.job # j /\ (r.artifact = a => r.number # n)
        /\ catalog' = catalog \cup {[job |-> j, artifact |-> a, number |-> n]}
        /\ head' = [head EXCEPT ![a] = IF n > @ THEN n ELSE @]
        /\ readable' = readable \cup {j}

Next == \E j \in Jobs, n \in Numbers : Publish(j, n)

Spec == Init /\ [][Next]_vars
=============================================================================
