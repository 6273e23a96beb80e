---------------------------- MODULE MCProjectMemory ----------------------------
(* Instances of ProjectMemory for TLC. *)
EXTENDS ProjectMemory

\* All candidates are taken from one message.
OneCandidateSource == [c \in Candidates |-> CHOOSE s \in Sources : TRUE]
=============================================================================
