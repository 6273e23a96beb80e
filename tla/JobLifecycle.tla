----------------------------- MODULE JobLifecycle -----------------------------
(***************************************************************************)
(* What the rows of table generation_jobs promise to a reader who cannot   *)
(* see any worker: the statuses a Generation Job moves through, which of   *)
(* them carry a lease, and the fencing token that counts the claims.       *)
(*                                                                         *)
(* GenerationJobLease, where workers act on a private copy of a lease that *)
(* may be long gone, implements this specification: no UPDATE in the code  *)
(* checks the status it replaces (only the lease columns), so that the     *)
(* edges below are the only ones taken is a consequence of the protocol.   *)
(***************************************************************************)
EXTENDS Integers

CONSTANT Jobs                  \* the Generation Jobs of the queue

VARIABLES status,              \* generation_jobs.status
          leased,              \* is lease_owner / lease_expires_at set?
          fence                \* generation_jobs.lease_fencing_token

vars == <<status, leased, fence>>

-----------------------------------------------------------------------------
(* The status enumeration and the classes the code sorts it into *)

\* Claimed by a generation worker; an expired lease sends them back to queued.
GenerationRunning == {"profiling", "planning", "transforming", "compiling"}

\* Claimed by a render worker; an expired lease sends them back to rendering.
RenderRunning == {"rendering", "validating"}

\* Left only by an API request, if at all.
Settled == {"succeeded", "failed", "needs_clarification", "cancelled"}

Status == {"queued"} \cup GenerationRunning \cup RenderRunning \cup Settled

\* The status a running job returns to when its lease has expired.
RestartStatus(s) == IF s \in GenerationRunning THEN "queued" ELSE "rendering"

\* Status changes a lease holder may make: the pipeline of one attempt.
StageEdges == {<<"profiling", "profiling">>, <<"profiling", "planning">>,
               <<"planning", "transforming">>, <<"transforming", "compiling">>,
               <<"rendering", "validating">>}

\* Status changes that also give the lease up.
ReleaseEdges ==
    {<<"compiling", "rendering">>, <<"planning", "needs_clarification">>,
     <<"validating", "succeeded">>}
    \cup ((GenerationRunning \cup RenderRunning) \X {"failed"})

-----------------------------------------------------------------------------
Init == /\ status = [j \in Jobs |-> "queued"]
        /\ leased = [j \in Jobs |-> FALSE]
        /\ fence  = [j \in Jobs |-> 0]

(* A worker takes the job: from queued, or from rendering when no lease or *)
(* only an expired one is on the row. Every claim raises the fencing token *)
(* by one.                                                                 *)
Claim(j) ==
    /\ \/ status[j] = "queued" /\ ~leased[j] /\ status' = [status EXCEPT ![j] = "profiling"]
       \/ status[j] = "rendering" /\ status' = status
    /\ leased' = [leased EXCEPT ![j] = TRUE]
    /\ fence'  = [fence EXCEPT ![j] = fence[j] + 1]

(* The holder moves to the next stage. *)
Advance(j) ==
    /\ leased[j]
    /\ \E s \in Status : /\ <<status[j], s>> \in StageEdges
                         /\ status' = [status EXCEPT ![j] = s]
    /\ UNCHANGED <<leased, fence>>

(* The holder hands off, asks, fails or completes, and drops the lease. *)
Release(j) ==
    /\ leased[j]
    /\ \E s \in Status : /\ <<status[j], s>> \in ReleaseEdges
                         /\ status' = [status EXCEPT ![j] = s]
    /\ leased' = [leased EXCEPT ![j] = FALSE]
    /\ UNCHANGED fence

(* A sweep returns the jobs of a set to their restart status. Only leased  *)
(* jobs may be swept: an unleased one is waiting, not abandoned.           *)
Sweep(expired) ==
    /\ \A j \in expired : leased[j]
    /\ status' = [j \in Jobs |-> IF j \in expired THEN RestartStatus(status[j])
                                                  ELSE status[j]]
    /\ leased' = [j \in Jobs |-> leased[j] /\ j \notin expired]
    /\ UNCHANGED fence

(* The user asks for another try of a failed job, or stops a job that      *)
(* waits for an answer.                                                    *)
Resubmit(j) ==
    /\ status[j] = "failed"
    /\ status' = [status EXCEPT ![j] = "queued"]
    /\ UNCHANGED <<leased, fence>>

Stop(j) ==
    /\ status[j] = "needs_clarification"
    /\ status' = [status EXCEPT ![j] = "cancelled"]
    /\ UNCHANGED <<leased, fence>>

Next == \/ \E j \in Jobs : Claim(j) \/ Advance(j) \/ Release(j) \/ Resubmit(j) \/ Stop(j)
        \/ \E expired \in SUBSET Jobs : Sweep(expired)

Spec == Init /\ [][Next]_vars
=============================================================================
