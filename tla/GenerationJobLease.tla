-------------------------- MODULE GenerationJobLease --------------------------
(***************************************************************************)
(* The Generation Job queue of LangReport: rows of table generation_jobs,  *)
(* the generation workers and render workers that claim them under a       *)
(* fenced lease, and the retry and cancel endpoints of the API.            *)
(*                                                                         *)
(* Every database statement of the code is one action: between two of them *)
(* any other process may act, a worker may die, and a lease may expire. A  *)
(* worker remembers the job, the stage it believes the job is in and the   *)
(* fencing token it was given; nothing tells it that the row moved on. The *)
(* random lease token is fresh at every claim, as the fencing token is, so *)
(* the fencing token stands for both. The owner name does not tell two     *)
(* processes apart: GENERATION_WORKER_ID and RENDER_WORKER_ID may give all *)
(* replicas of a deployment the same one.                                  *)
(*                                                                         *)
(* Every process compares lease_expires_at with a clock value of its own,  *)
(* captured before the statement runs. expired[j] says that the clocks of  *)
(* the OTHER processes are past the expiry; the holder's own clock may lag *)
(* behind, so a holder may still write to an expired lease (if nobody took *)
(* the row over) or be refused.                                            *)
(***************************************************************************)
EXTENDS Integers, FiniteSets

CONSTANTS Jobs,                   \* job numbers, in the order of created_at
          Operation,              \* Operation[j]: "generate", or "derived" (edit, rollback, copy)
          GenWorkers,             \* generation worker processes
          RenderWorkers,          \* render worker processes
          OwnerName,              \* the workerInstanceId of a process
          Requests,               \* retry requests the API serves concurrently
          None,                   \* SQL NULL, no request, nobody
          MaxGenerationAttempts,  \* MAX_GENERATION_ATTEMPTS of the API
          MaxDisruptions          \* bound: worker deaths, stalls and lost lock sessions of one run

Workers == GenWorkers \cup RenderWorkers

ASSUME JobsAssumption == Jobs \subseteq Nat /\ None \notin Jobs
ASSUME OperationAssumption == Operation \in [Jobs -> {"generate", "derived"}]
ASSUME WorkersAssumption == None \notin Workers /\ GenWorkers \cap RenderWorkers = {}
ASSUME OwnerAssumption == \A w \in Workers : OwnerName[w] # None
ASSUME BoundsAssumption == MaxGenerationAttempts \in Nat /\ MaxDisruptions \in Nat

VARIABLES
    (* columns of generation_jobs *)
    status, owner, fence, attempts,
    error,        \* class of error_code: none, retryable, permanent, expired, question, stopped
    expired,      \* has lease_expires_at passed on the other processes' clocks?
    published,    \* Chart Revisions inserted for the job
    messages,     \* clarification questions inserted for the job
    (* local state of a worker process *)
    pc,           \* what it is about to do
    job,          \* the job it selected or holds
    held,         \* the fencing token of its lease, 0 before the claim
    (* the rest *)
    renderLock,   \* session advisory lock generation-render:<job>
    request,      \* what a retry request read before it writes
    disruptions   \* disruptions so far, bounded by MaxDisruptions

row    == <<status, owner, fence, attempts, error, expired, published>>
worker == <<pc, job, held>>
vars   == <<row, messages, worker, renderLock, request, disruptions>>

-----------------------------------------------------------------------------
(* Statuses and worker stages *)

GenerationRunning == {"profiling", "planning", "transforming", "compiling"}
RenderRunning     == {"rendering", "validating"}
Settled           == {"succeeded", "failed", "needs_clarification", "cancelled"}
Status            == {"queued"} \cup GenerationRunning \cup RenderRunning \cup Settled

ErrorClass == {"none", "retryable", "permanent", "expired", "question", "stopped"}

\* "claimed": the lease is taken, the first write under it is still to come.
\* "asking", "asked": before and after the insert of a clarification question.
GenStage    == {"claimed", "asking", "asked"} \cup GenerationRunning
RenderStage == RenderRunning
Holding     == GenStage \cup RenderStage
WorkerState == {"idle", "polled", "selected"} \cup Holding

\* The status a worker at stage s believes its job to have.
StageStatus(s) == CASE s = "claimed" -> "profiling"
                    [] s \in {"asking", "asked"} -> "planning"
                    [] OTHER -> s

\* The status a worker polls for.
QueueOf(w) == IF w \in GenWorkers THEN "queued" ELSE "rendering"

-----------------------------------------------------------------------------
Init == /\ status = [j \in Jobs |-> "queued"]
        /\ owner = [j \in Jobs |-> None]
        /\ fence = [j \in Jobs |-> 0]
        /\ attempts = [j \in Jobs |-> 0]
        /\ error = [j \in Jobs |-> "none"]
        /\ expired = [j \in Jobs |-> FALSE]
        /\ published = [j \in Jobs |-> 0]
        /\ messages = [j \in Jobs |-> 0]
        /\ pc = [w \in Workers |-> "idle"]
        /\ job = [w \in Workers |-> None]
        /\ held = [w \in Workers |-> 0]
        /\ renderLock = [j \in Jobs |-> None]
        /\ request = [c \in Requests |-> None]
        /\ disruptions = 0

-----------------------------------------------------------------------------
(* The lease: conditions and writes shared by the handlers. A definition   *)
(* whose comment begins with "Mutant" is not part of the specification: it *)
(* is a plausible bug in the definition after it, kept to show that the    *)
(* properties notice.                                                      *)

\* Mutant: the lease condition compares the owner only.
OwnsLeaseByName(w) == owner[job[w]] = OwnerName[w]

\* ownedLeaseCondition: the row still carries the lease of worker w.
OwnsLease(w) == owner[job[w]] = OwnerName[w] /\ fence[job[w]] = held[w]

\* The lease condition of a claim: no lease, or one that has expired.
Claimable(j) == owner[j] = None \/ expired[j]

\* Mutant: a claim leaves the fencing token as it was.
TakeLeaseSameToken(w, next) ==
    /\ status[job[w]] = QueueOf(w)
    /\ Claimable(job[w])
    /\ status' = [status EXCEPT ![job[w]] = next]
    /\ owner' = [owner EXCEPT ![job[w]] = OwnerName[w]]
    /\ expired' = [expired EXCEPT ![job[w]] = FALSE]
    /\ held' = [held EXCEPT ![w] = fence[job[w]]]
    /\ UNCHANGED fence

\* claimGenerationJobLease: one conditional UPDATE.
TakeLease(w, next) ==
    /\ status[job[w]] = QueueOf(w)
    /\ Claimable(job[w])
    /\ status' = [status EXCEPT ![job[w]] = next]
    /\ owner' = [owner EXCEPT ![job[w]] = OwnerName[w]]
    /\ fence' = [fence EXCEPT ![job[w]] = fence[job[w]] + 1]
    /\ expired' = [expired EXCEPT ![job[w]] = FALSE]
    /\ held' = [held EXCEPT ![w] = fence[job[w]] + 1]

\* Mutants: the UPDATE is not conditional on the lease; every UPDATE releases.
AdvanceUnconditionally(w, next) ==
    /\ status' = [status EXCEPT ![job[w]] = next]
    /\ expired' = [expired EXCEPT ![job[w]] = FALSE]
    /\ UNCHANGED <<owner, fence>>

AdvanceReleasing(w, next) ==
    /\ OwnsLease(w)
    /\ status' = [status EXCEPT ![job[w]] = next]
    /\ owner' = [owner EXCEPT ![job[w]] = None]
    /\ expired' = [expired EXCEPT ![job[w]] = FALSE]
    /\ UNCHANGED fence

\* setStatus without release: the lease is renewed, then the row updated.
AdvanceTo(w, next) ==
    /\ OwnsLease(w)
    /\ status' = [status EXCEPT ![job[w]] = next]
    /\ expired' = [expired EXCEPT ![job[w]] = FALSE]
    /\ UNCHANGED <<owner, fence>>

\* Mutant: a result is written whether or not the lease is still held.
ReleaseUnconditionally(w, next) ==
    /\ status' = [status EXCEPT ![job[w]] = next]
    /\ owner' = [owner EXCEPT ![job[w]] = None]
    /\ expired' = [expired EXCEPT ![job[w]] = FALSE]
    /\ UNCHANGED fence

\* updateGenerationJobUnderLease with release: the fencing token stays.
ReleaseTo(w, next) ==
    /\ OwnsLease(w)
    /\ status' = [status EXCEPT ![job[w]] = next]
    /\ owner' = [owner EXCEPT ![job[w]] = None]
    /\ expired' = [expired EXCEPT ![job[w]] = FALSE]
    /\ UNCHANGED fence

\* The handler of worker w returns and its lock session, if any, is closed.
Return(w) ==
    /\ pc' = [pc EXCEPT ![w] = "idle"]
    /\ job' = [job EXCEPT ![w] = None]
    /\ held' = [held EXCEPT ![w] = 0]
    /\ renderLock' = [j \in Jobs |-> IF renderLock[j] = w THEN None ELSE renderLock[j]]

Goto(w, stage) == /\ pc' = [pc EXCEPT ![w] = stage]
                  /\ UNCHANGED <<job, held, renderLock>>

SetError(j, class) == error' = [error EXCEPT ![j] = class]

-----------------------------------------------------------------------------
(* Polling: pollOnce of either worker *)

\* Mutant: the sweep knows the statuses of the generation phase only.
RecoverableInGeneration(j) == /\ status[j] \in GenerationRunning
                              /\ owner[j] # None
                              /\ expired[j]

\* Rows recoverExpiredGenerationJobLeases resets.
Recoverable(j) == /\ status[j] \in GenerationRunning \cup RenderRunning
                  /\ owner[j] # None
                  /\ expired[j]

RecoverExpired(w) ==
    /\ pc[w] = "idle"
    /\ pc' = [pc EXCEPT ![w] = "polled"]
    /\ status' = [j \in Jobs |->
                    CASE ~Recoverable(j) -> status[j]
                      [] Recoverable(j) /\ status[j] \in GenerationRunning -> "queued"
                      [] OTHER -> "rendering"]
    /\ owner' = [j \in Jobs |-> IF Recoverable(j) THEN None ELSE owner[j]]
    /\ error' = [j \in Jobs |-> IF Recoverable(j) THEN "expired" ELSE error[j]]
    /\ expired' = [j \in Jobs |-> expired[j] /\ ~Recoverable(j)]
    /\ UNCHANGED <<fence, attempts, published, messages, job, held, renderLock, request, disruptions>>

\* The oldest job in the worker's status, leased to another worker or not.
Select(w, j) ==
    /\ pc[w] = "polled"
    /\ status[j] = QueueOf(w)
    /\ \A k \in Jobs : status[k] = QueueOf(w) => j <= k
    /\ pc' = [pc EXCEPT ![w] = "selected"]
    /\ job' = [job EXCEPT ![w] = j]
    /\ UNCHANGED <<row, messages, held, renderLock, request, disruptions>>

NothingToSelect(w) ==
    /\ pc[w] = "polled"
    /\ \A k \in Jobs : status[k] # QueueOf(w)
    /\ pc' = [pc EXCEPT ![w] = "idle"]
    /\ UNCHANGED <<row, messages, job, held, renderLock, request, disruptions>>

-----------------------------------------------------------------------------
(* Generation worker: processGenerationJob and the handlers it calls *)

ClaimGeneration(w) ==
    /\ w \in GenWorkers
    /\ pc[w] = "selected"
    /\ TakeLease(w, "profiling")
    /\ attempts' = [attempts EXCEPT ![job[w]] = attempts[job[w]] + 1]
    /\ pc' = [pc EXCEPT ![w] = "claimed"]
    /\ UNCHANGED <<error, published, messages, job, renderLock, request, disruptions>>

\* First write under the lease: a generate job starts at profiling, an edit,
\* rollback or copy starts at planning; both clear the previous error.
Begin(w) ==
    /\ pc[w] = "claimed"
    /\ LET first == IF Operation[job[w]] = "generate" THEN "profiling" ELSE "planning"
       IN  AdvanceTo(w, first) /\ Goto(w, first)
    /\ SetError(job[w], "none")
    /\ UNCHANGED <<attempts, published, messages, request, disruptions>>

\* The next stage of the pipeline once the model or the derivation answered.
NextStage == [profiling |-> "planning", planning |-> "transforming",
              transforming |-> "compiling"]

AdvanceStage(w) ==
    /\ pc[w] \in DOMAIN NextStage
    /\ AdvanceTo(w, NextStage[pc[w]])
    /\ Goto(w, NextStage[pc[w]])
    /\ UNCHANGED <<attempts, error, published, messages, request, disruptions>>

\* The model asks for clarification: assert the lease, insert the question in
\* a statement of its own that no lease guards, then settle the job.
CheckLeaseBeforeQuestion(w) ==
    /\ pc[w] = "planning"
    /\ Operation[job[w]] = "generate"
    /\ OwnsLease(w)
    /\ expired' = [expired EXCEPT ![job[w]] = FALSE]
    /\ Goto(w, "asking")
    /\ UNCHANGED <<status, owner, fence, attempts, error, published, messages, request, disruptions>>

PostQuestion(w) ==
    /\ pc[w] = "asking"
    /\ messages' = [messages EXCEPT ![job[w]] = messages[job[w]] + 1]
    /\ Goto(w, "asked")
    /\ UNCHANGED <<row, request, disruptions>>

AwaitClarification(w) ==
    /\ pc[w] = "asked"
    /\ ReleaseTo(w, "needs_clarification")
    /\ SetError(job[w], "question")
    /\ Return(w)
    /\ UNCHANGED <<attempts, published, messages, request, disruptions>>

\* The plan is stored; the job waits for a render worker.
HandOff(w) ==
    /\ pc[w] = "compiling"
    /\ ReleaseTo(w, "rendering")
    /\ Return(w)
    /\ UNCHANGED <<attempts, error, published, messages, request, disruptions>>

\* failJob: a provider fault or an exception may be retried, an invalid input
\* or plan may not.
FailGeneration(w, class) ==
    /\ pc[w] \in GenStage
    /\ ReleaseTo(w, "failed")
    /\ SetError(job[w], class)
    /\ Return(w)
    /\ UNCHANGED <<attempts, published, messages, request, disruptions>>

-----------------------------------------------------------------------------
(* Render worker: processRenderJob and commitCompletedRevision *)

ClaimRendering(w) ==
    /\ w \in RenderWorkers
    /\ pc[w] = "selected"
    /\ renderLock[job[w]] = None
    /\ TakeLease(w, "rendering")
    /\ renderLock' = [renderLock EXCEPT ![job[w]] = w]
    /\ pc' = [pc EXCEPT ![w] = "rendering"]
    /\ UNCHANGED <<attempts, error, published, messages, job, request, disruptions>>

BeginValidating(w) ==
    /\ pc[w] = "rendering"
    /\ AdvanceTo(w, "validating")
    /\ Goto(w, "validating")
    /\ UNCHANGED <<attempts, error, published, messages, request, disruptions>>

\* One transaction inserts the Chart Revision and completes the job.
CommitCompletedRevision(w) ==
    /\ pc[w] = "validating"
    /\ status[job[w]] \in RenderRunning
    /\ ReleaseTo(w, "succeeded")
    /\ published' = [published EXCEPT ![job[w]] = published[job[w]] + 1]
    /\ SetError(job[w], "none")
    /\ Return(w)
    /\ UNCHANGED <<attempts, messages, request, disruptions>>

FailRender(w, class) ==
    /\ pc[w] \in RenderStage
    /\ ReleaseTo(w, "failed")
    /\ SetError(job[w], class)
    /\ Return(w)
    /\ UNCHANGED <<attempts, published, messages, request, disruptions>>

-----------------------------------------------------------------------------
(* Either worker: a claim that matches no row, a lease that is gone *)

MissClaim(w) ==
    /\ pc[w] = "selected"
    /\ \/ status[job[w]] # QueueOf(w)
       \/ ~Claimable(job[w])
       \/ w \in RenderWorkers /\ renderLock[job[w]] # None
    /\ Return(w)
    /\ UNCHANGED <<row, messages, request, disruptions>>

\* The conditional UPDATE matched no row: GenerationJobLeaseLostError ends the
\* handler. The insert of a question is not conditional and cannot notice.
LoseLease(w) ==
    /\ pc[w] \in Holding \ {"asking"}
    /\ ~OwnsLease(w) \/ expired[job[w]]
    /\ Return(w)
    /\ UNCHANGED <<row, messages, request, disruptions>>

\* The periodic renewal of startGenerationJobLeaseHeartbeat.
Heartbeat(w) ==
    /\ pc[w] \in Holding
    /\ OwnsLease(w)
    /\ expired[job[w]]
    /\ expired' = [expired EXCEPT ![job[w]] = FALSE]
    /\ UNCHANGED <<status, owner, fence, attempts, error, published, messages,
                   worker, renderLock, request, disruptions>>

-----------------------------------------------------------------------------
(* Time and faults *)

\* A lease whose holder no longer runs is not renewed and expires.
ExpireOrphan(j) ==
    /\ owner[j] # None /\ ~expired[j]
    /\ \A w \in Workers : pc[w] \in Holding /\ job[w] = j => ~OwnsLease(w)
    /\ expired' = [expired EXCEPT ![j] = TRUE]
    /\ UNCHANGED <<status, owner, fence, attempts, error, published, messages,
                   worker, renderLock, request, disruptions>>

Disrupt == disruptions < MaxDisruptions /\ disruptions' = disruptions + 1

\* A running holder is paused, or cut off, for longer than the lease lasts.
Stall(j) ==
    /\ Disrupt
    /\ owner[j] # None /\ ~expired[j]
    /\ expired' = [expired EXCEPT ![j] = TRUE]
    /\ UNCHANGED <<status, owner, fence, attempts, error, published, messages,
                   worker, renderLock, request>>

\* The process dies and is restarted, or its renewal failed and an exception
\* ends the handler without a write: the row keeps the lease.
Crash(w) ==
    /\ Disrupt
    /\ pc[w] \in {"selected"} \cup Holding
    /\ Return(w)
    /\ UNCHANGED <<row, messages, request>>

\* PostgreSQL drops the session that holds the lock; its worker runs on.
LoseLockSession(j) ==
    /\ Disrupt
    /\ renderLock[j] # None
    /\ renderLock' = [renderLock EXCEPT ![j] = None]
    /\ UNCHANGED <<row, messages, worker, request>>

-----------------------------------------------------------------------------
(* The API *)

\* POST generation-jobs/:jobId/retry reads the row and decides ...
RetryRead(c, j) ==
    /\ request[c] = None
    /\ status[j] = "failed"
    /\ error[j] = "retryable"
    /\ attempts[j] < MaxGenerationAttempts
    /\ request' = [request EXCEPT ![c] = [job |-> j, hasRevision |-> published[j] > 0]]
    /\ UNCHANGED <<row, messages, worker, renderLock, disruptions>>

\* ... and later writes, on the condition that the job is failed (still, or again).
RetryUpdate(c) ==
    /\ request[c] # None
    /\ LET j == request[c].job
       IN  /\ status[j] = "failed"
           /\ status' = [status EXCEPT ![j] = IF request[c].hasRevision THEN "rendering" ELSE "queued"]
           /\ attempts' = [attempts EXCEPT ![j] = IF request[c].hasRevision THEN @ + 1 ELSE @]
           /\ owner' = [owner EXCEPT ![j] = None]
           /\ expired' = [expired EXCEPT ![j] = FALSE]
           /\ SetError(j, "none")
    /\ request' = [request EXCEPT ![c] = None]
    /\ UNCHANGED <<fence, published, messages, worker, renderLock, disruptions>>

RetryTooLate(c) ==
    /\ request[c] # None
    /\ status[request[c].job] # "failed"
    /\ request' = [request EXCEPT ![c] = None]
    /\ UNCHANGED <<row, messages, worker, renderLock, disruptions>>

\* POST generation-jobs/:jobId/cancel: read and conditional UPDATE agree on
\* needs_clarification, a status only this handler leaves.
Cancel(j) ==
    /\ status[j] = "needs_clarification"
    /\ status' = [status EXCEPT ![j] = "cancelled"]
    /\ SetError(j, "stopped")
    /\ owner' = [owner EXCEPT ![j] = None]
    /\ expired' = [expired EXCEPT ![j] = FALSE]
    /\ UNCHANGED <<fence, attempts, published, messages, worker, renderLock, request, disruptions>>

-----------------------------------------------------------------------------
FailureClass == {"retryable", "permanent"}

Poll(w) == RecoverExpired(w) \/ NothingToSelect(w) \/ \E j \in Jobs : Select(w, j)

Claim(w) == ClaimGeneration(w) \/ ClaimRendering(w) \/ MissClaim(w)

Generate(w) == \/ Begin(w) \/ AdvanceStage(w)
               \/ CheckLeaseBeforeQuestion(w) \/ PostQuestion(w) \/ AwaitClarification(w)
               \/ HandOff(w)
               \/ \E class \in FailureClass : FailGeneration(w, class)

Render(w) == \/ BeginValidating(w) \/ CommitCompletedRevision(w)
             \/ \E class \in FailureClass : FailRender(w, class)

\* What a running worker does next; only faults are missing.
Work(w) == Poll(w) \/ Claim(w) \/ Generate(w) \/ Render(w) \/ LoseLease(w)

Next == \/ \E w \in Workers : Work(w) \/ Heartbeat(w) \/ Crash(w)
        \/ \E j \in Jobs : ExpireOrphan(j) \/ Stall(j) \/ LoseLockSession(j) \/ Cancel(j)
        \/ \E c \in Requests : RetryUpdate(c) \/ RetryTooLate(c) \/ \E j \in Jobs : RetryRead(c, j)

Spec == Init /\ [][Next]_vars

\* Workers poll on a timer and their awaits end (each has a timeout), and an
\* unrenewed lease runs out. Nobody has to retry, cancel or renew.
Fairness == /\ \A w \in Workers : WF_vars(Work(w))
            /\ \A j \in Jobs : WF_vars(ExpireOrphan(j))

FairSpec == Spec /\ Fairness

-----------------------------------------------------------------------------
(* Properties *)

\* Types of the columns of generation_jobs and of what a worker process and a
\* retry request keep between two statements.
TypeOK == /\ status \in [Jobs -> Status]
          /\ owner \in [Jobs -> {OwnerName[w] : w \in Workers} \cup {None}]
          /\ fence \in [Jobs -> Nat]
          /\ attempts \in [Jobs -> Nat]
          /\ error \in [Jobs -> ErrorClass]
          /\ expired \in [Jobs -> BOOLEAN]
          /\ published \in [Jobs -> Nat]
          /\ messages \in [Jobs -> Nat]
          /\ pc \in [Workers -> WorkerState]
          /\ job \in [Workers -> Jobs \cup {None}]
          /\ held \in [Workers -> Nat]
          /\ renderLock \in [Jobs -> RenderWorkers \cup {None}]
          /\ request \in [Requests -> {None} \cup [job : Jobs, hasRevision : BOOLEAN]]
          /\ disruptions \in Nat

\* A worker that still owns the lease of its row and the row agree on the stage
\* the job is in. updateGenerationJobUnderLease checks no status, so this is
\* what keeps a late handler from dragging a job through an impossible edge.
LeaseImpliesStage ==
    \A w \in Workers : pc[w] \in Holding /\ OwnsLease(w) => status[job[w]] = StageStatus(pc[w])

\* Two workers on the same job never hold the same fencing token, and none
\* holds one the row has not issued: the condition on the token admits at most
\* one of the handlers that believe they hold the job.
FencesUnique ==
    \A w \in Workers : pc[w] \in Holding =>
        /\ held[w] <= fence[job[w]]
        /\ \A v \in Workers : pc[v] \in Holding /\ v # w /\ job[v] = job[w] => held[v] # held[w]

\* A job in a status that only a lease holder or the recovery sweep can leave
\* carries a lease: the sweep skips rows whose lease columns are NULL, so a row
\* without one would be stuck for ever. A job that waits or is settled has none.
NoStrandedJob ==
    \A j \in Jobs : /\ status[j] \in GenerationRunning \cup {"validating"} => owner[j] # None
                    /\ status[j] \in {"queued"} \cup Settled => owner[j] = None

\* At-least-once execution, one result: a job has a Chart Revision exactly when
\* it has succeeded, and never two, whatever retries and takeovers happened.
PublishedOnce == \A j \in Jobs : published[j] = (IF status[j] = "succeeded" THEN 1 ELSE 0)

\* A handler whose lease was taken over or recovered changes no column of its
\* row in any further step of its own (the promise of the ownedLeaseCondition).
StaleWorkerIsHarmless ==
    [][\A w \in Workers :
          pc[w] \in Holding /\ ~OwnsLease(w) /\ <<pc[w], job[w]>>' # <<pc[w], job[w]>>
             => UNCHANGED row]_vars

\* Every job ends up settled: no crash, stall, takeover or lost lock session
\* leaves it running or queued for ever, as long as they stop happening.
EveryJobSettles == \A j \in Jobs : status[j] \notin Settled ~> status[j] \in Settled

\* The refinement: rows move only along the edges of JobLifecycle.
Lifecycle == INSTANCE JobLifecycle WITH leased <- [j \in Jobs |-> owner[j] # None]
LifecycleSpec == Lifecycle!Spec

-----------------------------------------------------------------------------
(* What the documents say of retries and clarifications, refuted by runs *)

\* docs/history/phase5-design.md:669: a retry requeues recoverable failures
\* only; deterministic failures get an error code.
RetryOnlyRecoverable ==
    [][\A j \in Jobs : status[j] = "failed" /\ status'[j] # "failed" => error[j] = "retryable"]_vars

\* routes.ts:1550: "a generation job is attempted 3 times at most".
AttemptsBounded == \A j \in Jobs : attempts[j] <= MaxGenerationAttempts

\* docs/generation/harness-langgraph-migration-plan.md:110: a clarification is
\* written only by a worker whose lease still matches.
QuestionUnderLease ==
    [][\A w \in Workers : pc[w] = "asking" /\ pc'[w] = "asked" => OwnsLease(w)]_vars
=============================================================================
