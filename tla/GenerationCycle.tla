---------------------------- MODULE GenerationCycle ----------------------------
(***************************************************************************)
(* The cycle of one generation job: a worker claims it, admits and sends   *)
(* one request to the model, records what it used, then transforms,        *)
(* compiles, validates and repairs, and settles the job under its lease.   *)
(*                                                                         *)
(* A stalled worker may run on after its job has been taken over, so that  *)
(* several cycles of one job may be under way, each with the rows of its   *)
(* own invocation in the two usage tables.                                 *)
(***************************************************************************)
EXTENDS Integers, FiniteSets

CONSTANTS
    CycleWorkers,    \* generation workers
    NoWorker,        \* no worker
    MaxClaims,       \* bound: claims of the job
    MaxCycleFaults   \* bound: expired leases, dead workers and database errors

ASSUME GenerationCycleAssumption ==
    /\ NoWorker \notin CycleWorkers
    /\ MaxClaims \in Nat \ {0}
    /\ MaxCycleFaults \in Nat

CycleStages == {"planning", "transforming", "compiling", "validating"}
MaxRepairs == 2

\* The two tables that record what an invocation used.
UsageTables == {"private", "project"}

\* What becomes of a plan is settled by the plan and the data: the code is deterministic.
Plans == {"sound", "breaks transform", "misses x", "breaks compile", "invalid", "too many points"}

\* How the provider's answers end: an HTTP error may carry the very code that the
\* gateway uses for requests it did not send.
ProviderAnswers == {"ready", "question", "bad output", "rejected", "unavailable"}
DeterministicAnswers == {"ready", "question", "bad output"}

VARIABLES
    route,         \* model_route.generation_mode, frozen with the job
    cycleStatus,   \* status of the job: queued, running, rendering, needs_clarification, failed
    leaseHolder,   \* the worker whose token the row carries
    cycleAttempts,  \* generation_jobs.attempt_count
    usage,         \* rows of the usage tables, by invocation: none, admitted, succeeded, failed
    sent,          \* invocations whose request has reached the provider
    recorded,       \* what the job records of the cycle that settled it
    cycle,         \* local state of each worker
    cycleFaults    \* faults so far

generationCycleVars ==
    <<route, cycleStatus, leaseHolder, cycleAttempts, usage, sent, recorded, cycle, cycleFaults>>

Invocations == 1..(MaxClaims + 1)
NoUsage == [t \in UsageTables |-> "none"]

createAudit == [s \in CycleStages |-> "pending"]

Idle == [at |-> "idle", invocation |-> 0, result |-> "none", plan |-> "none", repairs |-> 0,
         audit |-> createAudit, checked |-> "pending"]
NoOutcome == [kind |-> "none", invocation |-> 0, audit |-> createAudit, checked |-> "pending"]

GenerationCycleInit ==
    /\ route \in {"llm", "deterministic"}
    /\ cycleStatus = "queued"
    /\ leaseHolder = NoWorker
    /\ cycleAttempts = 0
    /\ usage = [i \in Invocations |-> NoUsage]
    /\ sent = {}
    /\ recorded = NoOutcome
    /\ cycle = [w \in CycleWorkers |-> Idle]
    /\ cycleFaults = 0

-----------------------------------------------------------------------------
\* The job and its lease; GenerationJobLease has the details.

cycleJobVars == <<cycleStatus, leaseHolder, cycleAttempts, recorded>>
usageVars == <<usage, sent>>

\* The worker w at step a turns to the step b.
Goes(w, a, b) ==
    /\ cycle[w].at = a
    /\ cycle' = [cycle EXCEPT ![w].at = b]

Claim(w) ==
    /\ cycleStatus = "queued" /\ cycleAttempts < MaxClaims
    /\ Goes(w, "idle", "claimed")
    /\ cycleStatus' = "running"
    /\ leaseHolder' = w
    /\ cycleAttempts' = cycleAttempts + 1
    /\ UNCHANGED <<route, usageVars, recorded, cycleFaults>>

\* The row is read after the claim, by a statement of its own without a lease condition:
\* the invocation is numbered after the attempts counted by then.
ReadClaimed(w) ==
    /\ cycle[w].at = "claimed"
    /\ cycle' = [cycle EXCEPT ![w].at = "read", ![w].invocation = cycleAttempts + 1]
    /\ UNCHANGED <<route, cycleJobVars, usageVars, cycleFaults>>

\* setStatus("profiling"): refused without the lease.
EnterProfiling(w) ==
    /\ IF leaseHolder = w
       THEN Goes(w, "read", "assembling")
       ELSE cycle[w].at = "read" /\ cycle' = [cycle EXCEPT ![w] = Idle]
    /\ UNCHANGED <<route, cycleJobVars, usageVars, cycleFaults>>

\* A frozen input of the job does not pass its schema, or the credential is missing: the
\* job fails without an audit.
RefuseInputs(w) ==
    /\ cycle[w].at = "assembling"
    /\ cycle' = [cycle EXCEPT ![w].at = "settling", ![w].result = "refused"]
    /\ UNCHANGED <<route, cycleJobVars, usageVars, cycleFaults>>

\* Whoever settles the job must hold its lease.
Settle(w) ==
    /\ cycle[w].at = "settling"
    /\ IF leaseHolder = w
       THEN /\ cycleStatus' = CASE cycle[w].result = "drafted" -> "rendering"
                                [] cycle[w].result = "question" -> "needs_clarification"
                                [] OTHER -> "failed"
            /\ leaseHolder' = NoWorker
            /\ recorded' = [kind |-> cycle[w].result, invocation |-> cycle[w].invocation,
                           audit |-> cycle[w].audit, checked |-> cycle[w].checked]
       ELSE UNCHANGED <<cycleStatus, leaseHolder, recorded>>
    /\ cycle' = [cycle EXCEPT ![w] = Idle]
    /\ UNCHANGED <<route, cycleAttempts, usageVars, cycleFaults>>

\* A lease runs out and the sweep requeues the job; its worker may not notice for a while.
LeaseExpires ==
    /\ leaseHolder # NoWorker /\ cycleFaults < MaxCycleFaults
    /\ leaseHolder' = NoWorker
    /\ cycleStatus' = "queued"
    /\ cycleFaults' = cycleFaults + 1
    /\ UNCHANGED <<route, cycleAttempts, usageVars, recorded, cycle>>

CycleWorkerDies(w) ==
    /\ cycle[w].at # "idle" /\ cycleFaults < MaxCycleFaults
    /\ cycle' = [cycle EXCEPT ![w] = Idle]
    /\ cycleFaults' = cycleFaults + 1
    /\ UNCHANGED <<route, cycleJobVars, usageVars>>

\* The retry endpoint requeues a failed job.
RetryJob ==
    /\ cycleStatus = "failed"
    /\ cycleStatus' = "queued"
    /\ UNCHANGED <<route, leaseHolder, cycleAttempts, usageVars, recorded, cycle, cycleFaults>>

-----------------------------------------------------------------------------
\* prepare and plan.

\* The cycle ends at stage s with an error, and the audit says so.
FailAt(w, s) ==
    cycle' = [cycle EXCEPT ![w].at = "settling", ![w].result = "failed",
                           ![w].audit[s] = "failed",
                           ![w].checked = IF @ = "pending" THEN "failed" ELSE @]

\* The cycle ends with a question to the user; s has the status v in the audit.
AskAt(w, s, v) ==
    cycle' = [cycle EXCEPT ![w].at = "settling", ![w].result = "question",
                           ![w].audit[s] = v]

\* The context passes; or it is invalid or past the deadline; or memories are in conflict,
\* which only the user can settle.
Prepare(w) ==
    /\ cycle[w].at = "assembling"
    /\ \/ Goes(w, "assembling", IF route = "llm" THEN "admitting" ELSE "planning")
       \/ FailAt(w, "planning")
       \/ AskAt(w, "planning", "succeeded")
    /\ UNCHANGED <<route, cycleJobVars, usageVars, cycleFaults>>

\* The deterministic gateway answers at once and uses nothing.
AnswerOffline(w) ==
    /\ cycle[w].at = "planning"
    /\ \E a \in DeterministicAnswers :
          cycle' = [cycle EXCEPT ![w].at = "planned", ![w].result = a]
    /\ UNCHANGED <<route, cycleJobVars, usageVars, cycleFaults>>

\* The gate is closed, the request exceeds its budget or its sources were revoked.
RefuseAdmission(w) ==
    /\ cycle[w].at = "admitting"
    /\ FailAt(w, "planning")
    /\ UNCHANGED <<route, cycleJobVars, usageVars, cycleFaults>>

\* One transaction upserts a row in each table.
Admit(w) ==
    /\ Goes(w, "admitting", "admitted")
    /\ usage' = [usage EXCEPT ![cycle[w].invocation] = [t \in UsageTables |-> "admitted"]]
    /\ UNCHANGED <<route, cycleJobVars, sent, cycleFaults>>

\* The request rebuilt from what was admitted is over budget: nothing was sent.
RefuseRebuilt(w) ==
    /\ cycle[w].at = "admitted"
    /\ cycle' = [cycle EXCEPT ![w].at = "discarding", ![w].result = "threw unsent"]
    /\ UNCHANGED <<route, cycleJobVars, usageVars, cycleFaults>>

\* The gateway finds the request late or its route changed, and does not send it.
RefuseSending(w) ==
    /\ cycle[w].at = "admitted"
    /\ cycle' = [cycle EXCEPT ![w].at = "answered", ![w].result = "unsent"]
    /\ UNCHANGED <<route, cycleJobVars, usageVars, cycleFaults>>

\* The transport sees the deadline or the cancellation itself, before it fetches.
TimeOutUnsent(w) ==
    /\ cycle[w].at = "admitted"
    /\ cycle' = [cycle EXCEPT ![w].at = "answered", ![w].result = "timeout"]
    /\ UNCHANGED <<route, cycleJobVars, usageVars, cycleFaults>>

SendRequest(w) ==
    /\ Goes(w, "admitted", "waiting")
    /\ sent' = sent \cup {cycle[w].invocation}
    /\ UNCHANGED <<route, cycleJobVars, usage, cycleFaults>>

\* The provider answers, or the connection fails, or the deadline passes first.
ReceiveAnswer(w) ==
    /\ cycle[w].at = "waiting"
    /\ \E a \in ProviderAnswers \cup {"timeout"} :
          cycle' = [cycle EXCEPT ![w].at = "answered", ![w].result = a]
    /\ UNCHANGED <<route, cycleJobVars, usageVars, cycleFaults>>

-----------------------------------------------------------------------------
\* The usage rows of an answered invocation.

\* Mutant: an HTTP error with such a code is taken for one.
NeverSentOrRejected(result) == result \in {"unsent", "rejected"}

\* No HTTP status, and a code of the gateway's own: the request was never sent.
NeverSent(result) == result = "unsent"

\* What completeMemoryInvocationUsage writes into the rows of tables ts that exist.
Completed(rows, ts, s) ==
    [t \in UsageTables |-> IF t \in ts /\ rows[t] # "none" THEN s ELSE rows[t]]

UsageStatus(result) == IF result \in {"ready", "question"} THEN "succeeded" ELSE "failed"

\* Two updates side by side, not in a transaction.
CompleteUsage(w) ==
    /\ cycle[w].at = "answered" /\ ~ NeverSent(cycle[w].result)
    /\ usage' = [usage EXCEPT ![cycle[w].invocation] =
                    Completed(@, UsageTables, UsageStatus(cycle[w].result))]
    /\ cycle' = [cycle EXCEPT ![w].at = "planned"]
    /\ UNCHANGED <<route, cycleJobVars, sent, cycleFaults>>

DiscardUsage(w) ==
    /\ \/ cycle[w].at = "answered" /\ NeverSent(cycle[w].result)
       \/ cycle[w].at = "discarding"
    /\ usage' = [usage EXCEPT ![cycle[w].invocation] = NoUsage]
    /\ cycle' = [cycle EXCEPT ![w].at = "planned"]
    /\ UNCHANGED <<route, cycleJobVars, sent, cycleFaults>>

\* The database fails one or both updates, or the deletion: the error is caught, and an
\* invocation that may have been sent is recorded as failed.
UsageFails(w) ==
    /\ cycle[w].at = "answered" /\ cycleFaults < MaxCycleFaults
    /\ \E ts \in SUBSET UsageTables :
          /\ ts # UsageTables
          /\ NeverSent(cycle[w].result) => ts = {}
          /\ usage' = [usage EXCEPT ![cycle[w].invocation] =
                          Completed(@, ts, UsageStatus(cycle[w].result))]
    /\ cycle' = [cycle EXCEPT ![w].at = "recovering", ![w].result = "threw"]
    /\ cycleFaults' = cycleFaults + 1
    /\ UNCHANGED <<route, cycleJobVars, sent>>

RecordFailed(w) ==
    /\ Goes(w, "recovering", "planned")
    /\ usage' = [usage EXCEPT ![cycle[w].invocation] = Completed(@, UsageTables, "failed")]
    /\ UNCHANGED <<route, cycleJobVars, sent, cycleFaults>>

\* The second attempt fails too: its error replaces the first.
RecordFails(w) ==
    /\ cycle[w].at \in {"recovering", "discarding"} /\ cycleFaults < MaxCycleFaults
    /\ \E ts \in SUBSET UsageTables :
          /\ ts # UsageTables
          /\ cycle[w].at = "discarding" => ts = {}
          /\ usage' = [usage EXCEPT ![cycle[w].invocation] = Completed(@, ts, "failed")]
    /\ cycle' = [cycle EXCEPT ![w].at = "planned", ![w].result = "threw"]
    /\ cycleFaults' = cycleFaults + 1
    /\ UNCHANGED <<route, cycleJobVars, sent>>

-----------------------------------------------------------------------------
\* The graph behind the plan: transform, compile, validate, repair.

\* A model's question and a plan end the planning stage well.  An answer that is an error
\* had ended it well too, until its failure is recorded.
TakeAnswer(w) ==
    /\ cycle[w].at = "planned"
    /\ CASE cycle[w].result = "ready" ->
               \E p \in Plans :
                  cycle' = [cycle EXCEPT ![w].at = "transform", ![w].plan = p,
                                         ![w].audit["planning"] = "succeeded"]
         [] cycle[w].result = "question" -> AskAt(w, "planning", "succeeded")
         [] OTHER -> FailAt(w, "planning")
    /\ UNCHANGED <<route, cycleJobVars, usageVars, cycleFaults>>

Transform(w) ==
    /\ cycle[w].at = "transform"
    /\ IF cycle[w].plan = "breaks transform"
       THEN FailAt(w, "transforming")
       ELSE cycle' = [cycle EXCEPT ![w].at = "compile", ![w].audit["transforming"] = "succeeded"]
    /\ UNCHANGED <<route, cycleJobVars, usageVars, cycleFaults>>

\* The readiness gate turns a missing x field into a question.
Compile(w) ==
    /\ cycle[w].at = "compile"
    /\ CASE cycle[w].plan = "misses x" ->
               cycle' = [cycle EXCEPT ![w].at = "settling", ![w].result = "question",
                                      ![w].audit["compiling"] = "needs_clarification",
                                      ![w].checked = "failed"]
         [] cycle[w].plan = "breaks compile" -> FailAt(w, "compiling")
         [] OTHER -> cycle' = [cycle EXCEPT ![w].at = "validate",
                                            ![w].audit["compiling"] = "succeeded"]
    /\ UNCHANGED <<route, cycleJobVars, usageVars, cycleFaults>>

Validate(w) ==
    /\ cycle[w].at = "validate"
    /\ CASE cycle[w].plan = "sound" ->
               cycle' = [cycle EXCEPT ![w].at = "settling", ![w].result = "drafted",
                                      ![w].audit["validating"] = "succeeded",
                                      ![w].checked = "passed"]
         [] /\ cycle[w].plan # "sound"
            /\ cycle[w].plan = "too many points" \/ cycle[w].repairs >= MaxRepairs ->
               cycle' = [cycle EXCEPT ![w].at = "settling", ![w].result = "failed",
                                      ![w].audit["validating"] = "failed",
                                      ![w].checked = "failed"]
         [] OTHER -> cycle' = [cycle EXCEPT ![w].at = "repair",
                                            ![w].audit["validating"] = "succeeded",
                                            ![w].checked = "failed"]
    /\ UNCHANGED <<route, cycleJobVars, usageVars, cycleFaults>>

\* The same plan once more.
Repair(w) ==
    /\ cycle[w].at = "repair"
    /\ cycle' = [cycle EXCEPT ![w].at = "transform", ![w].repairs = @ + 1]
    /\ UNCHANGED <<route, cycleJobVars, usageVars, cycleFaults>>

-----------------------------------------------------------------------------
CycleStep(w) ==
    \/ Claim(w) \/ ReadClaimed(w) \/ EnterProfiling(w) \/ RefuseInputs(w) \/ Settle(w)
    \/ Prepare(w) \/ AnswerOffline(w) \/ RefuseAdmission(w) \/ Admit(w)
    \/ RefuseRebuilt(w) \/ RefuseSending(w) \/ TimeOutUnsent(w)
    \/ SendRequest(w) \/ ReceiveAnswer(w)
    \/ CompleteUsage(w) \/ DiscardUsage(w) \/ UsageFails(w) \/ RecordFailed(w) \/ RecordFails(w)
    \/ TakeAnswer(w) \/ Transform(w) \/ Compile(w) \/ Validate(w) \/ Repair(w)
    \/ CycleWorkerDies(w)

GenerationCycleNext ==
    \/ LeaseExpires \/ RetryJob
    \/ \E w \in CycleWorkers : CycleStep(w)

GenerationCycleSpec == GenerationCycleInit /\ [][GenerationCycleNext]_generationCycleVars

-----------------------------------------------------------------------------
UsageStatuses == {"none", "admitted", "succeeded", "failed"}

\* The shape of the state.
GenerationCycleTypeOK ==
    /\ route \in {"llm", "deterministic"}
    /\ cycleStatus \in {"queued", "running", "rendering", "needs_clarification", "failed"}
    /\ leaseHolder \in CycleWorkers \cup {NoWorker}
    /\ cycleAttempts \in 0..MaxClaims
    /\ usage \in [Invocations -> [UsageTables -> UsageStatuses]]
    /\ sent \subseteq Invocations
    /\ \A w \in CycleWorkers : /\ cycle[w].invocation \in 0..(MaxClaims + 1)
                               /\ cycle[w].repairs \in 0..MaxRepairs
    /\ cycleFaults \in 0..MaxCycleFaults

\* A request that has reached the provider stays on record in both usage tables, whatever
\* the answer, the failures of the database and the other cycles of the job
\* (memory-invocation-gateway.ts discards the rows of requests it did not send).
UsageNeverLost == \A i \in sent : \A t \in UsageTables : usage[i][t] # "none"

\* The record of a settled job agrees with what happened.  A draft went through every
\* stage, and both tables say that its invocation succeeded; a failure has exactly one
\* failed stage and a failed plan check; a question has no failed stage.
OutcomeIsExplained ==
    LET failed == {s \in CycleStages : recorded.audit[s] = "failed"}
    IN  CASE recorded.kind = "drafted" ->
                /\ recorded.audit = [s \in CycleStages |-> "succeeded"]
                /\ recorded.checked = "passed"
                /\ route = "llm" =>
                      \A t \in UsageTables : usage[recorded.invocation][t] = "succeeded"
          [] recorded.kind = "failed" -> Cardinality(failed) = 1 /\ recorded.checked = "failed"
          [] OTHER -> failed = {}

\* What is on record of a job's requests and stages is what happened, although the rows are
\* written apart, without a transaction, and each write may fail.
CycleIsOnRecord == UsageNeverLost /\ OutcomeIsExplained
=============================================================================
