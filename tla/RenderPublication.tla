--------------------------- MODULE RenderPublication ---------------------------
(***************************************************************************)
(* The render phase of a Generation Job: reserving the identity of the     *)
(* Chart Revision, writing candidate objects to the object store, the      *)
(* ledger of candidate attempts, the publishing transaction whose COMMIT   *)
(* answer may get lost, and the cleaner that deletes candidates nobody     *)
(* references.                                                             *)
(*                                                                         *)
(* GenerationJobLease models the lease itself; here a claim, an expiry and *)
(* the recovery sweep are kept because every write below depends on them.  *)
(* expired[j] says that PostgreSQL's clock is past lease_expires_at. The   *)
(* reservation and the publication ask that clock, the other checks ask    *)
(* the clock of the worker process and may still pass. The retention time  *)
(* of the cleaner is left out: it may take an attempt as soon as no live   *)
(* lease protects its job, which is more than the code allows.             *)
(***************************************************************************)
EXTENDS Integers, FiniteSets, FiniteSetsExt

CONSTANTS Edits,           \* jobs that add a revision to an existing artifact (edit, rollback)
          Creations,       \* jobs that create an artifact (generate, copy)
          Base,            \* the artifact all edits go to; its revision 1 exists
          RenderWorkers,   \* render worker processes
          NumFormats,      \* candidate objects of one attempt (4 in the code)
          MaxFence,        \* bound: claims of one job
          MaxDisruptions,  \* bound: crashes, stalls and failed deletes of one run
          None             \* SQL NULL

Jobs == Edits \cup Creations

ASSUME FormatsAssumption == NumFormats \in Nat \ {0}
ASSUME RenderBounds == MaxFence \in Nat /\ MaxDisruptions \in Nat
ASSUME EditsAssumption == IsFiniteSet(Edits)
ASSUME JobKinds == Edits \cap Creations = {} /\ Base \notin Jobs /\ None \notin RenderWorkers

VARIABLES
    (* generation_jobs *)
    status, owner, fence, expired,
    reserved,     \* candidate_revision_number, 0 when NULL (candidate ids are set with it)
    manifest,     \* candidate_output_manifest: the attempt it describes, 0 when NULL
    (* the other tables *)
    ledger,       \* render_candidate_attempts.status by job and attempt
    revisions,    \* chart_revisions: [job, artifact, number, attempt]
    nextNumber,   \* chart_artifacts.next_revision_number
    head,         \* number of chart_artifacts.head_revision_id, 0 when NULL
    commit,       \* session whose publishing transaction holds the job row, None if there is none
    (* the object store *)
    objects,      \* keys that can be read
    inflight,     \* PUT requests sent and not yet applied
    (* a worker process *)
    pc, job, held,
    number,       \* the revision number it was given
    pos,          \* the format it writes or deletes next
    disruptions

row    == <<status, owner, fence, expired>>
tables == <<reserved, manifest, ledger, revisions, nextNumber, head>>
store  == <<objects, inflight>>
worker == <<pc, job, held, number, pos>>
vars   == <<row, tables, commit, store, worker, disruptions>>

-----------------------------------------------------------------------------
Fences  == 1 .. MaxFence
Formats == 1 .. NumFormats
RenderRunning == {"rendering", "validating"}
LedgerStatus == {"none", "writing", "validated", "published", "deleting", "deleted"}

Artifacts == {Base} \cup Creations
ArtifactOf == [j \in Jobs |-> IF j \in Edits THEN Base ELSE j]

\* Each attempt has its private keys. A worker makes one attempt per claim, so
\* the fencing token of the claim names the attempt.
Key(j, attempt, format) == <<j, attempt, format>>
KeysOf(j, attempt) == {Key(j, attempt, format) : format \in Formats}

Init == /\ status = [j \in Jobs |-> "rendering"]
        /\ owner = [j \in Jobs |-> None]
        /\ fence = [j \in Jobs |-> 0]
        /\ expired = [j \in Jobs |-> FALSE]
        /\ reserved = [j \in Jobs |-> 0]
        /\ manifest = [j \in Jobs |-> 0]
        /\ ledger = [j \in Jobs |-> [f \in Fences |-> "none"]]
        /\ revisions = {}
        /\ nextNumber = [a \in Artifacts |-> IF a = Base THEN 2 ELSE 1]
        /\ head = [a \in Artifacts |-> IF a = Base THEN 1 ELSE 0]
        /\ commit = [j \in Jobs |-> None]
        /\ objects = {} /\ inflight = {}
        /\ pc = [w \in RenderWorkers |-> "idle"]
        /\ job = [w \in RenderWorkers |-> None]
        /\ held = [w \in RenderWorkers |-> 0]
        /\ number = [w \in RenderWorkers |-> 0]
        /\ pos = [w \in RenderWorkers |-> 0]
        /\ disruptions = 0

-----------------------------------------------------------------------------
(* Conditions and writes the handlers share. A definition whose comment    *)
(* begins with "Mutant" is not part of the specification: it is a          *)
(* plausible bug in the definition after it, kept to show that the         *)
(* properties notice.                                                      *)

\* The lease columns match the worker's lease (whatever the clocks say).
OwnsLease(w) == owner[job[w]] = w /\ fence[job[w]] = held[w]

\* ownsLiveLease and assertPublicationLease also look at the status.
OwnsRunningLease(w) == OwnsLease(w) /\ status[job[w]] \in RenderRunning

\* No undecided publishing transaction holds the row: UPDATE and FOR UPDATE wait.
Unlocked(j) == commit[j] = None

\* An undecided publication of an edit also holds the row of its artifact.
ArtifactUnlocked(a) == \A j \in Edits : ArtifactOf[j] = a => Unlocked(j)

\* The ledger row of the worker's attempt is still in the state it left it in.
\* Mutant: nobody looks.
AttemptUnchecked(w, state) == TRUE

AttemptIs(w, state) == ledger[job[w]][held[w]] = state

\* Mutant: the first PUT precedes the ledger row.
MarkAttemptLate(j, attempt, state) ==
    ledger' = IF state = "writing" THEN ledger ELSE [ledger EXCEPT ![j][attempt] = state]

MarkAttempt(j, attempt, state) == ledger' = [ledger EXCEPT ![j][attempt] = state]

Referenced(j, attempt) == \E r \in revisions : r.job = j /\ r.attempt = attempt

At(w, stage) == pc[w] = stage

Goto(w, stage) == pc' = [pc EXCEPT ![w] = stage]

Return(w) == /\ pc' = [pc EXCEPT ![w] = "idle"]
             /\ job' = [job EXCEPT ![w] = None]
             /\ held' = [held EXCEPT ![w] = 0]
             /\ number' = [number EXCEPT ![w] = 0]
             /\ pos' = [pos EXCEPT ![w] = 0]

Renew(j) == expired' = [expired EXCEPT ![j] = FALSE]

-----------------------------------------------------------------------------
(* The lease around the render phase *)

Claim(w, j) ==
    /\ At(w, "idle")
    /\ status[j] = "rendering"
    /\ owner[j] = None \/ expired[j]
    /\ Unlocked(j)
    /\ fence[j] < MaxFence
    /\ owner' = [owner EXCEPT ![j] = w]
    /\ fence' = [fence EXCEPT ![j] = fence[j] + 1]
    /\ Renew(j)
    /\ Goto(w, "claimed")
    /\ job' = [job EXCEPT ![w] = j]
    /\ held' = [held EXCEPT ![w] = fence[j] + 1]
    /\ UNCHANGED <<status, tables, commit, store, number, pos, disruptions>>

\* The heartbeat timer of the holder runs beside its handler. It goes by the
\* worker's clock, so it may revive a lease PostgreSQL holds to be expired.
Heartbeat(w) ==
    /\ pc[w] \notin {"idle", "cleaning"}
    /\ OwnsLease(w) /\ Unlocked(job[w])
    /\ expired[job[w]]
    /\ Renew(job[w])
    /\ UNCHANGED <<status, owner, fence, tables, commit, store, worker, disruptions>>

\* recoverExpiredGenerationJobLeases, for a row in the render phase.
Recover(j) ==
    /\ status[j] \in RenderRunning
    /\ owner[j] # None
    /\ expired[j]
    /\ Unlocked(j)
    /\ status' = [status EXCEPT ![j] = "rendering"]
    /\ owner' = [owner EXCEPT ![j] = None]
    /\ Renew(j)
    /\ UNCHANGED <<fence, tables, commit, store, worker, disruptions>>

\* A retry requeues the job, and a generation worker hands it over again: none
\* of its steps touches the reserved identity.
Requeue(j) ==
    /\ status[j] = "failed"
    /\ fence[j] < MaxFence
    /\ status' = [status EXCEPT ![j] = "rendering"]
    /\ UNCHANGED <<owner, fence, expired, tables, commit, store, worker, disruptions>>

-----------------------------------------------------------------------------
(* processRenderJobLocked, statement by statement *)

ClearManifest(w) ==
    /\ At(w, "claimed")
    /\ \A r \in revisions : r.job # job[w]
    /\ OwnsLease(w) /\ Unlocked(job[w])
    /\ manifest' = [manifest EXCEPT ![job[w]] = 0]
    /\ Goto(w, "cleared")
    /\ UNCHANGED <<row, reserved, ledger, revisions, nextNumber, head, commit, store,
                   job, held, number, pos, disruptions>>

BeginValidating(w) ==
    /\ At(w, "cleared")
    /\ OwnsLease(w) /\ Unlocked(job[w])
    /\ status' = [status EXCEPT ![job[w]] = "validating"]
    /\ Renew(job[w])
    /\ Goto(w, "validating")
    /\ UNCHANGED <<owner, fence, tables, commit, store, job, held, number, pos, disruptions>>

\* The artifact's counter, or a number above its latest revision.
FreshNumber(a) ==
    Max({nextNumber[a]} \cup {r.number + 1 : r \in {q \in revisions : q.artifact = a}})

\* A new artifact starts at revision 1.
NewIdentity(j) == IF j \in Edits THEN FreshNumber(Base) ELSE 1

\* An identity a previous attempt of the job reserved is used again.
Given(j) == IF reserved[j] # 0 THEN reserved[j] ELSE NewIdentity(j)

\* reserveGenerationRevisionIdentity, under the row locks of job and artifact.
Reserve(w) ==
    LET j == job[w]
        a == ArtifactOf[j]
        given == Given(j)
    IN  /\ At(w, "validating")
        /\ OwnsRunningLease(w) /\ ~expired[j]
        /\ Unlocked(j)
        /\ j \in Edits => ArtifactUnlocked(a)
        /\ reserved' = [reserved EXCEPT ![j] = given]
        /\ nextNumber' = IF reserved[j] = 0 /\ j \in Edits
                         THEN [nextNumber EXCEPT ![a] = given + 1] ELSE nextNumber
        /\ number' = [number EXCEPT ![w] = given]
        /\ Goto(w, "reserved")
        /\ UNCHANGED <<row, manifest, ledger, revisions, head, commit, store, job, held,
                       pos, disruptions>>

\* recordCandidateAttempt: the ledger row precedes the first PUT.
RecordAttempt(w) ==
    /\ At(w, "reserved")
    /\ OwnsRunningLease(w) /\ Unlocked(job[w])
    /\ reserved[job[w]] = number[w]
    /\ MarkAttempt(job[w], held[w], "writing")
    /\ pos' = [pos EXCEPT ![w] = 1]
    /\ Goto(w, "writing")
    /\ UNCHANGED <<row, reserved, manifest, revisions, nextNumber, head, commit, store,
                   job, held, number, disruptions>>

\* The lease is asserted (and renewed) before each PUT ...
StartPut(w) ==
    /\ At(w, "writing") /\ pos[w] <= NumFormats
    /\ OwnsLease(w) /\ Unlocked(job[w])
    /\ Renew(job[w])
    /\ inflight' = inflight \cup {Key(job[w], held[w], pos[w])}
    /\ Goto(w, "putting")
    /\ UNCHANGED <<status, owner, fence, tables, commit, objects, job, held, number, pos,
                   disruptions>>

\* ... and again when the answer arrives.
PutStored(w) ==
    /\ At(w, "putting")
    /\ Key(job[w], held[w], pos[w]) \notin inflight
    /\ OwnsLease(w) /\ Unlocked(job[w])
    /\ Renew(job[w])
    /\ pos' = [pos EXCEPT ![w] = pos[w] + 1]
    /\ Goto(w, "writing")
    /\ UNCHANGED <<status, owner, fence, tables, commit, store, job, held, number, disruptions>>

\* Without the lease the worker deletes what it just wrote; the delete may fail.
PutFenced(w) ==
    /\ At(w, "putting")
    /\ Key(job[w], held[w], pos[w]) \notin inflight
    /\ ~OwnsLease(w) \/ expired[job[w]]
    /\ objects' \in {objects, objects \ {Key(job[w], held[w], pos[w])}}
    /\ Goto(w, "error")
    /\ UNCHANGED <<row, tables, commit, inflight, job, held, number, pos, disruptions>>

\* All candidates can be read back.
ReadBack(w) ==
    /\ At(w, "writing") /\ pos[w] > NumFormats
    /\ KeysOf(job[w], held[w]) \subseteq objects
    /\ Goto(w, "readback")
    /\ UNCHANGED <<row, tables, commit, store, job, held, number, pos, disruptions>>

\* A missing or different candidate ends the attempt with an error.
ReadBackMismatch(w) ==
    /\ At(w, "writing") /\ pos[w] > NumFormats
    /\ ~(KeysOf(job[w], held[w]) \subseteq objects)
    /\ Goto(w, "error")
    /\ UNCHANGED <<row, tables, commit, store, job, held, number, pos, disruptions>>

\* validateCandidateAttempt: ledger row and manifest in one transaction.
ValidateAttempt(w) ==
    /\ At(w, "readback")
    /\ OwnsRunningLease(w) /\ Unlocked(job[w])
    /\ AttemptIs(w, "writing")
    /\ MarkAttempt(job[w], held[w], "validated")
    /\ manifest' = [manifest EXCEPT ![job[w]] = held[w]]
    /\ Goto(w, "validated")
    /\ UNCHANGED <<row, reserved, revisions, nextNumber, head, commit, store, job, held,
                   number, pos, disruptions>>

\* What commitCompletedRevision checks under the row locks.
Publishable(w) ==
    LET j == job[w]
    IN  /\ OwnsRunningLease(w) /\ ~expired[j]
        /\ reserved[j] = number[w]
        /\ manifest[j] = held[w]
        /\ AttemptIs(w, "validated")
        /\ IF j \in Edits THEN number[w] < nextNumber[Base] ELSE number[w] = 1

\* The transaction has made its checks and writes and sends COMMIT; until the
\* server decides it holds the rows of the job, the attempt and the artifact.
SendCommit(w) ==
    /\ At(w, "validated")
    /\ Unlocked(job[w])
    /\ job[w] \in Edits => ArtifactUnlocked(Base)
    /\ Publishable(w)
    /\ commit' = [commit EXCEPT ![job[w]] = w]
    /\ Goto(w, "committing")
    /\ UNCHANGED <<row, tables, store, job, held, number, pos, disruptions>>

\* The head moves to the new revision unless it already is at a later one.
\* Mutant: the comparison is turned around.
HeadStaysBehind(a, n) == IF head[a] = 0 \/ n < head[a] THEN n ELSE head[a]

HeadAfter(a, n) == IF head[a] = 0 \/ n > head[a] THEN n ELSE head[a]

\* COMMIT takes effect: revision, head, attempt and job change together. The
\* session works for a worker that may be dead by now; what it wrote was frozen
\* in the job row: its manifest names the attempt.
CommitTakesEffect(j) ==
    LET a == ArtifactOf[j]
        n == reserved[j]
    IN  /\ commit[j] # None
        /\ commit' = [commit EXCEPT ![j] = None]
        /\ revisions' = revisions \cup
              {[job |-> j, artifact |-> a, number |-> n, attempt |-> manifest[j]]}
        /\ head' = [head EXCEPT ![a] = HeadAfter(a, n)]
        /\ nextNumber' = IF j \in Creations THEN [nextNumber EXCEPT ![a] = 2] ELSE nextNumber
        /\ MarkAttempt(j, manifest[j], "published")
        /\ status' = [status EXCEPT ![j] = "succeeded"]
        /\ owner' = [owner EXCEPT ![j] = None]
        /\ Renew(j)
        /\ UNCHANGED <<fence, reserved, manifest, store, worker, disruptions>>

\* The session breaks before the server decided: the transaction is rolled back.
CommitRollsBack(j) ==
    /\ commit[j] # None
    /\ commit' = [commit EXCEPT ![j] = None]
    /\ UNCHANGED <<row, tables, store, worker, disruptions>>

\* The answer arrives.
CommitAnswered(w) ==
    /\ At(w, "committing")
    /\ commit[job[w]] # w
    /\ Referenced(job[w], held[w])
    /\ Return(w)
    /\ UNCHANGED <<row, tables, commit, store, disruptions>>

\* No answer: the worker cannot tell whether the server decided, or how.
CommitUnanswered(w) ==
    /\ At(w, "committing")
    /\ Goto(w, "error")
    /\ UNCHANGED <<row, tables, commit, store, job, held, number, pos, disruptions>>

-----------------------------------------------------------------------------
(* Errors *)

\* A validation fails, a library throws, a PUT is not answered in time, or a
\* statement conditional on the lease or on the ledger matches no row: one
\* catch block handles them all.
AttemptFails(w) ==
    /\ pc[w] \in {"claimed", "cleared", "validating", "reserved", "writing", "putting",
                  "readback", "validated"}
    /\ Goto(w, "error")
    /\ UNCHANGED <<row, tables, commit, store, job, held, number, pos, disruptions>>

\* Before it records a failure the worker asks whether the job has succeeded
\* (a plain SELECT: it does not wait for an undecided transaction).
FindSucceeded(w) ==
    /\ At(w, "error")
    /\ status[job[w]] = "succeeded"
    /\ Return(w)
    /\ UNCHANGED <<row, tables, commit, store, disruptions>>

FindUnfinished(w) ==
    /\ At(w, "error")
    /\ status[job[w]] # "succeeded"
    /\ Goto(w, "failing")
    /\ UNCHANGED <<row, tables, commit, store, job, held, number, pos, disruptions>>

\* Mutant: the failure is recorded whatever became of the lease.
FailRenderUnchecked(w) ==
    /\ At(w, "failing")
    /\ Unlocked(job[w])
    /\ status' = [status EXCEPT ![job[w]] = "failed"]
    /\ owner' = [owner EXCEPT ![job[w]] = None]
    /\ Renew(job[w])
    /\ Return(w)
    /\ UNCHANGED <<fence, tables, commit, store, disruptions>>

\* failRenderJob: conditional on the lease.
FailRender(w) ==
    /\ At(w, "failing")
    /\ OwnsLease(w) /\ Unlocked(job[w])
    /\ status' = [status EXCEPT ![job[w]] = "failed"]
    /\ owner' = [owner EXCEPT ![job[w]] = None]
    /\ Renew(job[w])
    /\ Return(w)
    /\ UNCHANGED <<fence, tables, commit, store, disruptions>>

\* The failure cannot be recorded either: the lease is gone.
FailRefused(w) ==
    /\ At(w, "failing")
    /\ Unlocked(job[w])
    /\ ~OwnsLease(w) \/ expired[job[w]]
    /\ Return(w)
    /\ UNCHANGED <<row, tables, commit, store, disruptions>>

-----------------------------------------------------------------------------
(* reconcileOrphanRenderCandidates, run by an idle worker *)

\* Mutant: a candidate is deleted once; a PUT that lands later stays.
CleanableOnce == {"writing", "validated", "deleting"}

\* Deleted candidates are revisited: a late PUT may have brought an object back.
Cleanable == {"writing", "validated", "deleting", "deleted"}

\* One transaction under the job row and attempt row locks.
MarkOrphan(w, j, f) ==
    /\ At(w, "idle")
    /\ ledger[j][f] \in Cleanable
    /\ Unlocked(j)
    /\ owner[j] = None \/ expired[j]
    /\ IF Referenced(j, f)
       THEN /\ MarkAttempt(j, f, "published")
            /\ UNCHANGED worker
       ELSE /\ MarkAttempt(j, f, "deleting")
            /\ Goto(w, "cleaning")
            /\ job' = [job EXCEPT ![w] = j]
            /\ held' = [held EXCEPT ![w] = f]
            /\ pos' = [pos EXCEPT ![w] = 1]
            /\ UNCHANGED number
    /\ UNCHANGED <<row, reserved, manifest, revisions, nextNumber, head, commit, store,
                   disruptions>>

\* The keys are deleted one after the other, outside any transaction.
DeleteCandidate(w) ==
    /\ At(w, "cleaning") /\ pos[w] <= NumFormats
    /\ objects' = objects \ {Key(job[w], held[w], pos[w])}
    /\ pos' = [pos EXCEPT ![w] = pos[w] + 1]
    /\ UNCHANGED <<row, tables, commit, inflight, pc, job, held, number, disruptions>>

MarkDeleted(w) ==
    /\ At(w, "cleaning") /\ pos[w] > NumFormats
    /\ ledger' = [ledger EXCEPT ![job[w]][held[w]] = IF @ = "deleting" THEN "deleted" ELSE @]
    /\ Return(w)
    /\ UNCHANGED <<row, reserved, manifest, revisions, nextNumber, head, commit, store,
                   disruptions>>

-----------------------------------------------------------------------------
(* The object store, time and faults *)

\* A PUT is applied; the worker that sent it may be gone.
PutLands(key) ==
    /\ key \in inflight
    /\ inflight' = inflight \ {key}
    /\ objects' = objects \cup {key}
    /\ UNCHANGED <<row, tables, commit, worker, disruptions>>

\* A PUT whose sender stopped waiting is dropped.
PutDropped(key) ==
    /\ key \in inflight
    /\ \A w \in RenderWorkers : At(w, "putting") => Key(job[w], held[w], pos[w]) # key
    /\ inflight' = inflight \ {key}
    /\ UNCHANGED <<row, tables, commit, objects, worker, disruptions>>

ExpireOrphan(j) ==
    /\ owner[j] # None /\ ~expired[j]
    /\ \A w \in RenderWorkers : job[w] = j /\ ~At(w, "cleaning") => ~OwnsLease(w)
    /\ expired' = [expired EXCEPT ![j] = TRUE]
    /\ UNCHANGED <<status, owner, fence, tables, commit, store, worker, disruptions>>

Disrupt == disruptions < MaxDisruptions /\ disruptions' = disruptions + 1

\* A running holder is paused or cut off for longer than its lease lasts.
Stall(j) ==
    /\ Disrupt
    /\ owner[j] # None /\ ~expired[j]
    /\ expired' = [expired EXCEPT ![j] = TRUE]
    /\ UNCHANGED <<status, owner, fence, tables, commit, store, worker>>

\* The process dies and is restarted, or a DELETE of the cleaner fails.
Crash(w) ==
    /\ Disrupt
    /\ ~At(w, "idle")
    /\ Return(w)
    /\ UNCHANGED <<row, tables, commit, store>>

-----------------------------------------------------------------------------
\* A render attempt, from the claim to its end.
Attempt(w) == \/ ClearManifest(w) \/ BeginValidating(w) \/ Reserve(w) \/ RecordAttempt(w)
              \/ StartPut(w) \/ PutStored(w) \/ PutFenced(w)
              \/ ReadBack(w) \/ ReadBackMismatch(w) \/ ValidateAttempt(w)
              \/ SendCommit(w) \/ CommitAnswered(w) \/ CommitUnanswered(w)
              \/ AttemptFails(w) \/ FindSucceeded(w) \/ FindUnfinished(w)
              \/ FailRender(w) \/ FailRefused(w)

Clean(w) == DeleteCandidate(w) \/ MarkDeleted(w)

Decide(j) == CommitTakesEffect(j) \/ CommitRollsBack(j)

Keys == {Key(j, f, k) : j \in Jobs, f \in Fences, k \in Formats}

Next == \/ \E w \in RenderWorkers : Attempt(w) \/ Heartbeat(w) \/ Clean(w) \/ Crash(w)
        \/ \E w \in RenderWorkers, j \in Jobs : Claim(w, j)
        \/ \E w \in RenderWorkers, j \in Jobs, f \in Fences : MarkOrphan(w, j, f)
        \/ \E j \in Jobs : Recover(j) \/ Requeue(j) \/ Decide(j) \/ ExpireOrphan(j) \/ Stall(j)
        \/ \E key \in Keys : PutLands(key) \/ PutDropped(key)

Spec == Init /\ [][Next]_vars

\* Every await ends, the server decides every transaction, the poll loop keeps
\* running both the recovery sweep and the cleaner, which takes candidates in
\* the order of updated_at and so comes round to each of them.
Fairness == /\ \A w \in RenderWorkers : WF_vars(Attempt(w)) /\ WF_vars(Clean(w))
            /\ \A j \in Jobs : WF_vars(Decide(j)) /\ WF_vars(ExpireOrphan(j)) /\ WF_vars(Recover(j))
            /\ \A key \in Keys : WF_vars(PutLands(key) \/ PutDropped(key))
            /\ \A j \in Jobs, f \in Fences : SF_vars(\E w \in RenderWorkers : MarkOrphan(w, j, f))

FairSpec == Spec /\ Fairness

-----------------------------------------------------------------------------
(* Properties *)

Stage == {"idle", "claimed", "cleared", "validating", "reserved", "writing", "putting",
          "readback", "validated", "committing", "error", "failing", "cleaning"}

\* Types of the columns, of the object store and of a worker's local variables.
TypeOK == /\ status \in [Jobs -> RenderRunning \cup {"succeeded", "failed"}]
          /\ owner \in [Jobs -> RenderWorkers \cup {None}]
          /\ fence \in [Jobs -> 0 .. MaxFence]
          /\ expired \in [Jobs -> BOOLEAN]
          /\ reserved \in [Jobs -> Nat]
          /\ manifest \in [Jobs -> 0 .. MaxFence]
          /\ ledger \in [Jobs -> [Fences -> LedgerStatus]]
          /\ \A r \in revisions : r.job \in Jobs /\ r.artifact \in Artifacts
                                  /\ r.number \in Nat /\ r.attempt \in Fences
          /\ nextNumber \in [Artifacts -> Nat]
          /\ head \in [Artifacts -> Nat]
          /\ commit \in [Jobs -> RenderWorkers \cup {None}]
          /\ objects \subseteq Keys /\ inflight \subseteq Keys
          /\ pc \in [RenderWorkers -> Stage]
          /\ job \in [RenderWorkers -> Jobs \cup {None}]
          /\ held \in [RenderWorkers -> 0 .. MaxFence]
          /\ number \in [RenderWorkers -> Nat]
          /\ pos \in [RenderWorkers -> 0 .. NumFormats + 1]
          /\ disruptions \in 0 .. MaxDisruptions

\* No output object of a published revision is ever missing: neither a cleaner
\* that read the ledger before the publication, nor a fenced worker that deletes
\* its own write, nor a second cleaner removes one.
PublishedOutputsReadable ==
    \A r \in revisions : KeysOf(r.job, r.attempt) \subseteq objects

\* Every object, and every PUT still under way, belongs to an attempt the ledger
\* knows: whatever a dead worker leaves behind can be found by the cleaner.
LedgerCoversStore ==
    \A key \in objects \cup inflight : ledger[key[1]][key[2]] # "none"

\* A job has succeeded exactly when it has a revision, and it has one at most,
\* under the number it reserved: also when the COMMIT answer was lost and the
\* worker went on to record a failure.
SucceededIffPublished ==
    \A j \in Jobs :
        LET own == {r \in revisions : r.job = j}
        IN  IF status[j] = "succeeded"
            THEN Cardinality(own) = 1 /\ \A r \in own : r.number = reserved[j]
            ELSE own = {}

\* Publication refines the catalog: one revision at a time, complete, with the
\* head moving to a higher number only, and numbers not wasted by retries (an
\* artifact with n edits needs no number above n + 1).
Catalog == INSTANCE RevisionCatalog WITH
    Numbers  <- 1 .. Cardinality(Edits) + 1,
    catalog  <- {[job |-> r.job, artifact |-> r.artifact, number |-> r.number] : r \in revisions},
    readable <- {j \in Jobs : \E r \in revisions :
                                 r.job = j /\ KeysOf(j, r.attempt) \subseteq objects}
CatalogSpec == Catalog!Spec

\* An object no revision refers to does not stay for ever once its job has
\* stopped: crashes, lost answers and late PUTs leave no permanent garbage.
OrphansAreRemoved ==
    \A key \in Keys :
        key \in objects /\ ~Referenced(key[1], key[2])
           ~> key \notin objects \/ Referenced(key[1], key[2])
=============================================================================
