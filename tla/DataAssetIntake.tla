---------------------------- MODULE DataAssetIntake ----------------------------
(***************************************************************************)
(* From an uploaded table to a snapshot of a data asset.                   *)
(*                                                                         *)
(* A snapshot is a row that names two objects in the store, its source and *)
(* its normalized form.  Rows and objects cannot be written together: the  *)
(* objects come first and are removed again if the row does not follow.    *)
(* A request or a COMMIT whose answer is lost may still take effect after  *)
(* that.                                                                   *)
(* The API parses local files within the request.  Tables that go through  *)
(* an external service become jobs that a worker runs against a deadline.  *)
(***************************************************************************)
EXTENDS Integers, Sequences, SequencesExt

CONSTANTS
    Uploads,    \* uploads; the asset and the snapshot one creates have its name
    Earlier,    \* those that were local and published before
    UploadApis, \* API processes: each takes one local upload at a time
    NoApi, NoAsset

ASSUME DataAssetIntakeAssumption ==
    /\ Earlier \subseteq Uploads
    /\ NoApi \notin UploadApis
    /\ NoAsset \notin Uploads

VARIABLES
    assetStatus,    \* data_assets.status
    snapshots,      \* data_snapshots of each asset, in order of version
    objects,        \* what is in the object store: <<upload, kind>>
    inflight,       \* requests to it without an answer: <<operation, upload, kind>>
    undecided,      \* uploads with a COMMIT without an answer that is not decided
    uploadStage,    \* where the request of each upload is
    workerStage,    \* and where the worker of its job is
    uploadRoute,    \* local or table
    assetOf,        \* the asset it updates
    runsOn,         \* the API whose reservation it holds
    written,        \* objects its process may have written
    auditedOrphans, \* objects recorded in the audit as not deleted
    silentOrphans,  \* objects whose deletion failed and whose record failed too
    lateOrphans,    \* objects whose PUT was applied after their clean-up
    overtaken,      \* uploads whose worker looked for a snapshot not decided yet
    intakeJob,      \* data_intake_jobs.status; needs_clarification is a failure too
    pastDeadline    \* jobs whose deadline has passed

uploadVars == <<uploadStage, workerStage, uploadRoute, assetOf, runsOn, written>>
storeVars == <<objects, inflight>>
orphanVars == <<auditedOrphans, silentOrphans, lateOrphans>>
commitVars == <<undecided, overtaken>>
dataAssetVars == <<assetStatus, snapshots, storeVars, uploadVars, orphanVars, commitVars,
                   intakeJob, pastDeadline>>

Kinds == {"source", "normalized"}
LocalStages == {"parse", "putSource", "putNormalized", "persist", "cleanNormalized",
                "cleanSource", "markFailed"}
TableStages == {"putTable", "enqueue", "compensate"}
WorkerStages == {"readSource", "import", "putResult", "commit", "failJob", "finally",
                 "removeResult"}
Outside == {"idle", "over"}

DataAssetTypeOK ==
    /\ assetStatus \in [Uploads -> {"none", "processing", "ready", "failed"}]
    /\ snapshots \in [Uploads -> Seq(Uploads)]
    /\ objects \subseteq Uploads \X Kinds
    /\ inflight \subseteq {"put", "delete"} \X Uploads \X Kinds
    /\ undecided \subseteq Uploads
    /\ uploadStage \in [Uploads -> Outside \cup LocalStages \cup TableStages]
    /\ workerStage \in [Uploads -> Outside \cup WorkerStages]
    /\ uploadRoute \in [Uploads -> {"none", "local", "table"}]
    /\ assetOf \in [Uploads -> Uploads \cup {NoAsset}]
    /\ runsOn \in [Uploads -> UploadApis \cup {NoApi}]
    /\ written \in [Uploads -> SUBSET Kinds]
    /\ auditedOrphans \subseteq Uploads \X Kinds
    /\ silentOrphans \subseteq Uploads \X Kinds
    /\ lateOrphans \subseteq Uploads \X Kinds
    /\ overtaken \subseteq Uploads
    /\ intakeJob \in [Uploads -> {"none", "queued", "running", "succeeded", "failed"}]
    /\ pastDeadline \subseteq Uploads

DataAssetInit ==
    /\ assetStatus = [u \in Uploads |-> IF u \in Earlier THEN "ready" ELSE "none"]
    /\ snapshots = [u \in Uploads |-> IF u \in Earlier THEN <<u>> ELSE <<>>]
    /\ objects = Earlier \X Kinds
    /\ inflight = {}
    /\ undecided = {}
    /\ uploadStage = [u \in Uploads |-> IF u \in Earlier THEN "over" ELSE "idle"]
    /\ workerStage = [u \in Uploads |-> "idle"]
    /\ uploadRoute = [u \in Uploads |-> IF u \in Earlier THEN "local" ELSE "none"]
    /\ assetOf = [u \in Uploads |-> IF u \in Earlier THEN u ELSE NoAsset]
    /\ runsOn = [u \in Uploads |-> NoApi]
    /\ written = [u \in Uploads |-> {}]
    /\ auditedOrphans = {}
    /\ silentOrphans = {}
    /\ lateOrphans = {}
    /\ overtaken = {}
    /\ intakeJob = [u \in Uploads |-> "none"]
    /\ pastDeadline = {}

IsNew(u) == assetOf[u] = u
Published(u) == Contains(snapshots[assetOf[u]], u)

GoOn(u, s) == uploadStage' = [uploadStage EXCEPT ![u] = s] /\ UNCHANGED workerStage
WorkOn(u, s) == workerStage' = [workerStage EXCEPT ![u] = s] /\ UNCHANGED uploadStage
RowsUnchanged == UNCHANGED <<assetStatus, snapshots, intakeJob, pastDeadline, commitVars>>
Identity == <<uploadRoute, assetOf, runsOn>>

\* The end of a request; its reservation is released.
EndUpload(u) ==
    /\ GoOn(u, "over")
    /\ runsOn' = [runsOn EXCEPT ![u] = NoApi]
    /\ written' = [written EXCEPT ![u] = {}]
    /\ UNCHANGED <<uploadRoute, assetOf>>

\* A new asset, or one that was ready when the request looked.
Targets(u) == {u} \cup {a \in Uploads : assetStatus[a] = "ready"}

-----------------------------------------------------------------------------
(* The object store and the database. *)

\* A request that is answered has been applied. One that is not may be applied at any time
\* after, or never, as if it had not been sent: then it stays in flight.
Performed(op, u, kind) ==
    objects' = IF op = "put" THEN objects \cup {<<u, kind>>} ELSE objects \ {<<u, kind>>}
Acknowledged(op, u, kind) == Performed(op, u, kind) /\ UNCHANGED inflight
Unanswered(op, u, kind) ==
    inflight' = inflight \cup {<<op, u, kind>>} /\ UNCHANGED objects

Put(u, kind, success, failure) ==
    \/ Acknowledged("put", u, kind) /\ GoOn(u, success)
    \/ Unanswered("put", u, kind) /\ GoOn(u, failure)

\* Where cleanupWrittenObjects has gone past an object of a local upload.
CleanedUp(u, kind) ==
    /\ uploadRoute[u] = "local"
    /\ \/ uploadStage[u] \in {"markFailed", "over"}
       \/ uploadStage[u] = "cleanSource" /\ kind = "normalized"

RequestLands(op, u, kind) ==
    /\ <<op, u, kind>> \in inflight
    /\ inflight' = inflight \ {<<op, u, kind>>}
    /\ Performed(op, u, kind)
    /\ lateOrphans' = IF op = "put" /\ CleanedUp(u, kind)
                      THEN lateOrphans \cup {<<u, kind>>} ELSE lateOrphans
    /\ UNCHANGED <<uploadVars, auditedOrphans, silentOrphans>>
    /\ RowsUnchanged

\* persistSnapshotAndReady, and the same transaction of the worker: the asset is locked.
Persistable(u) == assetStatus[assetOf[u]] \in {"processing", "ready"}
PersistSnapshot(u) ==
    /\ snapshots' = [snapshots EXCEPT ![assetOf[u]] = Append(@, u)]
    /\ assetStatus' = [assetStatus EXCEPT ![assetOf[u]] = "ready"]

\* The job, and the asset if the upload creates one.
EnqueueJob(u) ==
    /\ intakeJob' = [intakeJob EXCEPT ![u] = "queued"]
    /\ assetStatus' = IF IsNew(u) THEN [assetStatus EXCEPT ![u] = "processing"] ELSE assetStatus

\* A transaction keeps its locks until its COMMIT is decided: a publication that of its asset
\* (and of its job, if it has one), an enqueueing one shares the asset its job refers to.
Enqueueing(u) == uploadRoute[u] = "table" /\ intakeJob[u] = "none"
NobodyHolds(a) == \A v \in undecided : assetOf[v] # a
NobodyPublishes(a) == \A v \in undecided : assetOf[v] = a => Enqueueing(v)

\* Its answer is lost, and the server decides later.
LosesAnswer(u) == undecided' = undecided \cup {u} /\ UNCHANGED overtaken

CommitTakesEffect(u) ==
    /\ u \in undecided
    /\ undecided' = undecided \ {u}
    /\ IF Enqueueing(u) THEN EnqueueJob(u) /\ UNCHANGED snapshots
       ELSE /\ PersistSnapshot(u)
            /\ intakeJob' = IF uploadRoute[u] = "table"
                            THEN [intakeJob EXCEPT ![u] = "succeeded"] ELSE intakeJob
    /\ UNCHANGED <<storeVars, uploadVars, orphanVars, overtaken, pastDeadline>>

CommitRollsBack(u) ==
    /\ u \in undecided
    /\ undecided' = undecided \ {u}
    /\ UNCHANGED <<assetStatus, snapshots, storeVars, uploadVars, orphanVars, overtaken,
                   intakeJob, pastDeadline>>

-----------------------------------------------------------------------------
(* createDataAssetIntake().ingest: local files, within the request. *)

\* reserveLocalIntake, and insertProcessingAsset for a new asset.
AdmitLocal(u) ==
    /\ uploadStage[u] = "idle"
    /\ \E api \in UploadApis :
          /\ \A v \in Uploads : runsOn[v] # api
          /\ runsOn' = [runsOn EXCEPT ![u] = api]
    /\ \E a \in Targets(u) :
          /\ assetOf' = [assetOf EXCEPT ![u] = a]
          /\ assetStatus' = IF a = u THEN [assetStatus EXCEPT ![u] = "processing"] ELSE assetStatus
    /\ uploadRoute' = [uploadRoute EXCEPT ![u] = "local"]
    /\ GoOn(u, "parse")
    /\ UNCHANGED <<snapshots, storeVars, written, orphanVars, commitVars, intakeJob, pastDeadline>>

ParseLocal(u) ==
    /\ uploadStage[u] = "parse"
    /\ GoOn(u, "putSource") \/ GoOn(u, "cleanNormalized")
    /\ UNCHANGED <<storeVars, Identity, written, orphanVars>>
    /\ RowsUnchanged

\* The object counts as written before its PUT is tried.
PutSource(u) ==
    /\ uploadStage[u] = "putSource"
    /\ written' = [written EXCEPT ![u] = @ \cup {"source"}]
    /\ Put(u, "source", "putNormalized", "cleanNormalized")
    /\ UNCHANGED <<Identity, orphanVars>>
    /\ RowsUnchanged

PutNormalized(u) ==
    /\ uploadStage[u] = "putNormalized"
    /\ written' = [written EXCEPT ![u] = @ \cup {"normalized"}]
    /\ Put(u, "normalized", "persist", "cleanNormalized")
    /\ UNCHANGED <<Identity, orphanVars>>
    /\ RowsUnchanged

\* The publication, unless the request is aborted before. Once it was tried, an error
\* proves nothing: objects and asset stay.
PersistLocal(u) ==
    /\ uploadStage[u] = "persist"
    /\ \/ /\ Persistable(u) /\ NobodyHolds(assetOf[u])
          /\ EndUpload(u)
          /\ \/ PersistSnapshot(u) /\ UNCHANGED commitVars
             \/ LosesAnswer(u) /\ UNCHANGED <<assetStatus, snapshots>>
       \/ UNCHANGED <<assetStatus, snapshots, commitVars>> /\ EndUpload(u)
       \/ /\ UNCHANGED <<assetStatus, snapshots, commitVars, Identity, written>>
          /\ GoOn(u, "cleanNormalized")
    /\ UNCHANGED <<storeVars, orphanVars, intakeJob, pastDeadline>>

\* cleanupWrittenObjects: delete it; if that fails, record it; if that fails, go on.
Discard(u, kind) ==
    \/ kind \notin written[u] /\ UNCHANGED <<storeVars, orphanVars>>
    \/ /\ kind \in written[u]
       /\ \/ Acknowledged("delete", u, kind) /\ UNCHANGED orphanVars
          \/ /\ Unanswered("delete", u, kind)
             /\ auditedOrphans' = auditedOrphans \cup {<<u, kind>>}
             /\ UNCHANGED <<silentOrphans, lateOrphans>>
          \/ /\ Unanswered("delete", u, kind)
             /\ silentOrphans' = silentOrphans \cup {<<u, kind>>}
             /\ UNCHANGED <<auditedOrphans, lateOrphans>>

CleanNormalized(u) ==
    /\ uploadStage[u] = "cleanNormalized"
    /\ Discard(u, "normalized")
    /\ GoOn(u, "cleanSource")
    /\ UNCHANGED <<Identity, written>>
    /\ RowsUnchanged

CleanSource(u) ==
    /\ uploadStage[u] = "cleanSource"
    /\ Discard(u, "source")
    /\ GoOn(u, "markFailed")
    /\ UNCHANGED <<Identity, written>>
    /\ RowsUnchanged

\* Only the asset this upload has created, without a guard; an error here is ignored.
MarkFailed(u) ==
    /\ uploadStage[u] = "markFailed"
    /\ \/ IsNew(u) /\ assetStatus' = [assetStatus EXCEPT ![u] = "failed"]
       \/ UNCHANGED assetStatus
    /\ EndUpload(u)
    /\ UNCHANGED <<snapshots, storeVars, orphanVars, commitVars, intakeJob, pastDeadline>>

-----------------------------------------------------------------------------
(* enqueueTableIntake: tables for the external service. *)

AcceptTable(u) ==
    /\ uploadStage[u] = "idle"
    /\ \E a \in Targets(u) : assetOf' = [assetOf EXCEPT ![u] = a]
    /\ uploadRoute' = [uploadRoute EXCEPT ![u] = "table"]
    /\ GoOn(u, "putTable")
    /\ UNCHANGED <<assetStatus, snapshots, storeVars, runsOn, written, orphanVars, commitVars,
                   intakeJob, pastDeadline>>

PutTable(u) ==
    /\ uploadStage[u] = "putTable"
    /\ Put(u, "source", "enqueue", "compensate")
    /\ UNCHANGED <<Identity, written, orphanVars>>
    /\ RowsUnchanged

\* One transaction for the asset and the job.
EnqueueTable(u) ==
    /\ uploadStage[u] = "enqueue"
    /\ \/ NobodyPublishes(assetOf[u]) /\ EnqueueJob(u) /\ UNCHANGED commitVars /\ GoOn(u, "over")
       \/ /\ NobodyPublishes(assetOf[u]) /\ LosesAnswer(u) /\ UNCHANGED <<intakeJob, assetStatus>>
          /\ GoOn(u, "compensate")
       \/ UNCHANGED <<intakeJob, assetStatus, commitVars>> /\ GoOn(u, "compensate")
    /\ UNCHANGED <<snapshots, storeVars, Identity, written, orphanVars, pastDeadline>>

\* The source is deleted, or that fails silently.
Compensate(u) ==
    /\ uploadStage[u] = "compensate"
    /\ Acknowledged("delete", u, "source") \/ Unanswered("delete", u, "source")
    /\ GoOn(u, "over")
    /\ UNCHANGED <<Identity, written, orphanVars>>
    /\ RowsUnchanged

-----------------------------------------------------------------------------
(* The generation worker: claimTableIntake, processTableIntake, expireTableIntakes. *)

\* A job is claimed once: it never returns to the queue.
ClaimTable(u) ==
    /\ intakeJob[u] = "queued"
    /\ intakeJob' = [intakeJob EXCEPT ![u] = "running"]
    /\ WorkOn(u, "readSource")
    /\ UNCHANGED <<assetStatus, snapshots, storeVars, Identity, written, orphanVars, commitVars,
                   pastDeadline>>

\* Mutant: the worker trusts its own clock and token.
StillRunningHere(u) == workerStage[u] # "idle"

\* running(job): the guard of every write of the worker.
StillRunning(u) == intakeJob[u] = "running" /\ u \notin pastDeadline

ReadSource(u) ==
    /\ workerStage[u] = "readSource"
    /\ \/ <<u, "source">> \in objects /\ WorkOn(u, "import")
       \/ WorkOn(u, "failJob")
    /\ UNCHANGED <<storeVars, Identity, written, orphanVars>>
    /\ RowsUnchanged

\* runLarkTableAgent, with an audit written after every call.
ImportTable(u) ==
    /\ workerStage[u] = "import"
    /\ \/ StillRunning(u) /\ WorkOn(u, "putResult")
       \/ WorkOn(u, "failJob")
    /\ UNCHANGED <<storeVars, Identity, written, orphanVars>>
    /\ RowsUnchanged

PutResult(u) ==
    /\ workerStage[u] = "putResult"
    /\ written' = [written EXCEPT ![u] = {"normalized"}]
    /\ \/ Acknowledged("put", u, "normalized") /\ WorkOn(u, "commit")
       \/ Unanswered("put", u, "normalized") /\ WorkOn(u, "failJob")
    /\ UNCHANGED <<Identity, orphanVars>>
    /\ RowsUnchanged

\* Snapshot, asset and job in one transaction.
CommitTable(u) ==
    /\ workerStage[u] = "commit"
    /\ \/ /\ StillRunning(u) /\ Persistable(u) /\ NobodyHolds(assetOf[u])
          /\ \/ /\ PersistSnapshot(u)
                /\ intakeJob' = [intakeJob EXCEPT ![u] = "succeeded"]
                /\ WorkOn(u, "over") /\ written' = [written EXCEPT ![u] = {}]
                /\ UNCHANGED commitVars
             \/ /\ LosesAnswer(u) /\ WorkOn(u, "failJob")
                /\ UNCHANGED <<assetStatus, snapshots, intakeJob, written>>
       \/ /\ WorkOn(u, "failJob")
          /\ UNCHANGED <<assetStatus, snapshots, intakeJob, written, commitVars>>
    /\ UNCHANGED <<storeVars, Identity, orphanVars, pastDeadline>>

\* A job fails with the asset it was to create.
FailTableJob(u) ==
    /\ intakeJob' = [intakeJob EXCEPT ![u] = "failed"]
    /\ assetStatus' = IF IsNew(u) /\ assetStatus[u] = "processing"
                      THEN [assetStatus EXCEPT ![u] = "failed"] ELSE assetStatus

\* The worker's catch: nothing, if the job is not running any more; it waits for the lock of
\* a COMMIT that is not decided, or fails itself.
FailJob(u) ==
    /\ workerStage[u] = "failJob"
    /\ \/ u \notin undecided /\ intakeJob[u] = "running" /\ FailTableJob(u)
       \/ UNCHANGED <<intakeJob, assetStatus>>
    /\ WorkOn(u, "finally")
    /\ UNCHANGED <<snapshots, storeVars, Identity, written, orphanVars, commitVars, pastDeadline>>

\* Mutant: a failed job always removes its result.
LookBlindly(u) ==
    /\ workerStage[u] = "finally"
    /\ WorkOn(u, "removeResult")
    /\ overtaken' = overtaken \cup ({u} \cap undecided)
    /\ UNCHANGED <<assetStatus, snapshots, storeVars, Identity, written, orphanVars, undecided,
                   intakeJob, pastDeadline>>

\* The finally block: a result is removed if no snapshot row names it. The row is looked for
\* without a lock, and that of a COMMIT that is not decided is not seen. If it cannot be
\* looked for, the result stays.
LookForSnapshot(u) ==
    /\ workerStage[u] = "finally"
    /\ \/ /\ "normalized" \in written[u] /\ ~Published(u)
          /\ WorkOn(u, "removeResult") /\ UNCHANGED written
          /\ overtaken' = overtaken \cup ({u} \cap undecided)
       \/ /\ WorkOn(u, "over") /\ written' = [written EXCEPT ![u] = {}]
          /\ UNCHANGED overtaken
    /\ UNCHANGED <<assetStatus, snapshots, storeVars, Identity, orphanVars, undecided, intakeJob,
                   pastDeadline>>

RemoveResult(u) ==
    /\ workerStage[u] = "removeResult"
    /\ Acknowledged("delete", u, "normalized") \/ Unanswered("delete", u, "normalized")
    /\ WorkOn(u, "over")
    /\ written' = [written EXCEPT ![u] = {}]
    /\ UNCHANGED <<Identity, orphanVars>>
    /\ RowsUnchanged

DeadlinePasses(u) ==
    /\ intakeJob[u] = "running"
    /\ pastDeadline' = pastDeadline \cup {u}
    /\ UNCHANGED <<assetStatus, snapshots, storeVars, uploadVars, orphanVars, commitVars,
                   intakeJob>>

\* Its UPDATE, too, waits for the lock of a COMMIT that is not decided.
ExpireTable(u) ==
    /\ intakeJob[u] = "running"
    /\ u \in pastDeadline
    /\ u \notin undecided
    /\ FailTableJob(u)
    /\ UNCHANGED <<snapshots, storeVars, uploadVars, orphanVars, commitVars, pastDeadline>>

\* A process dies: what it was doing stays as it is.
ApiDies(u) ==
    /\ uploadStage[u] \in LocalStages \cup TableStages
    /\ EndUpload(u)
    /\ UNCHANGED <<storeVars, orphanVars>>
    /\ RowsUnchanged

WorkerDies(u) ==
    /\ workerStage[u] \in WorkerStages
    /\ WorkOn(u, "over")
    /\ written' = [written EXCEPT ![u] = {}]
    /\ UNCHANGED <<storeVars, Identity, orphanVars>>
    /\ RowsUnchanged

DataAssetNext ==
    \E u \in Uploads :
        \/ AdmitLocal(u) \/ ParseLocal(u) \/ PutSource(u) \/ PutNormalized(u) \/ PersistLocal(u)
        \/ CleanNormalized(u) \/ CleanSource(u) \/ MarkFailed(u)
        \/ AcceptTable(u) \/ PutTable(u) \/ EnqueueTable(u) \/ Compensate(u)
        \/ ClaimTable(u) \/ ReadSource(u) \/ ImportTable(u) \/ PutResult(u) \/ CommitTable(u)
        \/ FailJob(u) \/ LookForSnapshot(u) \/ RemoveResult(u)
        \/ DeadlinePasses(u) \/ ExpireTable(u) \/ ApiDies(u) \/ WorkerDies(u)
        \/ CommitTakesEffect(u) \/ CommitRollsBack(u)
        \/ \E op \in {"put", "delete"}, kind \in Kinds : RequestLands(op, u, kind)

DataAssetSpec == DataAssetInit /\ [][DataAssetNext]_dataAssetVars

-----------------------------------------------------------------------------
(* Properties. *)

\* A published snapshot can be read: its normalized object, and for a local upload its
\* source, are in the store, although every failed upload tries to remove what it wrote,
\* cannot always know whether it was published (persistenceAttempted in data-assets.ts, the
\* finally block of processTableIntake), and PUTs, deletions and COMMITs whose answer was
\* lost are applied after that. Only a snapshot whose COMMIT was not decided when its worker
\* looked for it may be without its object. An asset is ready exactly if it has a snapshot.
SnapshotsReadable ==
    \A a \in Uploads :
        /\ assetStatus[a] = "ready" <=> snapshots[a] # <<>>
        /\ \A s \in ToSet(snapshots[a]) :
              /\ <<s, "normalized">> \in objects \/ (uploadRoute[s] = "table" /\ s \in overtaken)
              /\ uploadRoute[s] = "local" => <<s, "source">> \in objects

\* "A lost COMMIT response may still mean a published snapshot. Never delete its object
\* blindly." (table-intake.ts:282): every snapshot has its normalized object. The code looks
\* before it deletes, but a COMMIT that is decided after that has lost its object.
ResultsAreKept == \A a \in Uploads : \A s \in ToSet(snapshots[a]) : <<s, "normalized">> \in objects

\* A local upload that was refused before its publication leaves nothing in the store that
\* the audit does not name, also if a PUT took effect and reported an error: only an object
\* whose deletion and whose audit both failed is unknown, and one whose PUT was applied
\* after its deletion.
LeftoversAreAudited ==
    \A u \in Uploads :
        uploadRoute[u] = "local" /\ uploadStage[u] = "markFailed" =>
            \A kind \in Kinds : <<u, kind>> \in objects =>
                <<u, kind>> \in auditedOrphans \cup silentOrphans \cup lateOrphans

\* The store holds what the tables refer to, and the audit knows what it holds besides.
StoreMatchesRecords == SnapshotsReadable /\ LeftoversAreAudited

\* Nobody is told one outcome and finds another. A ready asset stays ready, although
\* markFailed is unconditional (data-assets.ts). A job that has failed stays failed and its
\* snapshot unpublished, although its worker may still be at work when it expires: whoever
\* submits the table again does not find it twice (running(job) in table-intake.ts).
OutcomesAreFinal ==
    [][/\ \A a \in Uploads : assetStatus[a] = "ready" => assetStatus'[a] = "ready"
       /\ \A u \in Uploads : intakeJob[u] = "failed" =>
             intakeJob'[u] = "failed" /\ ~Published(u)']_dataAssetVars
=============================================================================
