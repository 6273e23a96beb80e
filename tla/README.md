# Verification of LangReport

LangReport turns a question about a table into a chart. A *Generation Job* is a row of
PostgreSQL table `generation_jobs`; a generation worker profiles the data, asks a model for
a plan and compiles a chart specification; a render worker draws it, stores four output
objects and publishes a *Chart Revision* of a *Chart Artifact*. The API takes in tables,
keeps project memories, plugins and themes, enqueues, retries and cancels jobs; the browser
watches them.

This directory holds TLA+ models of that system, the TLC configurations that check them,
and proofs checked by TLAPS. Paths below are relative to the repository.

    tlc -workers 2 -config JobLease.cfg MCLeases
    tlc -workers 2 -config Services.cfg MCServices
    tlc -workers 2 -config RevisionNumbers.cfg MCLibrary
    tlapm GenerationJobLease_proofs.tla
    tlapm Requests_proofs.tla
    tlapm Services_proofs.tla

`PROJECT.json` lists components, runs, mutants, the source lines of every definition,
findings, hazards and theorems.

## 1. Inventory

| Component | State | Operations | Talks to | What must hold |
|---|---|---|---|---|
| Job lease (`packages/db/src/generation-job-lease.ts`) | lease columns, status and fencing token of a job | claim, renew, conditional update, release, expiry sweep, identity reservation | both workers, API | at most one handler of a job takes effect; no job is stranded |
| Generation worker (`apps/generation-worker/src/index.ts`) | lease, stage, polling flag | poll, claim, four stages, ask for clarification, hand off, fail | lease, model gateway, conversation | a late handler is harmless; every job settles |
| Render worker (`apps/render-worker/src`) | lease, advisory lock, reserved identity, attempt ledger, objects | claim, reserve, PUT, read back, validate, publish, fail, clean | lease, object store, chart tables | one revision per job, its outputs stay readable, no garbage for ever |
| Job endpoints (`apps/api/src/routes.ts`) | briefs, metrics; some within a request | enqueue, retry, cancel, read, long poll, save and confirm a brief, derive a revision | job table | a decision is not out of date when it is written; what a job is based on was confirmed |
| Status notification (`generation-job-status.ts`, web watcher) | waiters, one LISTEN connection, last version seen | register, notify, time out, fall back to polling | job table, browser | no change is missed for ever; what is shown never goes back |
| Enqueue and preconditions (`routes.ts`, `chart-routes.ts`) | idempotency key, input fingerprint | insert or reuse | job table, conversation | one job per key, no partial leftovers |
| Chart review (`packages/chart`, `packages/domain`) | revision status, published pointer, evidence status, theme version, shares, comments | submit, approve, request changes, reopen, archive, save theme; edit, roll back, copy; list, compare, export, share | publication | published revision is approved and complete; viewers see approved revisions; a finding is about the numbers beside it; no theme lost unseen |
| Data asset ingestion (`data-assets.ts`, `local-parse.ts`) | asset status, snapshots, objects, audit; one parser thread | admit, parse, PUT, persist, clean, mark failed | object store | a published snapshot stays readable; leftovers are on record; the parser is contained; what is shown can be opened |
| Snapshot access (`generation-worker/src/snapshot-access.ts`) | none | check relations, key, payload, profiles | object store, data assets | what was accepted is not refused later |
| Table intake (`table-intake.ts` in API and worker, `packages/lark-data`) | intake row, source object, online document | enqueue, claim, import, look, select, commit, expire | object store, data assets, table program, model | outcomes are final; the table taken over is the one that was seen |
| Memory and revocation (`packages/memory`) | memories, candidates, tombstones, ledger files, checkpoint, extraction jobs | create, edit, delete, accept, reject, replay, admit, restore, extract, list, read as of a date, select for a job | files, database, model calls | a revoked memory never returns; a candidate is decided once; reads do not show what was deleted before |
| Generation cycle (`packages/generation`, model gateway) | usage rows, audit, repair count, plan, chart fields, model route and keys | resolve and bind the route, admit, send, record, plan, transform, compile, validate, repair, settle | model service, lease | usage is never lost; the record explains the outcome; a frozen route keeps its key; a choice is final |
| Plugins (`packages/plugins`, `packages/plugin-sdk`) | installations, project bindings, what a job froze | parse a manifest, install, revoke, restore, enable, disable, freeze | generation context | usable plugins never clash; an accepted manifest resolves |
| Data engine (`packages/data-engine`) | rows of a table, rows of a result | name columns, type cells, profile; derive a period, group, compare, order | ingestion, generation cycle | the stored table is the one that was accepted; the answer is what was asked |
| Web application (`apps/web`) | context, job, panels, requests under way, localStorage | select, send, run a command, retry, resume, open a panel | API | a late result does not reach another context or panel |
| Accounts (`packages/db/src/user-accounts.ts`, `apps/api`) | accounts, sessions, workspaces, projects | first account, create, disable, log in, find or make a workspace and a project | every request | one personal workspace per user; sessions name an account |
| Contracts, Flint adapter | see `PROJECT.json` | | | |

Hard behaviour: processes that act on a lease that is long gone; skewed clocks; crashes
between two statements; a COMMIT whose answer is lost and that is decided later; PUTs and deletions that land late; requests that
read, think and write; an object store without transactions; a file ledger beside a
database that may be restored; documents that other people edit; a page whose answers come
after the user has moved on. `PROJECT.json` "hazards" gives each its line.

## 2. Plan

| Step | Module | Composes / implements | State |
|---|---|---|---|
| 1 | `GenerationJobLease` | implements `JobLifecycle` | modelled, checked, proved |
| 2 | `RenderPublication` | implements `RevisionCatalog` | modelled, checked, proved |
| 3 | `RevisionReview`, `ProjectTheme`, `ReportReads`, `RevisionDerivation`, `RevisionService` | implements `ReviewPolicy` | modelled, checked, proved |
| 4 | `JobEnqueue`, `AnalysisInputs`, `StatusWatch` | the ways into and out of the job table | modelled, checked, proved |
| 5 | `DataAssetIntake`, `AssetReads`, `LocalParse`, `TableAgent`, `TableNormalization` | request, worker and readers of an upload; `AssetReads` extends `DataAssetIntake` | modelled, checked, proved |
| 6 | `MemoryRevocation`, `ProjectMemory`, `MemoryReads` | ledger beside database; rows beside candidates; reads | modelled, checked, proved |
| 7 | `GenerationCycle`, `ModelRoute`, `TransformExecution`, `ChartPlanning` | one job's cycle; its key; the plan it runs; the chart it proposes | modelled, checked, proved |
| 8 | `ProjectPlugins`, `PluginManifest`, `Accounts` | rows of a workspace | modelled, checked, proved |
| 9 | `WorkspacePage`, `Panels` | the browser | modelled, checked, proved |

Every safety invariant and action property that a passing run checks is proved; liveness stays
with TLC. No module declares a RECURSIVE operator, so that all of them can be proved about:
where the code recurses or folds, the models use recursive functions, the folds of the
community modules, or say what the result has to be.

## 3. Modules

### GenerationJobLease

One action per database statement (or transaction) of the lease functions, of the two
workers' handlers and of the retry and cancel endpoints.

* `status`, `owner`, `fence`, `attempts`, `error` are columns of `generation_jobs`;
  `error` keeps the class of `error_code` the retry endpoint tells apart. `published`
  counts revisions of the job, `messages` its clarification questions.
* `lease_token` is a fresh random value at every claim, as the fencing token is; the
  model keeps the fencing token for both.
* `expired[j]` stands for time: *the clocks of the other processes are past
  `lease_expires_at`*. A holder compares the column with its own clock
  (`ownedLeaseCondition`), which may lag: it may still write to an expired lease as long
  as nobody has taken the row, or be refused (`LoseLease`).
* `pc`, `job`, `held` are the local variables of a worker process. `RecoverExpired`,
  `Select` and the claim are separate steps of `pollOnce`, so a selected row may change
  before it is claimed. The two UPDATEs of the sweep touch disjoint rows and are one step.
* `setStatus` is two statements, a renewal and the update; no property can tell the
  state in between from the state before, so they are one step (`AdvanceTo`).
* `renderLock` is the session advisory lock; PostgreSQL may drop the session while the
  worker runs on (`LoseLockSession`).
* A retry request is `RetryRead`, then `RetryUpdate` or `RetryTooLate`.
* `Crash` is a process death, and also the exit of `processGenerationJob` that writes
  nothing because the heartbeat met a database error.

`JobLifecycle` is its abstract specification: the edges of a row's status, the lease as a
Boolean, the fencing token as a counter of claims. No UPDATE in the code names the status
it replaces, so that these are the only edges is a consequence of the protocol.

### RenderPublication

The render phase in full detail, with a reduced lease around it.

* `reserved` is `candidate_revision_number` (artifact and revision ids are set with it),
  `manifest` the attempt `candidate_output_manifest` describes, `ledger` the status of the
  `render_candidate_attempts` rows, `nextNumber` and `head` columns of `chart_artifacts`.
* `objects` are the keys a reader can get; `inflight` are PUTs that have been sent. A PUT
  lands although its sender died, timed out or was fenced (`PutLands`), or is dropped.
* A worker makes one attempt per claim, so the fencing token names the attempt and its
  private keys.
* The publishing transaction is `SendCommit` (checks and writes, row locks held by
  `commit`), then the server decides: `CommitTakesEffect` or `CommitRollsBack`, at any
  time after. The worker gets the answer or not (`CommitAnswered`, `CommitUnanswered`);
  without it, it asks for the job's status (`readCommittedRevision`) and else records a
  failure, which waits for the row lock.
* All errors reach one catch block (`AttemptFails`, then `FindSucceeded` or
  `FindUnfinished`, then `FailRender` or `FailRefused`).
* The cleaner marks an attempt under locks (`MarkOrphan`), deletes key by key outside any
  transaction, then marks it deleted; deleted attempts are revisited. Its retention time
  is left out, so in the model it may act sooner than in the code.
* The reservation, the publication and the cleaner ask PostgreSQL's clock (`expired`); the
  renewals and `ownsLiveLease` ask the worker's clock and may revive an expired lease.

Quarantined attempts are left out: the worker records well-formed keys only. Revision 1 of
the artifact `Base` is part of the initial state and not of `revisions`.

`RevisionCatalog` is its abstract specification: revisions appear one at a time, complete,
one per job and one per number; the head is the highest number published.

### RevisionReview

`transitionChartRevision` with its races: other requests, publications of further revisions
of the artifact, and the maintenance switch of the chart lifecycle.

* `status` is `chart_revisions.status` (`none` before publication), `published` is
  `chart_artifacts.published_revision_id`, `reviews` the rows of `chart_reviews`,
  `evidence` the second copy of the status in `evidence_blocks`, `mode` the row of
  `chart_lifecycle_control`.
* A request is `Read` (unlocked, judged against what it read), `Lock` (job, artifact and
  revision, in this order; one step, because every transaction that waits for the artifact
  holds its job alone), `Write` (judged again, trigger passed), `Commit`. What
  `assertReviewReady` decides, an unreadable store and a crash are all `Refuse`, at any
  point before the commit; requests refused on the first read leave nothing and do not
  appear. `expectedStatus` only narrows what is refused there.
* The trigger of the five lifecycle tables holds a share lock on the mode until its
  transaction ends, so `SwitchMode` waits for requests that have written. `Publish` is one
  step: it holds all its locks from its first write on.

`ReviewPolicy` is its abstract specification: one atomic move along the table of
`packages/domain`, with the published pointer and the log.

### JobEnqueue

The three routes that insert rows of `generation_jobs`: a message, the direct endpoint, and
an edit, copy or rollback. Each SQL statement is an action, because the first two routes run
without a transaction: `FindMessage`, `FindJob`, `ProjectConversation`, `SaveMessage`,
`CheckKey`, `AddTurn`, `InsertJob`, `ReadExisting`; `EnqueueRevision` is the one transaction
of the third route.

* `messages` and `queued` are the two tables, with their unique keys as guards; `opened` are
  conversations a request creates itself; `inputs` counts changes of everything else a
  fingerprint covers, so that two equal requests may hash differently (`ChangeInputs`).
* A repeated request is a second member of `EnqueueRequests` with the same body.
* `RefuseInputs` is the verdict of the preconditions (`AnalysisInputs` has them), `LoseRequest` a death or a failed
  statement at any point.

### AnalysisInputs

What a generation is based on. A page saves a draft of the analysis brief and confirms it
with a second request; every PATCH (`CreateBrief`, `ReadBrief`, `WriteDraft`,
`WriteConfirmed`) reads the latest row, merges its body and writes all fields back, without a
lock. `Generate`, `FindReadyAsset`, `ChooseMetric`, `RequireBrief`, `InsertGrounded` are the
preconditions and the job, each a statement; `AskQuestion` ends a job in a question, and the
answer is a job with a `parent`. Edits may get lost (the last writer wins), which
`JobsAreGrounded` allows: it says that whatever a job is based on was judged by a
confirmation, and that question and answer agree in snapshot and metric.

### StatusWatch

The path of a status change to the page. `version`, `jobStatus`, `hasRevision` are the job;
`listening` and `notifications` the LISTEN connection; a watch runs through the stages
`ask`, `read`, `revision`, `decide`, `held`, `got`, `refresh`, `pause`, `ended`, which are the
awaits of `readStatus`, of the long poll and of the watcher. `ListenerBreaks`, `RestartApi`
and `RequestFails` are faults (bounded by `MaxFaults`); a notification that arrives while
nobody listens is gone. The endpoint may hold requests, answer at once, or be missing, in
which case the watcher falls back to `GET /generation-jobs/:id`. `SelectJob` and `Deselect`
abort the watch; its answer may still be under way.

### DataAssetIntake

Uploads from the request to the snapshot. A local upload is admitted (one per API), parsed,
PUT twice and persisted in one transaction; a table goes to the queue and is processed by
the generation worker until its deadline.

* `assetStatus`, `snapshots`, `intakeJob` are rows; `objects` the store; `written` what a
  process may have put there; `auditedOrphans` and `silentOrphans` what a failed cleanup has
  left, with and without a record, and `lateOrphans` what a PUT has brought back after it.
* A PUT or a deletion that reports an error stays in flight (`Unanswered`, `inflight`): the
  store applies it at any time after, also after the deletion of its key (`RequestLands`), or
  never, as if it had not been sent. What the storage client sends again within one call is
  one request here, applied when the last copy is.
* A COMMIT that reports an error is `undecided`. The server decides at any time after
  (`CommitTakesEffect`, `CommitRollsBack`) and keeps the locks until then: `NobodyHolds`
  the asset of another publication, `NobodyPublishes` the asset a new job refers to, and the
  job's row keeps `FailJob` and `ExpireTable` waiting. Other COMMITs without an answer
  (claim, failed job, `markFailed`) are decided at once, because a later decision is that
  same step taken later, and nothing their process does in between depends on it.
* `LookForSnapshot` and `RemoveResult` are the finally block of the worker: the row is looked for
  without a lock, so that an undecided COMMIT is not seen. `overtaken` keeps the uploads to
  which that has happened: their snapshot may be published without its object, and nothing
  else may be (`SnapshotsReadable`). `ResultsAreKept` is the promise without that exception,
  which the run `lost_table` refutes.
* `MarkFailed` writes without a guard, as the code does. `ApiDies` and `WorkerDies` end a
  process between any two statements.

### AssetReads

Extends `DataAssetIntake` with its readers: an asset and its latest snapshot are two queries
(`ReadAsset`, `ShowAsset`), lists another two; with what it was shown a page lists snapshots,
opens one, or starts a job, whose worker computes the object's key itself (`KeyOf`, `Related`,
`LoadSnapshot`). `ShownAssetsAreUsable`: what is shown as ready can be opened by the page
and by the worker, whatever fails or is deleted meanwhile; only the object of an `overtaken`
upload may be missing, and then the worker of the job says so. `enqueueTableIntake` answers for
an existing ready asset without its snapshot; that answer is not among the reads.

### TableNormalization

From the cells of a file, workbook, JSON document or grid to the stored table and back.
`GivenNames` is `positionalColumnNames`, `LarkNames` the numbering of
`tableFromGrid`, each a recursive function of the column; `KeyOrders` is the one order in which
`Object.keys` lists the names (a bijection that puts no key before one it comes after); `CellAt` types a cell by its source, `InferredType` a column; `StoreTable`
writes the document beside profiles, `LoadTable` is what the worker checks before it computes.
A name is a text and the numbers behind it, with or without blanks around it; a value is what
it looks like (digits, padded digits, a day, a moment, an over-large number, an object).
`AcceptedTablesLoad`: a table that was accepted is not refused by the worker, and every
column keeps its values under its own name. Three things it leaves out or allows,
all true of the code: a column named `__proto__` is stored, but comes back without values
(rows are rebuilt by assignment); `1e999` of a JSON file is counted as a value but is null in
the document; moments of a workbook become timestamps, whose column is profiled as text. Over-long
names of the table service are refused there and not modelled.

### LocalParse

The parser thread of `local-parse.ts`. The thread (`WriteOutput`, `PostMetadata`,
`PostError`), the events the main thread hears of it (`HearMetadata`, `HearError`,
`HearCrash`, `ThreadExits`), the timer, the abort of a request and `close` interleave freely;
`HandOver`, `Clean` and `Dispose` are the end of a call with its `finally` blocks. The
release of the slot and the reset of `activeDone` are one step (no event runs between two
microtasks), and the validation of a message is one verdict.

### TableAgent

How the generation worker finds the table in a spreadsheet: import, look (`InspectSheet`),
select (`SelectTable`), read header and data, check the revision again. Every call of the
table program is a step; `EditDocument` may come between any two. `inspected` keeps the last
observation per sheet with the revision it shows. Columns and context budgets are left out.

### MemoryRevocation

Deletions that must survive a restored database. `events`, `ledgerHead` and `ledgerState`
are the files (event files and `HEAD.json`, written one after the other under the advisory
lock), `memoryDb` the database with its checkpoint, `backup` an earlier database.

* API processes and read-only workers run through the gate (read the ledger, compare the
  checkpoint, import or replay what is missing), then delete a memory or admit a model
  request with one (`stage`, `target`, `seen`, `seenHead`).
* A process may die between any two steps. `Restore` puts the backup in place while no
  process runs, as `docs/operations/deploy-ecs.md:70` demands.
* Reading the journal is one step; `FindDeleted` of a project memory also succeeds where a
  restored database lacks the row and the code answers 404 (nothing is written then).

### ProjectMemory

The rows of one memory key at READ COMMITTED. A request begins with an unlocked read
(`RequestCreate`, `RequestUpdate`, `RequestDelete`, `RequestAccept`), locks the rows its
statement saw (`LockRows`), then the source messages (`LockSources`), then writes; it sees
current columns of locked rows but no row inserted in between. `Propose` is the extraction
worker, with `EnqueueExtraction`, `ClaimExtraction` and `EndExtraction` its job. `Reject`
is one guarded statement. The unique index on active rows is a guard that fails an insert.

### MemoryReads

Every read of memories, preferences and summaries, statement by statement: `ReadRows`,
`ReadTombstones`, `ReadProjectHidden`, `ReadUserHidden` in any order the code's `Promise.all`
allows, then `AnswerRead`. Changes are one step each (`ProjectMemory` has their locks).
A memory has versions with their time of effect; there is one project memory, one candidate
and one private preference, made of messages of one conversation. Listings of active rows, of
candidates, as of a date, of history, of usage, the selection for a job and the conversation
with its summary are the `Reads`; `InDispute` is the conflict flag. A defect is left
open by the property: `syncConversationTurn` (`routes.ts:2272-2285`) reads the latest
messages, whichever they are by then, and writes its own message as the watermark, up to which
`hasSuppressedConversationSource` looks. A message after the watermark may be in the summary,
and its deletion is not noticed: `docs/history/phase4-design.md:58` calls the watermark the
last message covered, and `docs/changes/2026-09-24-memory-system/design.md:43` forbids a summary
with revoked content. `ReadsForgetDeleted` speaks of the messages up to the watermark.

### ProjectPlugins and ProjectTheme

`ProjectPlugins`: the administrator's transactions lock the installation (`StartRevoking`,
`CommitRevocation`, `LoseRevocation`, `RestorePlugin`), the editor's lock the project
(`StartBinding`, `ReadBinding`, `CheckConflicts`, `WriteBinding`): they meet only where a
statement waits for a row. A job freezes the enabled plugins while this goes on, and its
worker resolves what it froze. One project; a conflict of manifest hashes and the parsing of
compatibility ranges are refusals. Two installation keys bound the part: clashes are
between pairs. `ProjectTheme`: a theme is read, checked and saved. `expectedVersion` is optional
(`packages/contracts/src/index.ts:267`): an author states the version it was shown or none
(`states`), and a save without one replaces whatever it finds, which the API allows.
`NoThemeLostUnseen` is about the saves that state a version, beside others that do not;
the exception it names, the first save, is the finding of `first_theme`.

### PluginManifest

`ParseManifest` collects the issues of a manifest: capabilities, contributions and their
identities, `extends` of themes, settings Flint refuses, rules of validators.
`Node` is `resolveThemeNode`, a recursive function of the set of themes being visited.
`AcceptedManifestsResolve` says without the code's recursion what an accepted one
promises: each theme is a tree that ends, the nearest setting wins, a rule can be met; and that
one that is rejected has a fault that can be named, two validators of one id among them.
Three observations the property allows: the merged payload of a theme that extends a theme
of its own plugin names that theme and no longer the built-in one above it
(`plugin-sdk/src/index.ts:339-348`), where `docs/history/phase5-design.md:251` wants the whole
line kept; a parent may be declared after its child, where the same line says before; ids
of examples are not compared, although section 6.3 of that document counts them in.

### GenerationCycle

One job's cycle across the generation worker, the memory gateway, the harness and the
graph: claim, prepare, admit (the two usage rows), send, record, decide, transform, compile,
validate, repair, settle. `usage` holds both tables, `sent` what reached the provider,
`recorded` the audit written with the settlement. Any database statement may fail and a
worker may stall and run on after its job was taken over. What a model answers, and whether
a plan executes or a chart validates, is nondeterministic; a repair runs the same plan again
and so meets the same verdict.

### ModelRoute

Which model a job asks, with which key. The API resolves the route from its environment and
freezes it with the job (`RequestRouted`); the worker binds it to the workspace's key, as it
was saved by then and decrypts with the worker's own master key, and to the deployment's
key only where the workspace has none (`BindGateway`). `DeployApi`, `DeployWorker` change the
environments apart from one another, `StartSaving`, `EncryptKey`, `StoreKey` replace the key
meanwhile. `RequestsUseSavedKey` is part of `RequestsAreOnRecord`.

### TransformExecution

The plan of a question about totals and changes (`generateTransformPlan`) and the executor,
step by step: `DeriveTime`, `Aggregate`, `PercentChange`, `SortByTime`. `Aggregate` numbers the groups by
the first row of each, `SortByTime` is a permutation that is in order and keeps the order of
rows that are alike; both are described and not computed. A date is a day, month,
quarter or year, or `invalid`; a missing cell is the empty set. Invalid are the values that
`isDateString` takes for dates and `calendarPeriod` refuses: months and days that do not
exist, and days with an hour behind a blank (`2024-13`, `2024-02-30`, `2024-01-05 10:30`).
A question about time fails on them whatever its grain, since version 2. Version 1 reads
no more than their digits, which `index` stands for; it answers, and its totals are asserted,
but not its order or comparisons (`compareValues` puts what is no date in the order of
strings). Jobs keep the version of the executor they
were frozen with: version 1 derives no grain, compares months, and fails only when there is
nothing to group by. What it compares is asserted only for rows that all have a valid date, one for
each month of a series; otherwise it takes the first date of the month, or compares rows
without a date with themselves (`EarlierRowsV1`). Only steps the planner makes occur: filters,
limits and other expressions do not.

### ChartPlanning

From proposal to chart fields and back to the user: `ProposeByModel` or `ProposeByRule`,
`Transform`, `Compile`, `Validate`, the question for a missing axis and the answer
(`AnswerQuestion`), or a new prompt (`AskAnew`). A choice is laid over what is proposed next
(`applyGenerationDecision`); one that is no column of the snapshot, or no date where a
comparison needs one, is dropped, so that a question may come back. Plugin templates, the
validation of charts and the limit (8) of candidates are left out; of their order only the
first, which is recommended, is kept (`Recommended`). So are columns of booleans and the hint
that a column's name gives version 2 (`generation/src/index.ts:141-145`): both only change which
of several columns is proposed before the user chooses.

### WorkspacePage

The page's React state (`page`), what is under way (`requests`, each with the context it was
started in) and `localStorage` (`pending`). `Serve` is the server's part of a request,
`Continue` the code after an `await`, `Begin` an event handler; abortable requests are
dropped by a change of context. React renders and runs effects before the next event, so
that an action is one handler with its effects.

### Panels

Three hooks of the page that load what is selected: the versions of a data asset (`preview`),
the comments of a revision (`review`), its plugins (`trace`). Each aborts the request it
replaces, but an answer under way still arrives, and in any order. A handle is what the hook
compares: request id, asset and version, or the abort controller. `PanelsShowSelected`: no
panel shows what belongs to something else, or waits for an answer it will drop.

### RevisionDerivation

Edits, rollbacks and copies over chains of revisions. `CommandEdit`, `CommandDerive` freeze
brief, public references, executor and, where only the look changes, the finding;
`PrepareVisual` copies the numbers, `PrepareComputed` computes them with the executor of the
source, `PublishDerived` writes finding and numbers side by side. Revisions published before
there were executors or evidence are among the initial ones. `DerivedIsTraceable` follows
a revision back through all of this.

### RevisionService

The three functions of the chart package that make revisions without a render worker:
`createInitialRevision` and `createDerivedRevision`, each one transaction (`CreateInitial`,
`Derive`) behind unlocked reads, and `copyRevisionToArtifact`, three statements without one
(`InsertCopy`, `FillCopy`, `PointCopy`). They are exported and have integration tests
(`apps/generation-worker/src/worker.integration.test.ts`), but no app calls them. Callers share
keys and jobs, die anywhere (`GivesUp`) or lose their answer (`Finishes`), while jobs reserve
numbers (`ReserveNumber`). `RevisionsAreCounted`: the head is the highest number, a reserved
number is taken by its job only, and calls that repeat one another get the same revision. A
copy that dies between its statements leaves an artifact without a revision, and a call that
repeats it, or overtakes it, is answered with a conflict.

### ReportReads

What members are shown of charts while reviews go on: lists, a revision, a comparison, an
export, a job's result, outputs, evidence, comments and shares, each by statement, for an
outsider, viewer, editor or reviewer. One request is followed at a time: a request
disturbs another one only through rows that single statements change, and `Review`,
`ArchiveArtifact`, `RevokeShare`, `ExpireShare` change them here between any two statements.
`ViewersSeeApproved` compares what was shown with what was approved while the request ran.

### Accounts

The first account and the handover from the identity used before there were accounts, the
operator's commands, provisioning, sessions, the personal workspace (look, try the lock, look
again, create) and projects. A process may die between statements; the locks it holds go with
it. `OnePersonalWorkspace` counts what requests and what provisioning made apart, because they
lock different keys and may make one each. A project and its membership are two statements:
a death between them leaves a project without members, which nobody can reach.

### MC modules and mutants

The `MC` modules declare model values, symmetry sets and the constants given by definitions.
`MCLeases` lets different crews of workers and requests share the queue: the variable `crew` is chosen in
the initial state, and only its members move. `MCRequests`, `MCServices`, `MCLibrary` and
`MCProgress` check parts that share no state in one run: the
variable `focus` is chosen in the initial state and only that part moves, the others stay in
one initial state. What a part reaches is exactly what it reaches alone; nothing is claimed
about parts moving together, and there is nothing they could do to each other.

Definitions whose comment begins with "Mutant" are plausible bugs; `PROJECT.json` pairs each
with the definition it replaces and the property that notices.

## 4. Runs

| Run | Question | Instance | Result |
|---|---|---|---|
| `job_lease` (`MCLeases`) | do takeovers, retries and lost locks ever harm a row? is `JobLifecycle` implemented? does every job settle? | see below | holds |
| `revision_numbers` (`MCLibrary`) | do published outputs and the ledger survive late PUTs, lost answers and cleaners? is `RevisionCatalog` implemented by two edits of one artifact? derivation, reads, briefs, accounts, panels | see below | holds |
| `orphan_cleanup` (`MCProgress`) | is all garbage removed, and the end of a job shown, in the end? | 1 creation, 2 workers, 2 attempts, 1 disruption; 2 jobs, 2 watches, 2 versions, 2 faults | holds |
| `revision_review` (`MCRequests`) | reviews and `ReviewPolicy`, enqueueing, revisions made by calls, parsing, table search, transform plans, chart questions | see below | holds |
| `services` (`MCServices`) | memories, uploads and their reads, tables, plugins, manifests, themes, cycles, model keys, the page | see below | holds |
| `retry_race` | does a retry requeue recoverable failures only? | 1 job, 2 retry requests, no disruption | violated |
| `attempt_limit` | is a job attempted at most three times? | limit 3, 3 disruptions | violated |
| `stale_question` | are questions posted under a lease only? | 2 generation workers, 1 disruption | violated |
| `adopt_candidate` | can a conflicting candidate be adopted? | 2 logical memories with 3 versions, 2 candidates, 3 requests | violated |
| `pending_job` | is the job to resume kept until its success is shown? | 2 jobs, 3 requests | violated |
| `lost_table` | does every published table keep its object? | 1 new upload beside an earlier one, 1 API | violated |
| `first_theme` | is a save that states an outdated version refused? | 2 authors, 3 saves | violated |

The crews of `job_lease`: 2 jobs (generate, derived), 1 + 1 workers, 1 request to retry and 2
disruptions; 2 + 1 or 1 + 2 workers that share their names, 1 request and 2 disruptions; 2 + 2
workers, 1 request and 1 disruption; 2 + 1 workers, 2 requests and 1 disruption. With more
workers or requests than one of each kind, the second job fails for good as soon as it is taken
up; it keeps its place in the queue until then.

The parts of `revision_review`: 2 revisions of one artifact, 2 review requests, 4 review rows
each and 2 switches of the mode; 3 requests that enqueue, with 8 bodies that share and do not
share key, content and conversation, and 1 change of other inputs; 3 calls that make revisions with 1
key or none, 1 job and 1 reserved number; 3 parses; 2 sheets of 4
rows, 3 decisions of the model (the code allows 6), 1 head and 1 tail row shown (10 and 5 in
the code) and 2 edits; every question over tables of 2 rows of any kind or 3 rows of fewer
kinds, with months of 28 and 31 days and a day that does not exist, and of version 1 those without quarters; 5 kinds of snapshot and 2 jobs.

The parts of `services`: 2 memories made of one message, 2 API processes, 1 read-only worker,
1 restore; 3 logical memories with 3 versions, 2 candidates, 3 requests, 2 extractions; 2 new
uploads beside an earlier one, 2 APIs, 2 requests or COMMITs late at the same time, and once more with 1 new upload and readers; tables of 2
rows and 3 columns whose headers collide in every way two names, a blank, a number behind
and `__proto__` allow; 3 manifests (two versions of one plugin, and a rival), 2 installation
and 2 binding keys and a job; manifests of 3 themes, and of up to 2 validators with a rule each; 3 authors, with and without a version, and 3 saves of a
theme; 2 workers, 2 claims and 2 faults of a cycle; 2 deployments, 2 keys and 2 master keys; 3
conversations in 2 projects, 1 job and 2 requests of the page.

The parts of `revision_numbers`: 2 workers, 2 objects per attempt and 3 attempts at one
edit or between two of one artifact, or 2 attempts at one edit and 2 disruptions (a PUT that
lands late is not counted as one); 3 kinds of
earlier revision and 2 derivations from them or from one another; 2 revisions, a viewer
beside an editor or an outsider beside a reviewer, 1 share, 1 comment; 2 pages, 2 contents of a
brief, 2 saves, 2 snapshots, 1 metric, 2 jobs; 2 messages, 2 versions of each memory, 2
moments; 2 processes, 2 names, 2 accounts, 3 workspaces, 2 projects; 2 selections, 3 handles and
2 remarks of each panel.

`revision_numbers` has about 2.9 million distinct states, `services` 2.0 million,
`revision_review` 3.1 million, `job_lease` 0.85 million; each takes two to four minutes.

Why the bounds suffice. Every race about one row is between at most two handlers of the
same kind and one sweep or request, and a second stall or crash is what a retry of the
recovery needs; jobs meet only in the queue (which `job_lease` covers) and at their
artifact (which `revision_numbers` covers). Two retry requests are what a check-then-act
race needs. Two objects per attempt allow a partly written and a partly deleted attempt;
three attempts allow a cleaner, a stale worker and a live one at once. Two requests and two
revisions are a stale judgement beside any other transaction of the artifact, and four
review rows are two whole rounds. Three enqueueing requests are a winner, a loser and one
that comes after both; three memory requests are two that race beside one that has judged
already. Two uploads into one asset cover a failure beside a success; two late effects are a PUT
behind its deletion, or a COMMIT behind the deletion of its result, beside one of another
upload; a reader
beside them needs one that appears, because it reads one asset and its snapshots, and the
earlier upload is there to be updated. Two pages are a draft and a confirmation
of somebody else; two derivations are a revision of a revision; two messages are one before
and one after a watermark. Two processes are a winner and a loser of a lock, and a third
workspace would be one too many. Three handles are a late answer beside one aborted and one
in force. Three columns are a name, its double and the name that the double would get. A table of two rows has
a group, a repeated period or a period compared with an earlier one; the third row makes the
one in between. Two jobs are a question and the job after its answer. The proofs remove the
bounds for the modules they are about (section 5).

`MaxReviews`, `MaxSwitches`, `MaxFence`, `MaxDisruptions`, `MaxFaults`, `MaxVersion`,
`MaxInputChanges`, `MaxEdits`, `MaxPlanningJobs`, `MaxRestores`, `MaxLogicals`, `MaxVersions`, `MaxHistory`,
`MaxExtractions`, `MaxBindingVersion`, `MaxSaves`, `MaxClaims`, `MaxCycleFaults`,
`MaxPageJobs`, `MaxPageRequests`, `MaxDerivations`, `MaxShares`, `MaxComments`, `MaxSnapshots`,
`MaxMetrics`, `MaxJobs`, `MaxMessages`, `MaxTime`, `MaxAccounts`, `MaxWorkspaces`,
`MaxProjects`, `MaxHandles`, `MaxRemarks`, `MaxReadUploads`, `MaxUnanswered`, `MaxDeployments` and `MaxKeys` are
bounds of the model only. `MaxThemeDepth` is 2 for the code's 8, `MaxDataColumns` 3 for 200 and
`MaxDataRows` 2 for a million, so that tables and lines beyond the limit occur. `MaxGenerationAttempts` is
the constant of the code (2 where its value plays no role, 3 in `attempt_limit`);
`TABLE_AGENT_MAX_STEPS` and `MaxRepairs` are too.

Deadlock is checked in the run about the queue, `job_lease`. It is not checked where the system may really
stop: the render phase when every job is done and the store is clean, reviews when everything
is archived, and the parts of `MCRequests`, `MCServices` and `MCLibrary` when all requests are answered.

Symmetry: alike workers, requests, keys or memories are permuted in the runs without liveness
properties; a set permuted has the same role everywhere it occurs in that run (in `revision_numbers` `e1`
and `e2` are edits, pages, processes and selections, `r1` and `r2` workers and names).

Fairness. `GenerationJobLease`: weak fairness of what a running worker does next (it polls
on a timer, and every await has a timeout) and of the expiry of a lease nobody renews.
Nothing is assumed of heartbeats, retries, cancellations or faults; faults are finitely
many. `RenderPublication`: the same, plus that the server decides every transaction, that a
PUT lands or is dropped, and strong fairness of the cleaner's choice of an attempt, because
each poll cleans before it claims and takes candidates in the order of `updated_at`.
`StatusWatch`: weak fairness of each watch's next step (its timers fire and the API answers or
fails); nothing is assumed of the listener or of notifications. `MCProgress` restates both for
the part that moves, `MCLeases` the first for the crew.

### Findings

* `retry_race`: the retry endpoint decides on what it read and updates on
  `status = 'failed'` only. A second failure between the two, of a permanent class, is
  requeued although `docs/history/phase5-design.md:669` rules it out.
* `attempt_limit`: the expiry sweep requeues without regard to `attempt_count`; the limit
  of `routes.ts:1550` binds the retry endpoint only.
* `stale_question`: the clarification question is inserted by a statement without a lease
  condition; `docs/generation/harness-langgraph-migration-plan.md:110` says every
  clarification must match the lease.
* `adopt_candidate`: `acceptMemoryCandidate` inserts the adopted row as active
  (`memory/src/index.ts:1766`) before it supersedes the current one (1789). The unique index
  `memories_project_active_key_unique` allows one active row per key and is not deferrable:
  the insert fails, although `docs/history/phase4-design.md:232` offers adoption as the way to
  resolve a conflict.
* `pending_job`: `handleGenerationTerminal` (`page.tsx:940`) removes the pending key of the
  conversation whichever job succeeded, so that the job of a command is forgotten when the job
  of a message in the same conversation succeeds first;
  `docs/changes/2026-10-03-evidence-correctness-repair/t8-test-report.md:14` says it is kept.
* `lost_table`: the worker of a table whose COMMIT got no answer looks for the snapshot
  (`generation-worker/src/table-intake.ts:284`), finds none because the server has not decided,
  and deletes the result; then the COMMIT takes effect. The comment at line 282 and
  `docs/changes/2026-10-04-lark-intake-recovery/design.md:36` want the object kept. Usually the
  failing UPDATE of the catch waits for the job's row and so for the decision; not if it fails
  too, as it may on the connection that has just failed.
* `first_theme`: readers are told version 1 before there is a row, and the first save is version
  1 again (`chart/src/index.ts:1013`): the second of two authors who were shown the default is
  not refused, although it states its version. `plugins.integration.test.ts:452-455` expects
  200 and 409 of two saves with one version.

## 5. Proofs

`GenerationJobLease_proofs` proves, for every set of jobs, workers and requests, any owner
names and any bounds:

* `TypeCorrect`, `HolderKnowsStage`, `TokensTellApart`, `NeverStranded`,
  `AtMostOneRevision`: a type invariant, and the four safety invariants of `job_lease`;
* `StaleWorkersHarmless`: the action property;
* `Refinement`: the specification implements `JobLifecycle`.

Assumptions: those of `GenerationJobLease` (jobs are numbers, generation and render
workers are different processes, `None` is none of them and no owner name).

The argument. The inductive invariant `Inv` is the conjunction of all of these with two
facts about local state: `HandlerShape` (a handler that selected or holds a job has one,
and works on the stages of its own side) and `RequestShape` (no waiting retry request has
read a Chart Revision). `FencesUnique` makes the lease condition select one handler; with
it, `LeaseImpliesStage` says that this handler knows the row's status, so its writes follow
the edges of the lifecycle although they do not check the status; `NoStrandedJob` and
`PublishedOnce` follow edge by edge. The invariants hold without `RequestShape`; the
refinement does not: a request that had seen a revision would move a failed job to
`rendering`, an edge that `JobLifecycle` does not have. The refinement proof maps each
action to one abstract action (`AdvanceRefines`, `ReleaseRefines`, `ClaimRefines`,
`RecoverRefines`) or a stutter.

`Requests_proofs` proves of `RevisionReview`, for every set of revisions, artifacts and requests and any
bounds, a type invariant and the properties `revision_review` checks of it: `TypeCorrect`, `PublishedStaysApproved`,
`EvidenceInStep`, `LogIsHistory`, `ReadOnlyHolds`, `Refinement`. Assumption: `None` is no
revision. The invariant adds what a transaction knows: `Exclusive` (the artifact lock keeps
transactions of one artifact apart), `Judged` (a request asks for an edge of the table) and
`WrittenIsCurrent` (a transaction that has written still finds the status, the pointer and
the end of the log as it judged them, in a writable lifecycle). With it, each commit is the
atomic move of the policy; without the lock, the second judgement would be as stale as the
first. `AppendRow` and `NextCycle` relate the highest cycle number to the number of rows.

`Progress_proofs` proves, for any edits, creations and render workers, any number of
output formats and any bounds, the three invariants and the refinement that
`revision_numbers` checks of it: `OutputsStayReadable`, `NothingUnlisted`, `PublishedOnce` and
`Refinement` (`CatalogSpec`), with `TypeCorrect`. Assumptions: those of `RenderPublication`; the
set of edits is finite (`EditsAssumption`, there are finitely many jobs), because numbers are
counted. `PublishedOutputsReadable` alone is not inductive: that a cleaner cannot take a
published object follows from how far the ledger is with each attempt. `Inv` adds that workers
make different attempts (`AttemptsApart`, their tokens), that each stage of a worker fits the
row of its attempt (`LedgerFollowsWorkers`), that what was read back or validated is complete
and stays (`AttemptsComplete`), that an undecided COMMIT still finds its running job and its
validated attempt (`CommitFindsRow`), and that the next number counts the edits that reserved
one (`NumbersCounted`): from the last follow the catalog's numbers without gap or double.

It also proves the safety of the status watch, for any jobs and watches: `WatchNeverGoesBack`
rests on `StatusWatchInv`. What has been read of a job is a version it had with the status of
that version, and all but the latest were still running (`Seen`): this holds of what the page
shows (`ShownFits`) and of every answer on its way. A watch knows no less than the page shows
while it is the current one, and an answer is at least as new as what its watch knew when it
asked (`WatchFits`): so an answer with the version that is shown is what is shown, and every
other one is newer. A revision is read after the status, and is there before the job has
succeeded (`RevisionsThere`).

`Memory_proofs` proves, for any processes, memories, messages, candidates and bounds, the
properties that `services` checks of memories. `CheckpointTruthful` and `RevokedStaysUnsent`
rest on `RevocationInv`: the lock of the ledger keeps writers apart (`LockHeld`), every record
up to the checkpoint has its tombstone in the database and in the backup (`RecordsApplied`),
every tombstone there is stands in the ledger once that is initialized (`LedgerComplete`), and
a process behind the gate has compared its database with all acknowledged deletions
(`GatesHold`). The last is what a restore would break if a worker went on without comparing
again. `NothingRevived` and `CandidatesDecidedOnce` rest on `ProjectMemoryInv`: one active row
at most (`OneActive`), an id that is alive or revoked (`AliveOrRevoked`), and that what
a request has read was there (`SeenRowsExist`). Assumption added: there may be a version and an
extraction at least (`MaxVersions` and `MaxExtractions` are not 0). `DeletedStaysUnread` rests on
`MemoryReadsInv`: a version of a memory begins when, or after, the versions before it end, and
not in the future (`HistoriesInOrder`); nothing that was deleted is given back, and a deleted
preference leaves no row (`DeletionsStand`); and what the earlier statements of a read have
collected leaves out what had been deleted when the read began (`SeesDeletions`), which its
answer inherits (`AnswerForgets`). Assumption: the bounds on messages and time are natural
numbers.

`Library_proofs` proves, for any briefs, executors, members, revisions, pages and bounds,
`RevisionsAreTraceable`, `ReadsRespectRoles` and `JobsStayGrounded`. A revision is traceable at
any depth because each row `Holds` by itself and `Descends` from a row before it, and a job
that derives one has kept what it copied from its source (`JobsFit`). A read of several statements
shows a viewer approved revisions only because what it remembers from the first statements is
approved or was so when it was read (`ReadsFit`, `SinceCovers`). A generation is grounded
because a confirmed brief has contents that a confirmation has judged (`BriefsJudged`), whatever
was written over its row before or after, and a question has checked its metric, its snapshot
and its brief by the time it inserts (`EditsFit`). For the proof, the sets of briefs,
references and executors of `RevisionDerivation` are constants (`DerivationAssumption`), and
`Touched` of `AnalysisInputs` moves a row to the end by its position instead of by a filter.

`UsersHaveOneWorkspace` is about accounts, for any processes and bounds. `AccountsInv` says that
members of a workspace are accounts, or the earlier identity until an account has taken over
(`WorkspacesFit`), that whoever is a member of a project is one of its workspace
(`ProjectsFit`), and that requests have made one workspace at most for a user, and so has
provisioning (`OneEach`). This lasts because of what a process knows between its statements
(`TaskFits`, `BootFits`): one that found no workspace still finds none when it inserts, since no
other process is at the same point for the same user (`Alone`). Assumptions: the earlier identity
is no account number, `Nobody` is neither that identity nor a process, and the bound on projects
is a natural number.

`PanelsStayHonest` is about the three panels, for any selections and bounds. Ids of requests
repeat, so what tells the current one is that all other handles are aborted (`InForce`). The
request under the current handle is about what the panel is about, each request has a handle of
its own, and a comment that is still to be appended is later than those shown (`RequestFits`).
Whenever the effect on the revision has run, a panel that waits has such a request
(`ReviewWaits`); between a render and its effect it may wait for one it will drop. For the proof,
`ServeReview` answers with a listing that is described by its order, not computed by a filter.
Assumption: the bound on snapshots is a natural number.

`Requests_proofs` also proves, for any calls, sheets, authors, keys and bounds:

* `ParserContained`: `occupied`, the active call, the thread and the directories agree at every
  stage of a call (`CallsAreContained`), and one call at most is past the queue
  (`OneCallAtATime`). Assumption: the values that stand for no call and for how far close has got are no calls.
* `TableWasSeen`: every look at the document lies between the revision the agent started from
  and the one it is compared with in the end (`LooksAreLater`), so that equal revisions mean
  that nothing changed between; what it took over was shown at that revision
  (`SelectionWasShown`, `TakenAtBase`).
* `NoThemeLost`: the version tells which save made the theme, whoever saves with or without
  stating one (`VersionCounts`), except that the default and the first save both have version
  1, the exception the property states. So a save that passes the comparison has seen what it
  replaces.
* `RepeatedCalls`: requests for jobs and calls that make revisions agree with those they repeat
  (`RepeatedCallsAgree`; `RepeatedRequestsAgree` and `RevisionsCounted` are its two halves). For
  jobs, each stage of a request knows which steps it has done (`StepsFit`), a job is what its
  request asked for (`JobsFit`), and a reply names a job that suits it (`RepliesFit`).
  Assumption: conversations are named differently from requests. For revisions, a row is the
  only one of its job, of its key and of the copy it was made for (`RowFits`), an artifact
  counts its numbers (`Counted`), a reservation is below the next number (`ReservationsFit`),
  and an artifact that is being copied into has no or one row and belongs to one call
  (`CallsFit`): only with that is the head that a copy sets at the end the latest number.

* `AnswersWhatWasAsked`, for tables of any number of rows and both executors. `TransformInv`
  says how far the plan has got (`Progress`): the steps that are left tell what the rows are by
  now, the source rows with their dates in the grain of the question, then one row for each
  group with its total (`Grouped`), then with its change (`Changed`), then in order (`InTime`).
  That the totals of groups are totals of periods rests on dates: a date has one period in a
  grain at most, and the one a version 1 comparison looks for is determined by its month.
  A date that is none of the calendar has no period in any grain, so that a plan which has got
  past `DeriveTime` met none. Assumption: a snapshot is a sequence of rows with one date, valid
  or not, in a cell at most.
* `ChosenFieldStays`. `ChartPlanningInv`: once there is a proposal, a choice that applies is
  the axis and is among the columns the transform yields (`ChoiceIsLaid`), whoever proposed and
  however often the job asks anew; and what the rule proposes compiles (`RuleCompiles`). The
  second half is what a choice could break, since it changes the intent after the rule has
  chosen its columns. Assumption: there may be a job at least (`MaxPlanningJobs` is not 0).

`Services_proofs` proves, for any values of the constants of the eight modules:

* `LateResultsDropped`: each request that can be aborted and is not belongs to the context the
  page is in, and the end of a job is that of the page's job (`BelongsHere`). Every change of
  context runs the cleanups that abort the rest, in the same step.
* `RequestsStayOnRecord` joins the cycle's record and the key. A cycle numbers its invocation
  after the attempts it reads after the claim, without the lease; it enters profiling with that
  number only if it still holds the lease, and then it is greater than all that were used (`Numbered`), so that no two cycles share one (`Distinct`). Hence a cycle alone writes its
  usage row, and what its step says of row and audit (`Knows`, `Audited`) is what it concludes
  (`Concludes`) and what a settled job has on record (`Explained`). For the key: what is bound
  with a key of the workspace is bound with none older than the one known at the claim.
* `PluginsNeverClash`: the enabled plugins are apart, those of revoked installations included,
  and so is the one about to be written, since the project stays locked from the check to the
  write (`Agreed`). A restored installation therefore cannot bring a clash back.
* `StoreStaysInStep`, `OutcomesStayFinal`, `ShownStaysUsable`: what is published is settled, and
  neither a later step of its upload or worker nor a deletion in flight removes its object
  (`InPublication`, `ResultKept`), unless its worker looked for the snapshot too early; what an
  undecided COMMIT may still publish is kept in the same way, and each stage knows
  what is in the store, on its way there and in the audit (`UploadKnows`); and nobody but an upload itself can
  publish the asset it creates before that is ready (`AssetAwaits`), which is why the
  unguarded `markFailed` never meets a ready asset. Reads need only that snapshots are added and
  ready and failed are final. For an earlier upload with the same asset this rests on the asset
  being ready already.

* `TablesLoad`, and with it `StoredDataStaysReadable`, for headers and tables of any size. The
  names of the columns are all different: by induction on the column, each is the first one that
  is free, and there is a free one within as many attempts as there are names to avoid
  (`SomeAreFree`). So a row has as many keys as the table has columns, the profiles are those of
  the columns in their order, and the worker's checks find what they ask for. `TableInv` says of
  a stored table that it is the upload under these names, in an order of them.
* `ManifestsResolve`, and with it `PluginsStayTogether`, for any manifests and any limit on the
  depth of themes. Every visit adds a theme to those being visited, so that the recursion
  defines a function (`NodesExist`), and by induction on how deep a theme may still go, one
  that resolves has a line that does not come back to it, is no longer than the limit and gives
  each setting its nearest value (`ResolvedWell`). A line is the smallest set that holds the
  theme and what its members extend, so that the line of a theme is the theme and the line of
  its parent (`LineOfChild`).
  Proving it showed that the property, as it had been stated, was wrong for a manifest with two
  validators of one id, which is rejected for a reason the property did not name. No manifest
  of the instance was of this kind; now there are some.

Induction. The theorems of the library about induction take an operator, which the provers
cannot instantiate. The proofs use a fact of sets instead: a set of natural numbers that is not
empty has a least element (`LeastOf`, from the library's well-foundedness of finite sets), so
that a set that holds 0 and with each number the next holds them all (`Upwards`). That a
recursive function exists is proved from this, for an index by `Recursion`, for the visits of a
theme by `NodesExist`; what it computes follows by the same induction.

Assumptions of these two: a header and its rows are sequences, and a name is a text with numbers
behind it; a manifest is made of sequences, its themes have ids of `ThemeIds`, a finite
set (an id has 160 characters at most), and the charts to validate are of every kind its
rules speak of (`ChartsFor`: whether a rule *can* be met says nothing if there are no charts),
with a range of numbers that is one (`IsChart`).

Assumptions of the others: the values that stand for none (`NoConversation`, `Unset`, `NoKeyYet`, `NoTheme`,
`NoWorker`, `NoApi`, `NoAsset`, `NoSnapshot`) are outside the sets they are absent from, the maps
`ProjectOf`, `PluginOf` and `CapabilitiesOf` are defined on their sets, earlier uploads are
uploads, and bounds are natural numbers. For the proof, the verdicts of `Validate` are disjoint
cases.

The inductive invariants were checked with TLC before they were proved, on the instances of
the runs or, where those are large, on smaller ones: `WorkspacePageInv` on 140 877 states (one
job), `ChartPlanningInv` on 3 005 934 and `TransformInv` on 1 079 960 (the instances of
`revision_review`), `TableInv` on 6 764, `ManifestInv` on 13 335, `GenerationCycleInv` on 91 028 (three workers), `DataAssetInv` on 954 110 (that of `services`),
and among others `RevisionServiceInv` on 2 035 924 states, `MemoryReadsInv` on 6 182 490,
`AccountsInv` on 2 285 586, `StatusWatchInv` on 2 340 974, `PanelsInv` on 60 501, and those of
`RevisionDerivation`, `ReportReads` and `AnalysisInputs` together on 5 828 633.

Only model-checked:

* the liveness properties: fairness and ENABLED are outside the proof system;
* the runs that expect a violation, whose properties are false.

## 6. Not modelled

Wall-clock durations (lease length, retention, poll intervals) are replaced by "may have
passed". Contents of plans, specifications and objects are abstracted to the result of
their validation. Failures of single database statements are covered where they end a
handler, not where they would be retried by the driver. Components that are not modelled
are listed with their reason in `PROJECT.json`. Of the modelled ones:

* Job endpoints: the demo, the content of clarification decisions, the validation of a parent
  job beyond its inputs.
* Reports: the contents of exports and comparisons, the tokens of shares, lists of evidence
  beyond what they show of a revision.
* Ingestion: an API that dies leaves an asset in processing (`data-assets.ts:500`), and a direct
  request opens its conversation outside the job's transaction (`routes.ts:1400`): both are true
  of the code and no property speaks of them. A queued table whose source was deleted because
  its COMMIT answer was lost fails later. The polling of the table service is one step.
* Memory: what is extracted from a text, ranking and budgets; suppressions without a memory;
  the loss of the session that holds the ledger's advisory lock (`db/src/client.ts:93`). An
  extraction job whose worker dies stays in processing for ever (`memory/src/index.ts:1869`):
  nothing selects it again.
* Plugins: resolution of the context does not look at the project's status, by design. The
  safety scan of a manifest is a recursion over any JSON; version ranges and the payloads of
  templates are verdicts.
* Accounts: hashing and reset of passwords, limits on logins, the identity of development builds.
* Status: a retried job; the page starts a new watch for it.
* The page: uploads, pastes, caches and layout; the note typed in the review panel; the pages
  of memory, plugins and settings, and the API console, which keep no state beyond a list and
  take the last answer that arrives. The composer is open while lists load, so that a message
  may go to the conversation of the project left before (`page.tsx:1082`); no document forbids it.
* Transform plans: filters, limits, assertions on numeric inputs, and years or quarters as dates
  of version 1. Chart
  planning: measures that are no numbers (they fail when added up).
* The Flint adapter turns data and fields into a chart specification; it keeps no state.
