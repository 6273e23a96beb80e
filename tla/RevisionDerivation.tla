-------------------------- MODULE RevisionDerivation --------------------------
(***************************************************************************)
(* Edits, rollbacks and copies of a chart revision.                        *)
(*                                                                         *)
(* The command freezes what the new revision takes over: the brief, the    *)
(* public memory references, the executor and, when only the look changes, *)
(* the finding.  The worker then copies the numbers, or computes them anew *)
(* with the executor of the source, and the publication writes finding and *)
(* numbers side by side.  Leases are in GenerationJobLease, the keys of    *)
(* commands in JobEnqueue.                                                 *)
(***************************************************************************)
EXTENDS Naturals, Sequences

CONSTANTS
    Plans,          \* transform plans
    Measures,       \* fields the vertical axis may show
    Looks,          \* titles, chart types, themes: what changes no number
    OldRevisions,   \* what the first revision may be
    Nothing,        \* no brief, no finding, no executor on record, no output yet
    Briefs,         \* analysis briefs a revision may carry
    References,     \* memories it may refer to
    Executors,      \* versions of the transform executor
    MaxDerivations  \* bound on commands

VARIABLES
    lineage,      \* chart_revisions with their evidence, in the order of publication
    derivations     \* the edit, rollback and copy jobs, in the order of the commands

derivationVars == <<lineage, derivations>>

Unchanged == "unchanged"

\* What a run of an executor on a plan yields, and the sentence built from it.
Execute(executor, plan) == [executor |-> executor, plan |-> plan]
FindingOf(measure, numbers) == [measure |-> measure, numbers |-> numbers]

\* A revision without an execution assembly was computed by the first executor.
ExecutorOf(revision) == IF revision.executor = Nothing THEN "v1" ELSE revision.executor

Computed == [executor : Executors, plan : Plans]
Findings == [measure : Measures, numbers : Computed]
Revisions ==
    [parent : Nat, measure : Measures, look : Looks, plan : Plans, numbers : Computed,
     finding : Findings \cup {Nothing}, brief : Briefs \cup {Nothing}, memory : SUBSET References,
     executor : Executors \cup {Nothing}, verified : BOOLEAN, rowsKept : BOOLEAN,
     archived : BOOLEAN]

\* A generation publishes the numbers it computed, with a finding about them or without.
ASSUME DerivationAssumption ==
    /\ "v1" \in Executors
    /\ OldRevisions \subseteq Revisions
    /\ \A r \in OldRevisions :
          /\ r.parent = 0
          /\ r.numbers = Execute(ExecutorOf(r), r.plan)
          /\ r.finding \in {Nothing, FindingOf(r.measure, r.numbers)}

\* Only references to memories of the project leave the revision.
PublicReferences(references) == references \ {"private"}

\* freezeDerivedProvenance, freezeVisualRevisionInput and freezeDerivedFinding refuse what
\* is not complete.
Freezable(revision) == revision.verified /\ revision.brief # Nothing
VisualInputComplete(revision) == revision.rowsKept
FindingFrozen(revision) == revision.finding # Nothing

\* As if only a new plan changed the numbers shown.
VisualUnlessPlanned(patch) == patch.plan = Unchanged
VisualOnly(patch) == patch.plan = Unchanged /\ patch.measure = Unchanged

Patched(old, new) == IF new = Unchanged THEN old ELSE new
ApplyPatch(spec, patch) ==
    [measure |-> Patched(spec.measure, patch.measure), look |-> Patched(spec.look, patch.look)]

Patches == [plan : Plans \cup {Unchanged}, measure : Measures \cup {Unchanged},
            look : Looks \cup {Unchanged}]
           \ {[plan |-> Unchanged, measure |-> Unchanged, look |-> Unchanged]}
Visual(look) == [plan |-> Unchanged, measure |-> Unchanged, look |-> look]

DerivationInit ==
    /\ \E first \in OldRevisions : lineage = <<first>>
    /\ derivations = <<>>

-----------------------------------------------------------------------------
(* The commands of the API. *)

\* What every job takes over: the brief, public references and the executor.
Frozen(s, operation, patch, finding) ==
    [operation |-> operation, source |-> s, patch |-> patch, finding |-> finding,
     brief |-> lineage[s].brief, memory |-> PublicReferences(lineage[s].memory),
     executor |-> lineage[s].executor, stage |-> "queued", output |-> Nothing]

CommandEdit(s, patch) ==
    LET source == lineage[s] IN
    /\ Len(derivations) < MaxDerivations
    /\ ~source.archived
    /\ Freezable(source)
    /\ VisualOnly(patch) => FindingFrozen(source)
    /\ derivations' = Append(derivations,
           Frozen(s, "edit", patch, IF VisualOnly(patch) THEN source.finding ELSE Nothing))
    /\ UNCHANGED lineage

\* A rollback keeps the title, a copy may have a new name; an archived source will do.
CommandDerive(s, operation, look) ==
    LET source == lineage[s] IN
    /\ Len(derivations) < MaxDerivations
    /\ operation = "rollback" => look = source.look
    /\ Freezable(source)
    /\ VisualInputComplete(source)
    /\ FindingFrozen(source)
    /\ derivations' = Append(derivations, Frozen(s, operation, Visual(look), source.finding))
    /\ UNCHANGED lineage

\* POST .../retry: a job that failed for a passing reason starts over with what it froze.
RetryDerivation(j) ==
    /\ derivations[j].stage = "failed"
    /\ derivations' = [derivations EXCEPT ![j].stage = "queued"]
    /\ UNCHANGED lineage

\* A review archives a revision (RevisionReview has the rest).
ArchiveRevision(r) ==
    /\ ~lineage[r].archived
    /\ lineage' = [lineage EXCEPT ![r].archived = TRUE]
    /\ UNCHANGED derivations

-----------------------------------------------------------------------------
(* The workers. *)

FailsFor(j, stage) == derivations' = [derivations EXCEPT ![j].stage = stage]

\* Only the look changes: plan, numbers and rows are those of the source.
CopyOutput(source, patch) ==
    [spec |-> ApplyPatch(source, patch), plan |-> source.plan, numbers |-> source.numbers]
\* The plan runs again over the frozen snapshot, on the executor that served the source.
ComputeOutput(source, patch) ==
    LET plan == Patched(source.plan, patch.plan) IN
    [spec |-> ApplyPatch(source, patch), plan |-> plan,
     numbers |-> Execute(ExecutorOf(source), plan)]

\* processDerivedJob, and the visual half of processEditJob.
PrepareVisual(j) ==
    LET job == derivations[j]
        source == lineage[job.source] IN
    /\ job.stage = "queued"
    /\ VisualOnly(job.patch)
    /\ UNCHANGED lineage
    /\ \/ /\ Freezable(source) /\ VisualInputComplete(source)
          /\ derivations' = [derivations EXCEPT ![j].stage = "rendering",
                                                ![j].output = CopyOutput(source, job.patch)]
       \/ /\ ~(Freezable(source) /\ VisualInputComplete(source))
          /\ FailsFor(j, "refused")
       \/ FailsFor(j, "refused")  \* the changed chart is not valid

\* The other half of processEditJob.
PrepareComputed(j) ==
    LET job == derivations[j]
        source == lineage[job.source] IN
    /\ job.stage = "queued"
    /\ ~VisualOnly(job.patch)
    /\ UNCHANGED lineage
    /\ \/ /\ Freezable(source)
          /\ derivations' = [derivations EXCEPT ![j].stage = "rendering",
                                                ![j].output = ComputeOutput(source, job.patch)]
       \/ FailsFor(j, "refused")  \* the plan or the chart is not valid
       \/ FailsFor(j, "failed")   \* the snapshot cannot be read

\* The finding of a derived revision: frozen, or built from the numbers.
FindingFor(job) ==
    IF job.operation = "edit" /\ ~VisualOnly(job.patch)
    THEN FindingOf(job.output.spec.measure, job.output.numbers)
    ELSE job.finding

\* commitCompletedRevision: revision and evidence in one transaction.
PublishDerived(j) ==
    LET job == derivations[j]
        source == lineage[job.source] IN
    /\ job.stage = "rendering"
    /\ Freezable(source)
    /\ lineage' = Append(lineage,
           [parent |-> job.source, measure |-> job.output.spec.measure,
            look |-> job.output.spec.look, plan |-> job.output.plan,
            numbers |-> job.output.numbers, finding |-> FindingFor(job),
            brief |-> source.brief, memory |-> PublicReferences(source.memory),
            executor |-> source.executor, verified |-> TRUE, rowsKept |-> TRUE,
            archived |-> FALSE])
    /\ derivations' = [derivations EXCEPT ![j].stage = "succeeded"]

\* Rendering or storing fails.
FailRendering(j) ==
    /\ derivations[j].stage = "rendering"
    /\ FailsFor(j, "failed")
    /\ UNCHANGED lineage

DerivationNext ==
    \/ \E s \in DOMAIN lineage :
        \/ \E patch \in Patches : CommandEdit(s, patch)
        \/ \E operation \in {"rollback", "copy"}, look \in Looks : CommandDerive(s, operation, look)
        \/ ArchiveRevision(s)
    \/ \E j \in DOMAIN derivations :
        \/ PrepareVisual(j) \/ PrepareComputed(j) \/ PublishDerived(j)
        \/ FailRendering(j) \/ RetryDerivation(j)

DerivationSpec == DerivationInit /\ [][DerivationNext]_derivationVars

-----------------------------------------------------------------------------
(* What must hold. *)

\* However long the chain of edits, rollbacks and copies, a revision can be traced: its
\* numbers are those its plan gives on its executor, its finding is the one its measure and
\* numbers give, and it keeps the brief of the revision it came from and no private reference.
\* About findingForGenerationJob, freezeDerivedProvenance and processEditJob.
DerivedIsTraceable ==
    \A r \in DOMAIN lineage :
        LET revision == lineage[r] IN
        /\ revision.numbers = Execute(ExecutorOf(revision), revision.plan)
        /\ revision.parent # 0 =>
              /\ revision.finding = FindingOf(revision.measure, revision.numbers)
              /\ revision.brief = lineage[revision.parent].brief
              /\ "private" \notin revision.memory
=============================================================================
