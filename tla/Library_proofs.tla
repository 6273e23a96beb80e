---------------------------- MODULE Library_proofs ----------------------------
(***************************************************************************)
(* What is proved of the parts that MCLibrary checks side by side, for any *)
(* members, revisions, pages, accounts and bounds: RevisionDerivation, how *)
(* the revisions of a report are derived from one another; ReportReads,    *)
(* who is shown them; AnalysisInputs, what the generations behind them are *)
(* based on; Accounts, whose workspaces all of this is in; and Panels,     *)
(* what the page shows of it.                                              *)
(***************************************************************************)
EXTENDS RevisionDerivation, ReportReads, AnalysisInputs, Accounts, Panels,
        SequenceTheorems, FiniteSetTheorems, WellFoundedInduction, TLAPS

-----------------------------------------------------------------------------
(* Sequences *)

\* What a sequence holds.
LEMMA PlacesOf ==
    ASSUME NEW S, NEW s \in Seq(S), NEW i \in DOMAIN s
    PROVE  s[i] \in S
  BY LenProperties

\* Appending adds one place and keeps the others.
LEMMA Appended ==
    ASSUME NEW S, NEW s \in Seq(S), NEW x \in S
    PROVE  LET t == Append(s, x) IN
           /\ t \in Seq(S) /\ Len(s) \in Nat
           /\ DOMAIN s = 1..Len(s) /\ DOMAIN t = DOMAIN s \cup {Len(s) + 1}
           /\ \A i \in DOMAIN s : t[i] = s[i] /\ s[i] \in S
           /\ t[Len(s) + 1] = x
<1>1. Len(s) \in Nat /\ DOMAIN s = 1..Len(s) /\ \A i \in DOMAIN s : s[i] \in S
  BY LenProperties
<1>2. Append(s, x) \in Seq(S) /\ Len(Append(s, x)) = Len(s) + 1
  BY AppendProperties
<1>3. DOMAIN Append(s, x) = 1..(Len(s) + 1)
  BY <1>2, LenProperties
<1> QED
  BY <1>1, <1>2, <1>3, AppendProperties

\* Changing one place keeps the others.
LEMMA Changed ==
    ASSUME NEW S, NEW s \in Seq(S), NEW k \in DOMAIN s, NEW x \in S
    PROVE  LET t == [s EXCEPT ![k] = x] IN
           /\ t \in Seq(S) /\ DOMAIN t = DOMAIN s /\ Len(t) = Len(s)
           /\ \A i \in DOMAIN s : t[i] = (IF i = k THEN x ELSE s[i]) /\ s[i] \in S
<1>1. Len(s) \in Nat /\ DOMAIN s = 1..Len(s) /\ \A i \in DOMAIN s : s[i] \in S
  BY LenProperties
<1> QED
  BY <1>1, ExceptSeq

-----------------------------------------------------------------------------
(* Derived revisions: the inductive invariant *)

Outputs == [spec : [measure : Measures, look : Looks], plan : Plans, numbers : Computed]
AnyPatch == [plan : Plans \cup {Unchanged}, measure : Measures \cup {Unchanged},
             look : Looks \cup {Unchanged}]
Derivations ==
    [operation : {"edit", "rollback", "copy"}, source : Nat, patch : AnyPatch,
     finding : Findings \cup {Nothing}, brief : Briefs \cup {Nothing}, memory : SUBSET References,
     executor : Executors \cup {Nothing},
     stage : {"queued", "rendering", "succeeded", "failed", "refused"},
     output : Outputs \cup {Nothing}]

DerivationTypeOK ==
    /\ lineage \in Seq(Revisions)
    /\ derivations \in Seq(Derivations)

\* A revision holds the numbers of its plan and the finding about them, if it has one; ...
Holds(revision) ==
    /\ revision.numbers = Execute(ExecutorOf(revision), revision.plan)
    /\ revision.finding \in {Nothing, FindingOf(revision.measure, revision.numbers)}

\* ... one that is derived has, and comes from a revision there is.
Descends(r) ==
    LET revision == lineage[r] IN
    revision.parent # 0 =>
        /\ revision.parent \in DOMAIN lineage
        /\ revision.finding = FindingOf(revision.measure, revision.numbers)
        /\ revision.brief = lineage[revision.parent].brief
        /\ "private" \notin revision.memory

RevisionsHold == \A r \in DOMAIN lineage : Holds(lineage[r]) /\ Descends(r)

\* What a job makes of its source.
OutputOf(source, patch) ==
    IF VisualOnly(patch) THEN CopyOutput(source, patch) ELSE ComputeOutput(source, patch)

\* A job that changes only the look froze the finding of its source; one that is rendering
\* carries what its patch makes of the source.
FitsSource(source, derived) ==
    /\ derived.operation # "edit" => VisualOnly(derived.patch)
    /\ VisualOnly(derived.patch) => derived.finding = FindingOf(source.measure, source.numbers)
    /\ derived.stage = "rendering" => derived.output = OutputOf(source, derived.patch)

JobsFit ==
    \A j \in DOMAIN derivations :
        /\ derivations[j].source \in DOMAIN lineage
        /\ FitsSource(lineage[derivations[j].source], derivations[j])

DerivationInv == DerivationTypeOK /\ RevisionsHold /\ JobsFit

USE DerivationAssumption
USE DEF FailsFor

\* Any first revision holds its numbers.
LEMMA DerivationStart == DerivationInit => DerivationInv
<1> SUFFICES ASSUME DerivationInit PROVE DerivationInv
  OBVIOUS
<1>1. PICK first \in OldRevisions : lineage = <<first>>
  BY DEF DerivationInit
<1>2. first \in Revisions /\ first.parent = 0 /\ Holds(first)
  BY DEF Holds
<1>3. DerivationTypeOK /\ DOMAIN lineage = {1} /\ lineage[1] = first /\ DOMAIN derivations = {}
  BY <1>1, <1>2 DEF DerivationInit, DerivationTypeOK
<1> QED
  BY <1>2, <1>3 DEF DerivationInv, RevisionsHold, Descends, JobsFit

\* What jobs take from a revision but its archive flag.
Alike(a, b) == /\ a.parent = b.parent /\ a.measure = b.measure /\ a.look = b.look
               /\ a.plan = b.plan /\ a.numbers = b.numbers /\ a.finding = b.finding
               /\ a.brief = b.brief /\ a.memory = b.memory /\ a.executor = b.executor

\* Jobs go on to fit their source, and revisions their own numbers, when revisions are
\* added or archived.
LEMMA AlikeFits ==
    ASSUME NEW a, NEW b, Alike(a, b)
    PROVE  /\ Holds(a) => Holds(b)
           /\ \A d : FitsSource(a, d) => FitsSource(b, d)
  BY DEF Alike, Holds, FitsSource, OutputOf, CopyOutput, ComputeOutput, ApplyPatch, ExecutorOf

\* Archiving changes nothing else of a revision.
LEMMA ArchivedIsAlike ==
    ASSUME DerivationTypeOK, NEW r \in DOMAIN lineage, ArchiveRevision(r)
    PROVE  /\ lineage' \in Seq(Revisions) /\ DOMAIN lineage' = DOMAIN lineage
           /\ \A k \in DOMAIN lineage : Alike(lineage[k], lineage'[k])
<1> DEFINE x == [lineage[r] EXCEPT !.archived = TRUE]
<1>1. lineage[r] \in Revisions
  BY LenProperties DEF DerivationTypeOK
<1>2. x \in Revisions /\ Alike(lineage[r], x)
  BY <1>1 DEF Revisions, Alike
<1>3. lineage' = [lineage EXCEPT ![r] = x]
  BY DEF ArchiveRevision
<1> HIDE DEF x
<1>4. /\ lineage' \in Seq(Revisions) /\ DOMAIN lineage' = DOMAIN lineage
      /\ \A k \in DOMAIN lineage : lineage'[k] = IF k = r THEN x ELSE lineage[k]
  BY <1>2, <1>3, Changed DEF DerivationTypeOK
<1> QED
  BY <1>2, <1>4 DEF Alike

\* As long as revisions stay alike, those there are hold and jobs fit.
LEMMA AlikeInv ==
    ASSUME DerivationInv, DOMAIN lineage \subseteq DOMAIN lineage',
           \A k \in DOMAIN lineage : Alike(lineage[k], lineage'[k])
    PROVE  /\ \A k \in DOMAIN lineage : Holds(lineage'[k]) /\ Descends(k)'
           /\ \A j \in DOMAIN derivations :
                 /\ derivations[j].source \in DOMAIN lineage'
                 /\ FitsSource(lineage'[derivations[j].source], derivations[j])
<1>1. ASSUME NEW k \in DOMAIN lineage PROVE Holds(lineage'[k]) /\ Descends(k)'
  <2>1. Holds(lineage[k]) /\ Descends(k) /\ Alike(lineage[k], lineage'[k])
    BY <1>1 DEF DerivationInv, RevisionsHold
  <2>2. Holds(lineage'[k])
    BY <2>1, AlikeFits
  <2>3. lineage[k].parent # 0 => Alike(lineage[lineage[k].parent], lineage'[lineage[k].parent])
    BY <2>1 DEF Descends
  <2> QED
    BY <2>1, <2>2, <2>3 DEF Descends, Alike
<1>2. ASSUME NEW j \in DOMAIN derivations
      PROVE  /\ derivations[j].source \in DOMAIN lineage'
             /\ FitsSource(lineage'[derivations[j].source], derivations[j])
  <2>1. /\ derivations[j].source \in DOMAIN lineage
        /\ FitsSource(lineage[derivations[j].source], derivations[j])
    BY <1>2 DEF DerivationInv, JobsFit
  <2> QED
    BY <2>1, AlikeFits
<1> QED
  BY <1>1, <1>2

\* A command adds a job.
LEMMA StepCommand ==
    ASSUME DerivationInv, UNCHANGED lineage, NEW d \in Derivations,
           derivations' = Append(derivations, d),
           d.source \in DOMAIN lineage, FitsSource(lineage[d.source], d)
    PROVE  DerivationInv'
<1>1. /\ derivations' \in Seq(Derivations)
      /\ DOMAIN derivations' = DOMAIN derivations \cup {Len(derivations) + 1}
      /\ \A i \in DOMAIN derivations : derivations'[i] = derivations[i]
      /\ derivations'[Len(derivations) + 1] = d
  BY Appended DEF DerivationInv, DerivationTypeOK
<1>2. JobsFit'
  BY <1>1 DEF DerivationInv, JobsFit
<1>3. RevisionsHold' /\ DerivationTypeOK'
  BY <1>1 DEF DerivationInv, DerivationTypeOK, RevisionsHold, Descends
<1> QED
  BY <1>2, <1>3 DEF DerivationInv

\* A worker takes a job one step on, and its job still fits.
LEMMA StepJob ==
    ASSUME DerivationInv, UNCHANGED lineage, NEW j \in DOMAIN derivations, NEW d \in Derivations,
           derivations' = [derivations EXCEPT ![j] = d],
           d.source \in DOMAIN lineage, FitsSource(lineage[d.source], d)
    PROVE  DerivationInv'
<1>1. /\ derivations' \in Seq(Derivations) /\ DOMAIN derivations' = DOMAIN derivations
      /\ \A i \in DOMAIN derivations : derivations'[i] = IF i = j THEN d ELSE derivations[i]
  BY Changed DEF DerivationInv, DerivationTypeOK
<1>2. JobsFit'
  BY <1>1 DEF DerivationInv, JobsFit
<1>3. RevisionsHold' /\ DerivationTypeOK'
  BY <1>1 DEF DerivationInv, DerivationTypeOK, RevisionsHold, Descends
<1> QED
  BY <1>2, <1>3 DEF DerivationInv

\* What is known of a job and its source.
LEMMA JobFacts ==
    ASSUME DerivationInv, NEW j \in DOMAIN derivations
    PROVE  /\ derivations[j] \in Derivations /\ derivations[j].source \in DOMAIN lineage
           /\ lineage[derivations[j].source] \in Revisions
           /\ Holds(lineage[derivations[j].source])
           /\ FitsSource(lineage[derivations[j].source], derivations[j])
  BY LenProperties DEF DerivationInv, DerivationTypeOK, JobsFit, RevisionsHold

\* An edit freezes the finding of its source when it changes only the look.
LEMMA EditFitsSource ==
    ASSUME DerivationInv, NEW s \in DOMAIN lineage, NEW patch \in Patches, CommandEdit(s, patch)
    PROVE  DerivationInv'
<1> DEFINE source == lineage[s]
           finding == IF VisualOnly(patch) THEN source.finding ELSE Nothing
           d == Frozen(s, "edit", patch, finding)
<1>1. source \in Revisions /\ Holds(source) /\ s \in Nat
  BY LenProperties DEF DerivationInv, DerivationTypeOK, RevisionsHold
<1>2. /\ UNCHANGED lineage /\ derivations' = Append(derivations, d)
      /\ VisualOnly(patch) => source.finding # Nothing
  BY DEF CommandEdit, FindingFrozen
<1>3. patch \in AnyPatch /\ finding \in Findings \cup {Nothing}
  BY <1>1 DEF Patches, AnyPatch, Revisions
<1>4. d \in Derivations
  BY <1>1, <1>3 DEF Frozen, Derivations, PublicReferences, Revisions
<1>5. d.source = s /\ FitsSource(source, d)
  BY <1>1, <1>2 DEF Frozen, FitsSource, Holds
<1> HIDE DEF d
<1> QED
  BY <1>2, <1>4, <1>5, StepCommand

\* Rollbacks and copies change only the look, and freeze the finding of their source.
LEMMA DeriveFitsSource ==
    ASSUME DerivationInv, NEW s \in DOMAIN lineage, NEW operation \in {"rollback", "copy"},
           NEW look \in Looks, CommandDerive(s, operation, look)
    PROVE  DerivationInv'
<1> DEFINE source == lineage[s]
           d == Frozen(s, operation, Visual(look), source.finding)
<1>1. source \in Revisions /\ Holds(source) /\ s \in Nat
  BY LenProperties DEF DerivationInv, DerivationTypeOK, RevisionsHold
<1>2. /\ UNCHANGED lineage /\ derivations' = Append(derivations, d)
      /\ source.finding # Nothing
  BY DEF CommandDerive, FindingFrozen
<1>3. Visual(look) \in AnyPatch /\ VisualOnly(Visual(look))
  BY DEF Visual, AnyPatch, VisualOnly
<1>4. d \in Derivations
  BY <1>1, <1>3 DEF Frozen, Derivations, PublicReferences, Revisions
<1>5. d.source = s /\ FitsSource(source, d)
  BY <1>1, <1>2, <1>3 DEF Frozen, FitsSource, Holds
<1> HIDE DEF d
<1> QED
  BY <1>2, <1>4, <1>5, StepCommand

\* A job that ends without a revision, or starts over, renders nothing.
LEMMA StagesFit ==
    ASSUME DerivationInv, UNCHANGED lineage, NEW j \in DOMAIN derivations,
           NEW stage \in {"queued", "succeeded", "failed", "refused"}, FailsFor(j, stage)
    PROVE  DerivationInv'
<1> DEFINE d == [derivations[j] EXCEPT !.stage = stage]
<1>1. derivations' = [derivations EXCEPT ![j] = d]
  OBVIOUS
<1>2. d \in Derivations /\ d.source = derivations[j].source
  BY JobFacts DEF Derivations
<1>3. FitsSource(lineage[d.source], d)
  BY JobFacts DEF Derivations, FitsSource
<1> HIDE DEF d
<1> QED
  BY <1>1, <1>2, <1>3, JobFacts, StepJob

\* A worker prepares what the patch makes of the source.
LEMMA OutputsFit ==
    ASSUME DerivationInv, UNCHANGED lineage, NEW j \in DOMAIN derivations,
           NEW o, o = OutputOf(lineage[derivations[j].source], derivations[j].patch),
           derivations' = [derivations EXCEPT ![j].stage = "rendering", ![j].output = o]
    PROVE  DerivationInv'
<1> DEFINE source == lineage[derivations[j].source]
           d == [derivations[j] EXCEPT !.stage = "rendering", !.output = o]
<1>1. derivations' = [derivations EXCEPT ![j] = d]
  BY JobFacts DEF DerivationInv, DerivationTypeOK
<1>2. /\ derivations[j] \in Derivations /\ source \in Revisions /\ Holds(source)
      /\ FitsSource(source, derivations[j])
  BY JobFacts
<1>3. derivations[j].patch \in AnyPatch
  BY <1>2 DEF Derivations
<1>4. ExecutorOf(source) \in Executors
  BY <1>2 DEF ExecutorOf, Revisions
<1> HIDE DEF source
<1>5. o \in Outputs
  BY <1>2, <1>3, <1>4 DEF OutputOf, CopyOutput, ComputeOutput, ApplyPatch, Patched, Outputs,
     AnyPatch,
     Revisions, Computed, Execute, source
<1>6. d \in Derivations /\ d.source = derivations[j].source
  BY <1>2, <1>5 DEF Derivations
<1>7. FitsSource(source, d)
  BY <1>2 DEF Derivations, FitsSource, source
<1> HIDE DEF d
<1> QED
  BY <1>1, <1>6, <1>7, JobFacts, StepJob DEF source

\* A publication adds a revision that holds its numbers and descends from its source.
LEMMA PublishFits ==
    ASSUME DerivationInv, NEW j \in DOMAIN derivations, PublishDerived(j)
    PROVE  DerivationInv'
<1> DEFINE derived == derivations[j]
           source == lineage[derived.source]
           new == [parent |-> derived.source, measure |-> derived.output.spec.measure,
                   look |-> derived.output.spec.look, plan |-> derived.output.plan,
                   numbers |-> derived.output.numbers, finding |-> FindingFor(derived),
                   brief |-> source.brief, memory |-> PublicReferences(source.memory),
                   executor |-> source.executor, verified |-> TRUE, rowsKept |-> TRUE,
                   archived |-> FALSE]
<1>1. /\ derived \in Derivations /\ derived.source \in DOMAIN lineage
      /\ source \in Revisions /\ Holds(source) /\ FitsSource(source, derived)
  BY JobFacts
<1>2. lineage' = Append(lineage, new) /\ derived.stage = "rendering"
      /\ derivations' = [derivations EXCEPT ![j].stage = "succeeded"]
  BY DEF PublishDerived
<1>3. derived.output = OutputOf(source, derived.patch)
  BY <1>1, <1>2 DEF FitsSource
<1>4. derived.source \in Nat /\ derived.patch \in AnyPatch
  BY <1>1 DEF Derivations
<1>5. ExecutorOf(source) \in Executors
  BY <1>1 DEF ExecutorOf, Revisions
<1>6. /\ new.measure = Patched(source.measure, derived.patch.measure)
      /\ new.look = Patched(source.look, derived.patch.look)
      /\ VisualOnly(derived.patch) => new.plan = source.plan /\ new.numbers = source.numbers
      /\ ~VisualOnly(derived.patch) =>
            /\ new.plan = Patched(source.plan, derived.patch.plan)
            /\ new.numbers = Execute(ExecutorOf(source), new.plan)
  BY <1>3 DEF OutputOf, CopyOutput, ComputeOutput, ApplyPatch
<1>7. new.executor = source.executor /\ ExecutorOf(new) = ExecutorOf(source)
  BY DEF ExecutorOf
<1>8. new.numbers = Execute(ExecutorOf(new), new.plan)
  BY <1>1, <1>6, <1>7 DEF Holds
<1>9. new.finding = FindingOf(new.measure, new.numbers)
  BY <1>1, <1>6 DEF FindingFor, FitsSource, VisualOnly, Patched
<1>10. new.measure \in Measures /\ new.look \in Looks /\ new.plan \in Plans
  BY <1>1, <1>4, <1>6 DEF Patched, AnyPatch, Revisions
<1>11. new.numbers \in Computed
  BY <1>5, <1>7, <1>8, <1>10 DEF Computed, Execute
<1>12. new.finding \in Findings
  BY <1>9, <1>10, <1>11 DEF Findings, FindingOf
<1>13. /\ source.brief \in Briefs \cup {Nothing} /\ source.executor \in Executors \cup {Nothing}
       /\ PublicReferences(source.memory) \subseteq References \ {"private"}
  BY <1>1 DEF Revisions, PublicReferences
<1>14. new \in Revisions
  BY <1>4, <1>10, <1>11, <1>12, <1>13 DEF Revisions
<1>15. /\ new.parent = derived.source /\ new.brief = source.brief /\ "private" \notin new.memory
  BY <1>13
<1> HIDE DEF new
<1>16. PICK n : /\ lineage' \in Seq(Revisions) /\ DOMAIN lineage' = DOMAIN lineage \cup {n}
                /\ \A k \in DOMAIN lineage : lineage'[k] = lineage[k]
                /\ lineage'[n] = new
  <2>1. lineage \in Seq(Revisions)
    BY DEF DerivationInv, DerivationTypeOK
  <2> QED
    BY <1>2, <1>14, <2>1, Appended
<1>17. \A k \in DOMAIN lineage : Alike(lineage[k], lineage'[k])
  BY <1>16 DEF Alike
<1>18. RevisionsHold'
  <2>1. Holds(new)
    BY <1>8, <1>9 DEF Holds
  <2>2. Descends(n)'
    <3>1. lineage'[derived.source].brief = source.brief
      BY <1>1, <1>16
    <3> QED
      BY <1>1, <1>9, <1>15, <1>16, <3>1 DEF Descends
  <2> QED
    BY <2>1, <2>2, <1>16, <1>17, AlikeInv DEF RevisionsHold
<1>19. derivations' \in Seq(Derivations) /\ JobsFit'
  <2> DEFINE d == [derived EXCEPT !.stage = "succeeded"]
  <2>1. d \in Derivations /\ d.source = derived.source /\ FitsSource(source, d)
    BY <1>1 DEF Derivations, FitsSource
  <2>2. derivations' = [derivations EXCEPT ![j] = d]
    BY <1>2
  <2> HIDE DEF d
  <2>3. /\ derivations' \in Seq(Derivations) /\ DOMAIN derivations' = DOMAIN derivations
        /\ \A i \in DOMAIN derivations : derivations'[i] = IF i = j THEN d ELSE derivations[i]
    BY <2>1, <2>2, Changed DEF DerivationInv, DerivationTypeOK
  <2> QED
    BY <2>1, <2>3, <1>1, <1>16, <1>17 DEF JobsFit, DerivationInv
<1> QED
  BY <1>16, <1>18, <1>19 DEF DerivationInv, DerivationTypeOK

\* Archiving a revision leaves everything that was derived from it as it is.
LEMMA ArchiveFits ==
    ASSUME DerivationInv, NEW r \in DOMAIN lineage, ArchiveRevision(r)
    PROVE  DerivationInv'
<1>1. /\ lineage' \in Seq(Revisions) /\ DOMAIN lineage' = DOMAIN lineage
      /\ \A k \in DOMAIN lineage : Alike(lineage[k], lineage'[k])
  BY ArchivedIsAlike DEF DerivationInv
<1>2. UNCHANGED derivations
  BY DEF ArchiveRevision
<1> QED
  BY <1>1, <1>2, AlikeInv DEF DerivationInv, DerivationTypeOK, RevisionsHold, JobsFit

\* The invariant is inductive.
LEMMA DerivationStep == DerivationInv /\ [DerivationNext]_derivationVars => DerivationInv'
<1> SUFFICES ASSUME DerivationInv, [DerivationNext]_derivationVars PROVE DerivationInv'
  OBVIOUS
<1>1. CASE UNCHANGED derivationVars
  BY <1>1 DEF derivationVars, DerivationInv, DerivationTypeOK, RevisionsHold, Descends, JobsFit
<1>2. ASSUME NEW j \in DOMAIN derivations, PrepareVisual(j) PROVE DerivationInv'
  <2>1. \/ FailsFor(j, "refused")
        \/ derivations' = [derivations EXCEPT ![j].stage = "rendering", ![j].output =
              OutputOf(lineage[derivations[j].source], derivations[j].patch)]
    BY <1>2 DEF PrepareVisual, OutputOf
  <2>2. UNCHANGED lineage
    BY <1>2 DEF PrepareVisual
  <2> QED
    BY <1>2, <2>1, <2>2, StagesFit, OutputsFit
<1>3. ASSUME NEW j \in DOMAIN derivations, PrepareComputed(j) PROVE DerivationInv'
  <2>1. \/ FailsFor(j, "refused") \/ FailsFor(j, "failed")
        \/ derivations' = [derivations EXCEPT ![j].stage = "rendering", ![j].output =
              OutputOf(lineage[derivations[j].source], derivations[j].patch)]
    BY <1>3 DEF PrepareComputed, OutputOf
  <2>2. UNCHANGED lineage
    BY <1>3 DEF PrepareComputed
  <2> QED
    BY <1>3, <2>1, <2>2, StagesFit, OutputsFit
<1>4. ASSUME NEW j \in DOMAIN derivations, FailRendering(j) \/ RetryDerivation(j)
      PROVE  DerivationInv'
  BY <1>4, StagesFit DEF FailRendering, RetryDerivation
<1>5. ASSUME NEW j \in DOMAIN derivations, PublishDerived(j) PROVE DerivationInv'
  BY <1>5, PublishFits
<1>6. ASSUME NEW s \in DOMAIN lineage, NEW patch \in Patches, CommandEdit(s, patch)
      PROVE  DerivationInv'
  BY <1>6, EditFitsSource
<1>7. ASSUME NEW s \in DOMAIN lineage, NEW operation \in {"rollback", "copy"}, NEW look \in Looks,
             CommandDerive(s, operation, look)
      PROVE  DerivationInv'
  BY <1>7, DeriveFitsSource
<1>8. ASSUME NEW s \in DOMAIN lineage, ArchiveRevision(s) PROVE DerivationInv'
  BY <1>8, ArchiveFits
<1> QED
  BY <1>1, <1>2, <1>3, <1>4, <1>5, <1>6, <1>7, <1>8 DEF DerivationNext

\* The invariant of derived revisions holds.
THEOREM DerivationInvariance == DerivationSpec => []DerivationInv
  BY DerivationStart, DerivationStep, PTL DEF DerivationSpec

\* However long the chain of edits, rollbacks and copies, a revision can be traced: its
\* numbers to its plan and executor, its finding to its numbers, its brief to its origin.
THEOREM RevisionsAreTraceable == DerivationSpec => []DerivedIsTraceable
<1>1. DerivationInv => DerivedIsTraceable
  BY DEF DerivationInv, RevisionsHold, Holds, Descends, DerivedIsTraceable
<1> QED
  BY <1>1, DerivationInvariance, PTL
-----------------------------------------------------------------------------
(* Reads of reports: the inductive invariant *)

ReportStatuses == {"draft", "in_review", "approved", "changes_requested", "archived"}
OnRevision == {"revision", "compare", "export", "comment", "share", "job", "output"}
OnAnything == {"none", "list", "artifact", "archive", "open", "evidence"}

ReportReadsTypeOK ==
    /\ roleOf \in Casts
    /\ reportStatus \in [Reports -> ReportStatuses]
    /\ publishedReport \in Reports \cup {Absent}
    /\ artifactStatus \in {"active", "archived"}
    /\ shares \in Seq([on : Reports, live : BOOLEAN])
    /\ comments \in Seq([on : Reports, author : Members, resolvedBy : Members \cup {Absent}])
    /\ ask \in [by : Members \cup {Absent}, op : OnRevision \cup OnAnything,
                on : Reports \cup {Absent}, read : {Absent} \cup SUBSET Reports]
    /\ shown \subseteq Reports /\ approvedSince \subseteq Reports

\* What the artifact publishes is approved: it cannot be archived before another takes its place.
PointerApproved == Pointer \subseteq Approved

\* While a request runs, every approved revision counts as approved since it began.
SinceCovers == ~NoAsk => Approved \subseteq approvedSince

\* What a request has read was approved when it was read, for a viewer, and it has read
\* nothing for an outsider; a share is read before anybody is asked.
ReadsFit ==
    /\ ask.op \in OnRevision => ask.on \in Reports
    /\ \A u \in Members \cap {ask.by} :
          HasRead(u, ask.op) /\ ask.op # "open" =>
              /\ roleOf[u] # "outsider"
              /\ Viewer(u) => ask.read \subseteq approvedSince

ReportReadsInv ==
    ReportReadsTypeOK /\ PointerApproved /\ SinceCovers /\ ReadsFit /\ ViewersSeeApproved

USE ReportReadsAssumption

\* Before the first request, what is approved is what is published.
LEMMA ReportReadsStart == ReportReadsInit => ReportReadsInv
<1> SUFFICES ASSUME ReportReadsInit PROVE ReportReadsInv
  OBVIOUS
<1>1. ReportReadsTypeOK
  BY DEF ReportReadsInit, ReportReadsTypeOK, ReportStatuses, IdleAfter, OnAnything, OnRevision
<1> QED
  BY <1>1 DEF ReportReadsInit, ReportReadsInv, PointerApproved, SinceCovers, NoAsk, ReadsFit,
     HasRead,
     IdleAfter, OnRevision, ViewersSeeApproved

\* The fields of a request.
LEMMA AskFacts ==
    ASSUME ReportReadsTypeOK
    PROVE  /\ ask = [by |-> ask.by, op |-> ask.op, on |-> ask.on, read |-> ask.read]
           /\ ask.by \in Members \cup {Absent} /\ ask.op \in OnRevision \cup OnAnything
           /\ ask.on \in Reports \cup {Absent} /\ ask.read \in {Absent} \cup SUBSET Reports
  BY DEF ReportReadsTypeOK

\* A review changes what is approved, and counts what it approves while a request runs.
LEMMA StepReview ==
    ASSUME ReportReadsInv, UNCHANGED roleOf, NEW r \in Reports, NEW next \in ReportStatuses,
           Review(r, next)
    PROVE  ReportReadsInv'
<1> USE DEF ReportReadsInv
<1>1. ReportReadsTypeOK'
  BY DEF Review, ReportReadsTypeOK
<1>2. \A k \in Reports : reportStatus'[k] = IF k = r THEN next ELSE reportStatus[k]
  BY DEF Review, ReportReadsTypeOK
<1>3. PointerApproved'
  <2>1. CASE next = "approved"
    BY <1>2, <2>1 DEF Review, PointerApproved, Pointer, Approved
  <2>2. CASE next # "approved"
    <3>1. next = "archived" \/ reportStatus[r] # "approved"
      BY <2>2 DEF Review, Transitions, ReportReadsTypeOK, ReportStatuses
    <3>2. publishedReport' = publishedReport /\ (publishedReport # Absent => publishedReport # r)
      BY <2>2, <3>1 DEF Review, PointerApproved, Pointer, Approved
    <3> QED
      BY <1>2, <3>2 DEF PointerApproved, Pointer, Approved
  <2> QED
    BY <2>1, <2>2
<1>4. SinceCovers' /\ approvedSince \subseteq approvedSince'
  BY <1>2 DEF Review, SinceCovers, Approved, NoAsk
<1>5. ReadsFit' /\ ViewersSeeApproved'
  BY <1>4 DEF Review, ReadsFit, ViewersSeeApproved, Viewer, HasRead
<1> QED
  BY <1>1, <1>3, <1>4, <1>5

\* A request begins with nothing read and nothing shown.
LEMMA StepAsk ==
    ASSUME ReportReadsInv, UNCHANGED roleOf, NEW u \in Members, NEW op \in OnRevision \cup OnAnything,
           NEW on \in Reports \cup {Absent}, op \in OnRevision => on \in Reports, Ask(u, op, on)
    PROVE  ReportReadsInv'
<1> USE DEF ReportReadsInv, Ask, Untouched
<1>1. ReportReadsTypeOK'
  BY DEF ReportReadsTypeOK, Approved
<1>2. PointerApproved' /\ SinceCovers'
  BY DEF PointerApproved, SinceCovers, Pointer, Approved
<1>3. ReadsFit' /\ ViewersSeeApproved'
  BY DEF ReadsFit, ViewersSeeApproved, HasRead
<1> QED
  BY <1>1, <1>2, <1>3

\* What a request may read and remember.
Readable(u, op, what) ==
    /\ what \in SUBSET Reports
    /\ op # "open" => roleOf[u] # "outsider" /\ (Viewer(u) => what \subseteq approvedSince)

\* How a request remembers what it may read, ...
Remembers(u) ==
    /\ ask.by = u /\ Readable(u, ask.op, ask'.read)
    /\ ask' = [by |-> ask.by, op |-> ask.op, on |-> ask.on, read |-> ask'.read]
    /\ UNCHANGED <<shown, approvedSince>> /\ Untouched

\* ... which keeps the invariant.
LEMMA StepKeep ==
    ASSUME ReportReadsInv, UNCHANGED roleOf, NEW u \in Members, Remembers(u)
    PROVE  ReportReadsInv'
<1> USE DEF ReportReadsInv, Remembers, Untouched
<1>1. ask'.by = ask.by /\ ask'.op = ask.op /\ ask'.on = ask.on
  OBVIOUS
<1>2. ReportReadsTypeOK'
  BY AskFacts DEF ReportReadsTypeOK, Readable
<1>3. PointerApproved' /\ SinceCovers'
  BY <1>1 DEF PointerApproved, SinceCovers, NoAsk, Pointer, Approved
<1>4. ReadsFit' /\ ViewersSeeApproved'
  BY <1>1 DEF ReadsFit, ViewersSeeApproved, HasRead, Viewer, Readable
<1> QED
  BY <1>2, <1>3, <1>4

\* What an answer may show.
Showable(u, revisions) ==
    /\ revisions \in SUBSET Reports
    /\ Viewer(u) => revisions \subseteq approvedSince
    /\ roleOf[u] = "outsider" => revisions = {}

\* How it answers with what it may show; shares, comments and the artifact's row may change with it, ...
Tells(u) ==
    /\ ask.by = u /\ Showable(u, shown')
    /\ ask' = IdleAfter(u) /\ UNCHANGED <<approvedSince, reportStatus, publishedReport>>
    /\ artifactStatus' \in {"active", "archived"}
    /\ shares' \in Seq([on : Reports, live : BOOLEAN])
    /\ comments' \in Seq([on : Reports, author : Members, resolvedBy : Members \cup {Absent}])

\* ... which keeps it as well.
LEMMA StepAnswer ==
    ASSUME ReportReadsInv, UNCHANGED roleOf, NEW u \in Members, Tells(u)
    PROVE  ReportReadsInv'
<1> USE DEF ReportReadsInv, Tells, IdleAfter
<1>1. ReportReadsTypeOK'
  BY DEF ReportReadsTypeOK, Showable, OnAnything
<1>2. PointerApproved' /\ SinceCovers'
  BY DEF PointerApproved, SinceCovers, NoAsk, Pointer, Approved
<1>3. ReadsFit' /\ ViewersSeeApproved'
  BY DEF ReadsFit, ViewersSeeApproved, HasRead, Viewer, Showable, OnRevision
<1> QED
  BY <1>1, <1>2, <1>3

\* What a viewer can get is approved, and counts as such while its request runs; an outsider
\* can get nothing.
LEMMA GettableIsReadable ==
    ASSUME ReportReadsInv, NEW u \in Members, ask.by = u, ~NoAsk
    PROVE  /\ \A r \in Reports : Gettable(u, r) =>
                 Showable(u, {r}) /\ roleOf[u] # "outsider" /\ \A op : Readable(u, op, {r})
           /\ \A action : May(u, action) => roleOf[u] # "outsider"
           /\ Viewer(u) => Approved \subseteq approvedSince /\ Pointer \subseteq approvedSince
  BY DEF ReportReadsInv, Gettable, May, ChartActions, Showable, Readable, Viewer, SinceCovers,
     PointerApproved, Approved

\* What a request has read may be shown, unless it is what a share names.
LEMMA ReadIsShowable ==
    ASSUME ReportReadsInv, NEW u \in Members, HasRead(u, ask.op), ask.op # "open"
    PROVE  Showable(u, ask.read) /\ roleOf[u] # "outsider"
  BY AskFacts DEF ReportReadsInv, ReadsFit, HasRead, Showable


\* A statement of a request remembers or tells, which keeps the invariant.
Proceeds(u) == Remembers(u) \/ Tells(u)

\* Requests that only read.
LEMMA StepRead ==
    ASSUME ReportReadsInv, NEW u \in Members,
           \/ ReadPointers(u) \/ FindRevisions(u) \/ GetArtifact(u) \/ GetRevision(u)
           \/ CompareLeft(u) \/ (\E r \in Reports : CompareRight(u, r))
           \/ ReadExport(u) \/ SendExport(u) \/ GetJob(u) \/ GetOutput(u)
           \/ FindEvidence(u) \/ ShowEvidence(u)
    PROVE  Proceeds(u)
<1>1. ask.op \in OnRevision => ask.on \in Reports
  BY DEF ReportReadsInv, ReadsFit
<1>2. ask.by = u /\ ~NoAsk
  BY DEF Reading, HasRead, NoAsk, ReadPointers, FindRevisions, GetArtifact, GetRevision,
     CompareLeft,
     CompareRight, ReadExport, SendExport, GetJob, GetOutput, FindEvidence, ShowEvidence
<1>3. /\ \A r \in Reports : Gettable(u, r) =>
            Showable(u, {r}) /\ roleOf[u] # "outsider" /\ \A op : Readable(u, op, {r})
      /\ \A action : May(u, action) => roleOf[u] # "outsider"
      /\ Viewer(u) => Approved \subseteq approvedSince /\ Pointer \subseteq approvedSince
  BY <1>2, GettableIsReadable
<1>4. HasRead(u, ask.op) /\ ask.op # "open" => Showable(u, ask.read) /\ roleOf[u] # "outsider"
  BY ReadIsShowable
<1>5. Approved \subseteq Reports /\ Pointer \subseteq Reports
  BY DEF Approved, Pointer, ReportReadsInv, ReportReadsTypeOK
<1>6. ASSUME NEW what, Readable(u, ask.op, what), Keep(what) PROVE Proceeds(u)
  BY <1>2, <1>6, AskFacts DEF Keep, Proceeds, Remembers, ReportReadsInv
<1>7. ASSUME NEW revisions, Showable(u, revisions), Show(revisions) PROVE Proceeds(u)
  BY <1>2, <1>7 DEF Show, Answer, Untouched, Proceeds, Tells, ReportReadsInv, ReportReadsTypeOK
<1>8. Refuse => Proceeds(u)
  BY <1>7 DEF Refuse, Showable
<1>9. CASE ReadPointers(u)
  <2>1. PICK what : what = HeadFor(u) \cup Pointer
    OBVIOUS
  <2>2. May(u, "view") => Readable(u, ask.op, what)
    BY <1>3, <1>5, <2>1 DEF Readable, HeadFor
  <2> QED
    BY <1>6, <1>8, <1>9, <2>1, <2>2 DEF ReadPointers
<1>10. CASE FindRevisions(u) \/ SendExport(u)
  <2>1. PICK what : what = ask.read
    OBVIOUS
  <2> QED
    BY <1>4, <1>7, <1>10, <2>1 DEF FindRevisions, SendExport, HasRead
<1>11. CASE GetArtifact(u)
  <2>1. PICK what : what = IF ~May(u, "view") THEN {} ELSE IF Viewer(u) THEN Approved ELSE Reports
    OBVIOUS
  <2>2. Showable(u, what)
    BY <1>3, <1>5, <2>1 DEF Showable
  <2> QED
    BY <1>7, <1>11, <2>1, <2>2 DEF GetArtifact
<1>12. CASE GetRevision(u) \/ GetJob(u) \/ CompareLeft(u) \/ ReadExport(u)
  <2>1. PICK what : what = {ask.on}
    OBVIOUS
  <2>2. ask.on \in Reports
    BY <1>1, <1>12 DEF GetRevision, GetJob, CompareLeft, ReadExport, Reading, OnRevision
  <2>3. Gettable(u, ask.on) => Showable(u, what) /\ Readable(u, ask.op, what)
    BY <1>3, <2>1, <2>2
  <2> QED
    BY <1>6, <1>7, <1>8, <1>12, <2>1, <2>3 DEF GetRevision, GetJob, CompareLeft, ReadExport
<1>13. ASSUME NEW r \in Reports, CompareRight(u, r) PROVE Proceeds(u)
  <2>1. PICK what : what = ask.read \cup {r}
    OBVIOUS
  <2>2. Gettable(u, r) => Showable(u, what)
    BY <1>3, <1>4, <1>13, <2>1 DEF CompareRight, HasRead, Showable
  <2> QED
    BY <1>7, <1>8, <1>13, <2>1, <2>2 DEF CompareRight
<1>14. CASE GetOutput(u)
  <2>1. PICK read, on : read = ask.read /\ on = {ask.on}
    OBVIOUS
  <2>2. Reading(u, "output") /\ Gettable(u, ask.on) => Readable(u, ask.op, on)
    BY <1>1, <1>3, <2>1 DEF Reading, OnRevision
  <2>3. HasRead(u, "output") => Showable(u, read)
    BY <1>4, <2>1 DEF HasRead
  <2> QED
    BY <1>6, <1>7, <1>8, <1>14, <2>1, <2>2, <2>3 DEF GetOutput
<1>15. CASE FindEvidence(u)
  <2>1. PICK found, on : found = BlocksFor(u, Absent) /\ on = {ask.on}
    OBVIOUS
  <2>2. May(u, "view") => Readable(u, ask.op, found)
    BY <1>3, <1>5, <2>1 DEF Readable, BlocksFor
  <2>3. ask.on # Absent /\ Gettable(u, ask.on) => Readable(u, ask.op, on)
    BY <1>3, <2>1, AskFacts DEF ReportReadsInv
  <2> QED
    BY <1>6, <1>8, <1>15, <2>1, <2>2, <2>3 DEF FindEvidence
<1>16. CASE ShowEvidence(u)
  <2>1. PICK blocks : blocks = IF ask.on = Absent THEN ask.read ELSE BlocksFor(u, ask.on)
    OBVIOUS
  <2>2. Viewer(u) => BlocksFor(u, ask.on) \subseteq Approved
    BY DEF BlocksFor
  <2>3. BlocksFor(u, ask.on) \subseteq Reports \/ ask.on = Absent
    BY <1>5, AskFacts DEF BlocksFor, ReportReadsInv
  <2>4. Showable(u, ask.read) /\ roleOf[u] # "outsider"
    BY <1>4, <1>16 DEF ShowEvidence, HasRead
  <2>5. Showable(u, blocks)
    BY <1>3, <2>1, <2>2, <2>3, <2>4 DEF Showable
  <2> QED
    BY <1>7, <1>8, <1>16, <2>1, <2>5 DEF ShowEvidence
<1> QED
  BY <1>9, <1>10, <1>11, <1>12, <1>13, <1>14, <1>15, <1>16

\* Requests that comment, share, open a share or archive.
LEMMA StepWrite ==
    ASSUME ReportReadsInv, NEW u \in Members,
           \/ AddComment(u) \/ ReadForShare(u) \/ CreateShare(u) \/ OpenShare(u)
           \/ ArchiveArtifact(u) \/ \E s \in DOMAIN shares : ReadShare(u, s)
    PROVE  Proceeds(u)
<1> DEFINE Share == [on : Reports, live : BOOLEAN]
           Remark == [on : Reports, author : Members, resolvedBy : Members \cup {Absent}]
<1>1. ask.op \in OnRevision => ask.on \in Reports
  BY DEF ReportReadsInv, ReadsFit
<1>2. ask.by = u /\ ~NoAsk
  BY DEF Reading, HasRead, NoAsk, AddComment, ReadForShare, CreateShare, OpenShare,
     ArchiveArtifact,
     ReadShare
<1>3. \A r \in Reports : Gettable(u, r) =>
            Showable(u, {r}) /\ roleOf[u] # "outsider" /\ \A op : Readable(u, op, {r})
  BY <1>2, GettableIsReadable
<1>4. /\ artifactStatus \in {"active", "archived"} /\ shares \in Seq(Share)
      /\ comments \in Seq(Remark) /\ ask.read \in {Absent} \cup SUBSET Reports
  BY AskFacts DEF ReportReadsInv, ReportReadsTypeOK
<1>5. ASSUME NEW what, Readable(u, ask.op, what), Keep(what) PROVE Proceeds(u)
  BY <1>2, <1>5, AskFacts DEF Keep, Proceeds, Remembers, ReportReadsInv
<1>6. ASSUME NEW revisions, Showable(u, revisions), Answer(revisions),
             UNCHANGED <<reportStatus, publishedReport>>,
             artifactStatus' \in {"active", "archived"}, shares' \in Seq(Share),
             comments' \in Seq(Remark)
      PROVE  Proceeds(u)
  BY <1>2, <1>6 DEF Answer, Proceeds, Tells
<1> HIDE DEF Share, Remark
<1>7. ASSUME NEW revisions, Showable(u, revisions), Show(revisions) PROVE Proceeds(u)
  BY <1>4, <1>6, <1>7 DEF Show, Untouched
<1>8. /\ Showable(u, {})
      /\ Refuse => Proceeds(u)
  BY <1>7 DEF Refuse, Showable
<1>9. CASE AddComment(u) /\ ~Refuse
  <2>1. PICK on : on = {ask.on}
    OBVIOUS
  <2>2. ask.on \in Reports /\ Gettable(u, ask.on) /\ Answer(on)
    BY <1>1, <1>9, <2>1 DEF AddComment, Reading, OnRevision
  <2>3. Comment(u, ask.on) \in Remark
    BY <2>2 DEF Comment, Remark
  <2>4. comments' = Append(comments, Comment(u, ask.on))
        /\ UNCHANGED <<reportStatus, publishedReport, artifactStatus, shares>>
    BY <1>9 DEF AddComment
  <2>5. comments' \in Seq(Remark)
    BY <1>4, <2>3, <2>4, AppendProperties
  <2> QED
    BY <1>3, <1>4, <1>6, <2>1, <2>2, <2>4, <2>5
<1>10. CASE ReadForShare(u) /\ ~Refuse
  <2>1. PICK on : on = {ask.on}
    OBVIOUS
  <2>2. ask.on \in Reports /\ Gettable(u, ask.on) /\ Keep(on)
    BY <1>1, <1>10, <2>1 DEF ReadForShare, Reading, OnRevision
  <2> QED
    BY <1>3, <1>5, <2>1, <2>2
<1>11. CASE CreateShare(u)
  <2>1. [on |-> ask.on, live |-> TRUE] \in Share
    BY <1>1, <1>11 DEF CreateShare, HasRead, OnRevision, Share
  <2>2. /\ shares' = Append(shares, [on |-> ask.on, live |-> TRUE]) /\ Answer({})
        /\ UNCHANGED <<reportStatus, publishedReport, artifactStatus, comments>>
    BY <1>11 DEF CreateShare
  <2>3. shares' \in Seq(Share)
    BY <1>4, <2>1, <2>2, AppendProperties
  <2> QED
    BY <1>4, <1>6, <1>8, <2>2, <2>3
<1>12. CASE OpenShare(u) /\ ~Refuse
  <2>1. PICK r \in ask.read : Gettable(u, r) /\ Show({r})
    BY <1>12 DEF OpenShare
  <2>2. r \in Reports
    BY <1>4, <1>12, <2>1 DEF OpenShare, HasRead
  <2> QED
    BY <1>3, <1>7, <2>1, <2>2
<1>13. CASE ArchiveArtifact(u) /\ ~Refuse
  BY <1>4, <1>6, <1>8, <1>13 DEF ArchiveArtifact
<1>14. ASSUME NEW s \in DOMAIN shares, ReadShare(u, s), ~Refuse PROVE Proceeds(u)
  <2>1. PICK on : on = {shares[s].on}
    OBVIOUS
  <2>2. shares[s] \in Share
    BY <1>4, PlacesOf
  <2>3. Readable(u, ask.op, on) /\ Keep(on)
    BY <1>14, <2>1, <2>2 DEF ReadShare, Reading, Readable, Share
  <2> QED
    BY <1>5, <2>3
<1> QED
  BY <1>8, <1>9, <1>10, <1>11, <1>12, <1>13, <1>14

\* Resolving a comment, revoking a share and its expiry touch no request.
LEMMA StepAside ==
    ASSUME ReportReadsInv, UNCHANGED roleOf,
           UNCHANGED <<reportStatus, publishedReport, artifactStatus>>, NoRead,
           shares' \in Seq([on : Reports, live : BOOLEAN]),
           comments' \in Seq([on : Reports, author : Members, resolvedBy : Members \cup {Absent}])
    PROVE  ReportReadsInv'
<1> USE DEF ReportReadsInv, NoRead
<1>1. ReportReadsTypeOK'
  BY DEF ReportReadsTypeOK
<1>2. PointerApproved' /\ SinceCovers'
  BY DEF PointerApproved, SinceCovers, NoAsk, Pointer, Approved
<1>3. ReadsFit' /\ ViewersSeeApproved'
  BY DEF ReadsFit, ViewersSeeApproved, HasRead, Viewer
<1> QED
  BY <1>1, <1>2, <1>3

\* Shares end, and comments are resolved, in place.
LEMMA AsideTypes ==
    ASSUME ReportReadsTypeOK
    PROVE  /\ \A s \in DOMAIN shares : [shares EXCEPT ![s].live = FALSE]
                                          \in Seq([on : Reports, live : BOOLEAN])
           /\ \A c \in DOMAIN comments, u \in Members : [comments EXCEPT ![c].resolvedBy = u]
                 \in Seq([on : Reports, author : Members, resolvedBy : Members \cup {Absent}])
<1> DEFINE Share == [on : Reports, live : BOOLEAN]
           Remark == [on : Reports, author : Members, resolvedBy : Members \cup {Absent}]
<1>1. shares \in Seq(Share) /\ comments \in Seq(Remark)
  BY DEF ReportReadsTypeOK
<1>2. ASSUME NEW s \in DOMAIN shares PROVE [shares EXCEPT ![s].live = FALSE] \in Seq(Share)
  <2>1. [shares[s] EXCEPT !.live = FALSE] \in Share
    <3>1. shares[s] \in Share
      BY <1>1, <1>2, PlacesOf
    <3> QED
      BY <3>1
  <2> HIDE DEF Share
  <2> QED
    BY <1>1, <1>2, <2>1, Changed
<1>3. ASSUME NEW c \in DOMAIN comments, NEW u \in Members
      PROVE  [comments EXCEPT ![c].resolvedBy = u] \in Seq(Remark)
  <2>1. [comments[c] EXCEPT !.resolvedBy = u] \in Remark
    <3>1. comments[c] \in Remark
      BY <1>1, <1>3, PlacesOf
    <3> QED
      BY <3>1
  <2> HIDE DEF Remark
  <2> QED
    BY <1>1, <1>3, <2>1, Changed
<1> QED
  BY <1>2, <1>3

\* The invariant is inductive.
LEMMA ReportReadsStep == ReportReadsInv /\ [ReportReadsNext]_reportReadsVars => ReportReadsInv'
<1> SUFFICES ASSUME ReportReadsInv, [ReportReadsNext]_reportReadsVars PROVE ReportReadsInv'
  OBVIOUS
<1>1. /\ shares \in Seq([on : Reports, live : BOOLEAN])
      /\ comments \in Seq([on : Reports, author : Members, resolvedBy : Members \cup {Absent}])
      /\ UNCHANGED roleOf
  BY DEF ReportReadsInv, ReportReadsTypeOK, ReportReadsNext, reportReadsVars
<1>2. CASE UNCHANGED reportReadsVars
  BY <1>1, <1>2, StepAside DEF reportReadsVars, NoRead
<1>3. ASSUME NEW r \in Reports, NEW next \in ReportStatuses, Review(r, next) PROVE ReportReadsInv'
  BY <1>1, <1>3, StepReview
<1>4. ASSUME NEW u \in Members,
             \/ AskArtifacts(u) \/ AskShare(u) \/ AskEvidence(u)
             \/ \E r \in Reports :
                  AskRevision(u, r) \/ AskExport(u, r) \/ AskToComment(u, r) \/ AskJob(u, r)
      PROVE  ReportReadsInv'
  <2>1. \E op \in OnRevision \cup OnAnything, on \in Reports \cup {Absent} :
           (op \in OnRevision => on \in Reports) /\ Ask(u, op, on)
    BY <1>4 DEF AskArtifacts, AskShare, AskEvidence, AskRevision, AskExport, AskToComment, AskJob,
       OnRevision, OnAnything
  <2> QED
    BY <1>1, <2>1, StepAsk
<1>5. ASSUME NEW u \in Members, NEW c \in DOMAIN comments, ResolveComment(u, c)
      PROVE  ReportReadsInv'
  BY <1>1, <1>5, AsideTypes, StepAside DEF ResolveComment, ReportReadsInv
<1>6. ASSUME NEW s \in DOMAIN shares, EndShare(s) PROVE ReportReadsInv'
  BY <1>1, <1>6, AsideTypes, StepAside DEF EndShare, ReportReadsInv
<1>7. ASSUME NEW u \in Members, Proceeds(u) PROVE ReportReadsInv'
  BY <1>1, <1>7, StepKeep, StepAnswer DEF Proceeds
<1> QED
  BY <1>1, <1>2, <1>3, <1>4, <1>5, <1>6, <1>7, StepRead, StepWrite
  DEF ReportReadsNext, ReportStatuses, RevokeShare, ExpireShare

\* The invariant of the reads of reports holds.
THEOREM ReportReadsInvariance == ReportReadsSpec => []ReportReadsInv
  BY ReportReadsStart, ReportReadsStep, PTL DEF ReportReadsSpec

\* Whatever reviews happen between the statements of a read, a viewer is shown approved
\* revisions only, and an outsider nothing.
THEOREM ReadsRespectRoles == ReportReadsSpec => []ViewersSeeApproved
<1>1. ReportReadsInv => ViewersSeeApproved
  BY DEF ReportReadsInv
<1> QED
  BY <1>1, ReportReadsInvariance, PTL
-----------------------------------------------------------------------------
(* Inputs of generations: the inductive invariant *)

BriefRows == [id : Nat, content : Contents, status : {"draft", "confirmed"}]
Forms == [step : {"create", "draft", "confirm"}, content : Contents, confirm : BOOLEAN,
          row : BriefRows \cup {Unset}]
Askings == [step : {"asset", "metrics", "brief"}, metric : Nat \cup {Unset},
            parent : Nat \cup {Unset}, snapshot : Nat]
Frozens == [step : {"insert"}, parent : Nat \cup {Unset}, metric : Nat \cup {Unset},
            snapshot : Nat, brief : Contents]
GroundedJobs == [brief : Contents, metric : Nat, snapshot : Nat, parent : Nat \cup {Unset},
                 stage : {"queued", "needs_clarification"}]

AnalysisInputsTypeOK ==
    /\ briefs \in Seq(BriefRows)
    /\ metrics \in Nat /\ snapshot \in Nat /\ saves \in Nat
    /\ groundedJobs \in Seq(GroundedJobs)
    /\ known \in [Editors -> BOOLEAN]
    /\ edits \in [Editors -> {Resting} \cup Forms \cup Askings \cup Frozens]
    /\ confirmations \subseteq Contents

\* A brief that is confirmed has been judged, and found complete.
BriefsJudged ==
    \A i \in DOMAIN briefs : briefs[i].status = "confirmed" =>
        Complete(briefs[i].content) /\ briefs[i].content \in confirmations

\* How far a page is: a form that will confirm is complete; an answer is to a job there is; a
\* metric is chosen after the first check, and all inputs fit once they are frozen.
EditFits(edit) ==
    /\ edit.step = "create" /\ edit.confirm => Complete(edit.content)
    /\ edit.step \in {"asset", "metrics", "brief", "insert"} =>
          /\ edit.metric \in 1..metrics \cup {Unset}
          /\ edit.parent # Unset => edit.parent \in DOMAIN groundedJobs
    /\ edit.step \in {"brief", "insert"} => edit.metric \in 1..metrics
    /\ edit.step = "insert" => SameInputs(edit) /\ edit.brief \in confirmations
EditsFit == \A e \in Editors : EditFits(edits[e])

\* A job answers a job there is.
ParentsExist ==
    \A j \in DOMAIN groundedJobs :
        groundedJobs[j].parent # Unset => groundedJobs[j].parent \in DOMAIN groundedJobs

AnalysisInputsInv ==
    AnalysisInputsTypeOK /\ BriefsJudged /\ EditsFit /\ ParentsExist /\ JobsAreGrounded

USE AnalysisInputsAssumption
USE DEF Turn, Quit, InputsStay

\* What the steps of a page may be told by.
EditSteps == {Resting} \cup Forms \cup Askings \cup Frozens

\* A step of a page has one shape.
LEMMA EditShapes ==
    ASSUME NEW edit \in EditSteps
    PROVE  /\ edit.step \in {"create", "draft", "confirm"} => edit \in Forms
           /\ edit.step \in {"asset", "metrics", "brief"} => edit \in Askings
           /\ edit.step = "insert" => edit \in Frozens
  BY DEF EditSteps, Resting, Forms, Askings, Frozens

\* A page that rests has nothing to fit.
LEMMA RestingFits == Resting \in EditSteps /\ EditFits(Resting)
  BY DEF EditSteps, EditFits, Resting

\* A project starts without a brief, or with one that is confirmed and complete.
LEMMA AnalysisInputsStart == AnalysisInputsInit => AnalysisInputsInv
<1> SUFFICES ASSUME AnalysisInputsInit PROVE AnalysisInputsInv
  OBVIOUS
<1>1. PICK text \in Texts :
        briefs \in {<<>>, <<[id |-> 1, content |-> [f \in Fields |-> text], status |-> "confirmed"]>>}
  BY DEF AnalysisInputsInit
<1>2. [f \in Fields |-> text] \in Contents /\ Complete([f \in Fields |-> text])
  BY DEF Contents, Complete
<1>3. /\ briefs \in Seq(BriefRows)
      /\ \A i \in DOMAIN briefs : briefs[i].content \in Contents /\ Complete(briefs[i].content)
  <2> DEFINE row == [id |-> 1, content |-> [f \in Fields |-> text], status |-> "confirmed"]
  <2>1. row \in BriefRows /\ row.content \in Contents /\ Complete(row.content)
    BY <1>2 DEF BriefRows
  <2> HIDE DEF row
  <2>2. /\ <<>> \in Seq(BriefRows) /\ DOMAIN <<>> = {}
        /\ <<row>> \in Seq(BriefRows) /\ DOMAIN <<row>> = {1} /\ <<row>>[1] = row
    BY <2>1
  <2>3. briefs = <<>> \/ briefs = <<row>>
    BY <1>1 DEF row
  <2> QED
    BY <2>1, <2>2, <2>3
<1>4. confirmations = {briefs[i].content : i \in DOMAIN briefs}
  BY DEF AnalysisInputsInit
<1>5. AnalysisInputsTypeOK
  BY <1>3, <1>4 DEF AnalysisInputsInit, AnalysisInputsTypeOK
<1>6. BriefsJudged
  BY <1>3, <1>4 DEF BriefsJudged
<1>7. EditsFit
  BY RestingFits DEF AnalysisInputsInit, EditsFit
<1>8. ParentsExist /\ JobsAreGrounded
  BY <1>3 DEF AnalysisInputsInit, ParentsExist, JobsAreGrounded
<1> QED
  BY <1>5, <1>6, <1>7, <1>8 DEF AnalysisInputsInv

\* A page turns to a step that fits, and everything else stays.
LEMMA StepTurn ==
    ASSUME AnalysisInputsInv, NEW e \in Editors, NEW edit, edit \in EditSteps, EditFits(edit),
           edits' = [edits EXCEPT ![e] = edit], InputsStay,
           known' \in [Editors -> BOOLEAN], saves' \in Nat
    PROVE  AnalysisInputsInv'
<1> USE DEF AnalysisInputsInv
<1>1. AnalysisInputsTypeOK'
  BY DEF AnalysisInputsTypeOK, EditSteps
<1>2. \A x : EditFits(x)' <=> EditFits(x)
  BY DEF EditFits, SameInputs
<1>3. EditsFit'
  BY <1>2 DEF EditsFit, AnalysisInputsTypeOK
<1>4. BriefsJudged' /\ ParentsExist' /\ JobsAreGrounded'
  BY DEF BriefsJudged, ParentsExist, JobsAreGrounded
<1> QED
  BY <1>1, <1>3, <1>4

\* What fits goes on to fit when contents are judged, metrics are added and jobs are.
LEMMA FitsOn ==
    ASSUME NEW edit, EditFits(edit), metrics \in Nat, metrics' \in Nat, metrics <= metrics',
           confirmations \subseteq confirmations', DOMAIN groundedJobs \subseteq DOMAIN groundedJobs',
           \A j \in DOMAIN groundedJobs :
              /\ groundedJobs'[j].snapshot = groundedJobs[j].snapshot
              /\ groundedJobs'[j].metric = groundedJobs[j].metric
    PROVE  EditFits(edit)'
  BY DEF EditFits, SameInputs

\* The briefs change: a row is added or takes a new place and contents, judged if confirmed.
LEMMA StepBriefs ==
    ASSUME AnalysisInputsInv, NEW e \in Editors, NEW edit, edit \in EditSteps, EditFits(edit),
           edits' = [edits EXCEPT ![e] = edit],
           UNCHANGED <<metrics, snapshot, groundedJobs, saves>>, known' \in [Editors -> BOOLEAN],
           briefs' \in Seq(BriefRows), confirmations \subseteq confirmations',
           confirmations' \subseteq Contents, BriefsJudged'
    PROVE  AnalysisInputsInv'
<1> USE DEF AnalysisInputsInv
<1>1. AnalysisInputsTypeOK'
  BY DEF AnalysisInputsTypeOK, EditSteps
<1>2. ASSUME NEW x, EditFits(x) PROVE EditFits(x)'
  BY <1>2, FitsOn DEF AnalysisInputsTypeOK
<1>3. EditsFit'
  BY <1>2 DEF EditsFit, AnalysisInputsTypeOK
<1>4. ParentsExist' /\ JobsAreGrounded'
  <2>1. ParentsExist'
    BY DEF ParentsExist
  <2>2. \A i \in DOMAIN briefs' : briefs'[i].status = "confirmed" => Complete(briefs'[i].content)
    BY DEF BriefsJudged
  <2>3. \A j \in DOMAIN groundedJobs : groundedJobs[j].brief \in confirmations'
    BY DEF JobsAreGrounded
  <2> QED
    BY <2>1, <2>2, <2>3 DEF JobsAreGrounded
<1> QED
  BY <1>1, <1>3, <1>4

\* What is put in the newest place joins the rows there are.
LEMMA TouchedFacts ==
    ASSUME AnalysisInputsTypeOK, NEW b, NEW row \in BriefRows
    PROVE  /\ Touched(b, row) \in Seq(BriefRows)
           /\ \A i \in DOMAIN Touched(b, row) :
                 Touched(b, row)[i] = row \/ \E k \in DOMAIN briefs : Touched(b, row)[i] = briefs[k]
<1> DEFINE place == CHOOSE i \in DOMAIN briefs : briefs[i].id = b
           At(i) == IF i < place THEN briefs[i] ELSE IF i = Len(briefs) THEN row ELSE briefs[i + 1]
<1>1. Len(briefs) \in Nat /\ DOMAIN briefs = 1..Len(briefs) /\ briefs \in Seq(BriefRows)
  BY LenProperties DEF AnalysisInputsTypeOK
<1>2. Touched(b, row) = [i \in 1..Len(briefs) |-> At(i)]
  BY <1>1 DEF Touched
<1> HIDE DEF place
<1>3. \A i \in 1..Len(briefs) : At(i) = row \/ \E k \in DOMAIN briefs : At(i) = briefs[k]
  <2> SUFFICES ASSUME NEW i \in 1..Len(briefs)
      PROVE  At(i) = row \/ \E k \in DOMAIN briefs : At(i) = briefs[k]
    OBVIOUS
  <2>1. PICK n \in Nat : n = Len(briefs)
    BY <1>1
  <2>2. i \in 1..n /\ (i # n => i + 1 \in 1..n)
    BY <2>1
  <2>3. i \in DOMAIN briefs /\ (i # Len(briefs) => i + 1 \in DOMAIN briefs)
    BY <1>1, <2>1, <2>2
  <2>4. At(i) = briefs[i] \/ At(i) = row \/ (i # Len(briefs) /\ At(i) = briefs[i + 1])
    OBVIOUS
  <2> QED
    BY <2>3, <2>4
<1>4. \A i \in 1..Len(briefs) : At(i) \in BriefRows
  BY <1>1, <1>3, PlacesOf
<1> HIDE DEF At
<1>5. [i \in 1..Len(briefs) |-> At(i)] \in Seq(BriefRows)
  BY <1>1, <1>4
<1> QED
  BY <1>1, <1>2, <1>3, <1>5


\* Loading, submitting a form, and reading the newest brief.
LEMMA StepForm ==
    ASSUME AnalysisInputsInv, NEW e \in Editors,
           \/ LoadBrief(e) \/ ReadBrief(e)
           \/ \E content \in Contents, confirm \in BOOLEAN : SaveBrief(e, content, confirm)
    PROVE  AnalysisInputsInv'
<1> USE DEF AnalysisInputsInv
<1>1. edits[e] \in EditSteps /\ EditFits(edits[e]) /\ edits = [edits EXCEPT ![e] = edits[e]]
  BY DEF AnalysisInputsTypeOK, EditSteps, EditsFit
<1>2. saves \in Nat /\ known \in [Editors -> BOOLEAN]
  BY DEF AnalysisInputsTypeOK
<1>3. CASE LoadBrief(e)
  <2>1. PICK edit : edit = edits[e]
    OBVIOUS
  <2> QED
    BY <1>1, <1>2, <1>3, <2>1, StepTurn DEF LoadBrief
<1>4. CASE ReadBrief(e)
  <2>1. LatestBrief \in BriefRows /\ edits[e] \in Forms
    <3>1. briefs \in Seq(BriefRows) /\ briefs # <<>>
      BY <1>4 DEF ReadBrief, AnalysisInputsTypeOK
    <3>2. Len(briefs) \in DOMAIN briefs
      BY <3>1, LenProperties, EmptySeq
    <3> QED
      BY <1>1, <1>4, <3>1, <3>2, PlacesOf, EditShapes DEF ReadBrief, LatestBrief
  <2>2. PICK edit : edit = [edits[e] EXCEPT !.row = LatestBrief]
    OBVIOUS
  <2>3. edit \in Forms /\ edit.step \in {"draft", "confirm"}
    BY <1>4, <2>1, <2>2 DEF ReadBrief, Forms
  <2>4. edit \in EditSteps /\ EditFits(edit)
    BY <2>3 DEF EditSteps, EditFits
  <2> QED
    BY <1>2, <1>4, <2>2, <2>4, StepTurn DEF ReadBrief
<1>5. ASSUME NEW content \in Contents, NEW confirm \in BOOLEAN, SaveBrief(e, content, confirm)
      PROVE  AnalysisInputsInv'
  <2>1. PICK edit : edit = [step |-> IF known[e] THEN "draft" ELSE "create", content |-> content,
                            confirm |-> confirm, row |-> Unset]
    OBVIOUS
  <2>2. edit \in Forms /\ (edit.step = "create" /\ edit.confirm => Complete(edit.content))
    BY <1>5, <2>1 DEF SaveBrief, Forms
  <2>3. edit \in EditSteps /\ EditFits(edit)
    BY <2>2 DEF EditSteps, EditFits, Forms
  <2>4. saves' \in Nat
    BY <1>2, <1>5 DEF SaveBrief
  <2> QED
    BY <1>2, <1>5, <2>1, <2>3, <2>4, StepTurn DEF SaveBrief
<1> QED
  BY <1>3, <1>4, <1>5

\* A brief that is created is confirmed only if its form was complete.
LEMMA StepCreateBrief ==
    ASSUME AnalysisInputsInv, NEW e \in Editors, CreateBrief(e)
    PROVE  AnalysisInputsInv'
<1> USE DEF AnalysisInputsInv
<1> DEFINE asked == edits[e]
           row == [id |-> Len(briefs) + 1, content |-> asked.content,
                   status |-> IF asked.confirm THEN "confirmed" ELSE "draft"]
<1>1. asked \in Forms /\ (asked.confirm => Complete(asked.content))
  <2>1. asked \in EditSteps /\ EditFits(asked) /\ asked.step = "create"
    BY DEF CreateBrief, AnalysisInputsTypeOK, EditSteps, EditsFit
  <2> QED
    BY <2>1, EditShapes DEF EditFits
<1>2. briefs \in Seq(BriefRows) /\ Len(briefs) \in Nat
  BY LenProperties DEF AnalysisInputsTypeOK
<1>3. asked.content \in Contents
  BY <1>1 DEF Forms
<1>4. row \in BriefRows
  BY <1>2, <1>3 DEF BriefRows
<1>5. /\ briefs' = Append(briefs, row)
      /\ confirmations' = confirmations \cup (IF asked.confirm THEN {asked.content} ELSE {})
      /\ known' \in [Editors -> BOOLEAN] /\ edits' = [edits EXCEPT ![e] = Resting]
      /\ UNCHANGED <<metrics, snapshot, groundedJobs, saves>>
  BY DEF CreateBrief, AnalysisInputsTypeOK
<1>6. row.status = "confirmed" => Complete(row.content) /\ row.content \in confirmations'
  BY <1>1, <1>5
<1> HIDE DEF row
<1>7. /\ briefs' \in Seq(BriefRows) /\ DOMAIN briefs' = DOMAIN briefs \cup {Len(briefs) + 1}
      /\ \A i \in DOMAIN briefs : briefs'[i] = briefs[i]
      /\ briefs'[Len(briefs) + 1] = row
  BY <1>2, <1>4, <1>5, Appended
<1>8. BriefsJudged'
  BY <1>5, <1>6, <1>7 DEF BriefsJudged
<1>9. confirmations \subseteq confirmations' /\ confirmations' \subseteq Contents
  BY <1>3, <1>5 DEF AnalysisInputsTypeOK
<1> QED
  BY <1>5, <1>7, <1>8, <1>9, RestingFits, StepBriefs

\* A draft is not confirmed, whatever the row it was read from was.
LEMMA StepWriteDraft ==
    ASSUME AnalysisInputsInv, NEW e \in Editors, WriteDraft(e)
    PROVE  AnalysisInputsInv'
<1> USE DEF AnalysisInputsInv
<1> DEFINE asked == edits[e]
<1>1. asked \in Forms /\ asked.row \in BriefRows
  <2>1. asked \in EditSteps /\ asked.step = "draft" /\ asked.row # Unset
    BY DEF WriteDraft, AnalysisInputsTypeOK, EditSteps
  <2>2. asked \in Forms
    BY <2>1, EditShapes
  <2> QED
    BY <2>1, <2>2 DEF Forms
<1>2. PICK row : row = [asked.row EXCEPT !.content = asked.content, !.status = "draft"]
  OBVIOUS
<1>3. row \in BriefRows /\ row.status = "draft"
  BY <1>1, <1>2 DEF BriefRows, Forms
<1>4. PICK edit : edit = IF asked.confirm THEN [asked EXCEPT !.step = "confirm", !.row = Unset]
                         ELSE Resting
  OBVIOUS
<1>5. edit \in EditSteps /\ EditFits(edit)
  <2>1. CASE asked.confirm
    <3>1. edit \in Forms /\ edit.step = "confirm"
      BY <1>1, <1>4, <2>1 DEF Forms
    <3> QED
      BY <3>1 DEF EditSteps, EditFits
  <2>2. CASE ~asked.confirm
    BY <1>4, <2>2, RestingFits
  <2> QED
    BY <2>1, <2>2
<1>6. /\ briefs' = Touched(asked.row.id, row) /\ edits' = [edits EXCEPT ![e] = edit]
      /\ UNCHANGED <<metrics, snapshot, groundedJobs, known, saves, confirmations>>
  BY <1>2, <1>4 DEF WriteDraft
<1>7. /\ briefs' \in Seq(BriefRows)
      /\ \A i \in DOMAIN briefs' : briefs'[i] = row \/ \E k \in DOMAIN briefs : briefs'[i] = briefs[k]
  BY <1>3, <1>6, TouchedFacts
<1>8. BriefsJudged'
  BY <1>3, <1>6, <1>7 DEF BriefsJudged
<1>9. confirmations' \subseteq Contents /\ known' \in [Editors -> BOOLEAN]
  BY <1>6 DEF AnalysisInputsTypeOK
<1> QED
  BY <1>5, <1>6, <1>7, <1>8, <1>9, StepBriefs

\* A confirmation writes back the contents it has judged, not those the row holds by now.
LEMMA StepWriteConfirmed ==
    ASSUME AnalysisInputsInv, NEW e \in Editors, WriteConfirmed(e)
    PROVE  AnalysisInputsInv'
<1> USE DEF AnalysisInputsInv
<1> DEFINE read == edits[e].row
           row == Confirmed(read)
<1>1. read \in BriefRows
  <2>1. edits[e] \in EditSteps /\ edits[e].step = "confirm" /\ read # Unset
    BY DEF WriteConfirmed, AnalysisInputsTypeOK, EditSteps
  <2>2. edits[e] \in Forms
    BY <2>1, EditShapes
  <2> QED
    BY <2>1, <2>2 DEF Forms
<1>2. row \in BriefRows /\ row.content = read.content /\ read.content \in Contents
  BY <1>1 DEF BriefRows, Confirmed
<1>3. /\ edits' = [edits EXCEPT ![e] = Resting]
      /\ UNCHANGED <<metrics, snapshot, groundedJobs, known, saves>>
      /\ IF Complete(read.content)
         THEN briefs' = Touched(read.id, row) /\ confirmations' = confirmations \cup {read.content}
         ELSE UNCHANGED <<briefs, confirmations>>
  BY DEF WriteConfirmed
<1> HIDE DEF row
<1>4. briefs' \in Seq(BriefRows) /\ BriefsJudged'
  <2>1. CASE Complete(read.content)
    <3>1. /\ briefs' \in Seq(BriefRows)
          /\ \A i \in DOMAIN briefs' :
                briefs'[i] = row \/ \E k \in DOMAIN briefs : briefs'[i] = briefs[k]
      BY <1>2, <1>3, <2>1, TouchedFacts
    <3> QED
      BY <1>2, <1>3, <2>1, <3>1 DEF BriefsJudged
  <2>2. CASE ~Complete(read.content)
    BY <1>3, <2>2 DEF BriefsJudged, AnalysisInputsTypeOK
  <2> QED
    BY <2>1, <2>2
<1>5. /\ confirmations \subseteq confirmations' /\ confirmations' \subseteq Contents
      /\ known' \in [Editors -> BOOLEAN]
  BY <1>2, <1>3 DEF AnalysisInputsTypeOK
<1> QED
  BY <1>3, <1>4, <1>5, RestingFits, StepBriefs

\* The checks before a generation: what they have found still holds after the next one.
LEMMA StepCheck ==
    ASSUME AnalysisInputsInv, NEW e \in Editors,
           \/ \E metric \in 1..metrics \cup {Unset}, parent \in DOMAIN groundedJobs \cup {Unset} :
                 Generate(e, metric, parent)
           \/ FindReadyAsset(e) \/ ChooseMetric(e) \/ RequireBrief(e)
    PROVE  AnalysisInputsInv'
<1> USE DEF AnalysisInputsInv
<1>1. edits[e] \in EditSteps /\ EditFits(edits[e])
  BY DEF AnalysisInputsTypeOK, EditSteps, EditsFit
<1>2. /\ saves \in Nat /\ known \in [Editors -> BOOLEAN] /\ metrics \in Nat /\ snapshot \in Nat
      /\ DOMAIN groundedJobs \subseteq Nat
  BY LenProperties DEF AnalysisInputsTypeOK
<1>3. UNCHANGED <<known, saves>> /\ InputsStay
  BY DEF Generate, FindReadyAsset, ChooseMetric, RequireBrief
<1>4. ASSUME NEW edit, edit \in EditSteps, EditFits(edit), edits' = [edits EXCEPT ![e] = edit]
      PROVE  AnalysisInputsInv'
  BY <1>2, <1>3, <1>4, StepTurn
<1>5. ASSUME edits' = [edits EXCEPT ![e] = Resting] PROVE AnalysisInputsInv'
  BY <1>4, <1>5, RestingFits
<1>6. ASSUME NEW metric \in 1..metrics \cup {Unset}, NEW parent \in DOMAIN groundedJobs \cup {Unset},
             Generate(e, metric, parent)
      PROVE  AnalysisInputsInv'
  <2>1. PICK edit : edit = [step |-> "asset", metric |-> metric, parent |-> parent, snapshot |-> 0]
    OBVIOUS
  <2>2. edit \in Askings
    BY <1>2, <2>1 DEF Askings
  <2>3. edit \in EditSteps /\ EditFits(edit)
    BY <2>1, <2>2 DEF EditSteps, EditFits
  <2> QED
    BY <1>4, <1>6, <2>1, <2>3 DEF Generate
<1>7. CASE FindReadyAsset(e)
  <2>1. PICK edit : edit = [edits[e] EXCEPT !.step = "metrics", !.snapshot = snapshot]
    OBVIOUS
  <2>2. edits[e] \in Askings
    BY <1>1, <1>7, EditShapes DEF FindReadyAsset
  <2>3. edit \in Askings /\ edit.metric = edits[e].metric /\ edit.parent = edits[e].parent
        /\ edit.step = "metrics"
    BY <1>2, <2>1, <2>2 DEF Askings
  <2>4. edit \in EditSteps /\ EditFits(edit)
    BY <1>1, <1>7, <2>3 DEF EditSteps, EditFits, FindReadyAsset
  <2> QED
    BY <1>4, <1>5, <1>7, <2>1, <2>4 DEF FindReadyAsset
<1>8. CASE ChooseMetric(e)
  <2>1. PICK metric : metric = ChosenMetric(edits[e].metric)
    OBVIOUS
  <2>2. PICK edit : edit = [edits[e] EXCEPT !.step = "brief", !.metric = metric]
    OBVIOUS
  <2>3. edits[e] \in Askings /\ edits[e].step = "metrics"
    BY <1>1, <1>8, EditShapes DEF ChooseMetric
  <2>4. metric # Unset => metric \in 1..metrics
    BY <1>1, <1>2, <2>1, <2>3 DEF ChosenMetric, EditFits
  <2>5. ASSUME metric # Unset PROVE edit \in EditSteps /\ EditFits(edit)
    <3>1. metric \in Nat
      BY <1>2, <2>4, <2>5
    <3>2. edit \in Askings /\ edit.metric = metric /\ edit.parent = edits[e].parent
          /\ edit.step = "brief"
      BY <2>2, <2>3, <3>1 DEF Askings
    <3> QED
      BY <1>1, <2>3, <2>4, <2>5, <3>2 DEF EditSteps, EditFits
  <2> QED
    BY <1>4, <1>5, <1>8, <2>1, <2>2, <2>5 DEF ChooseMetric
<1>9. CASE RequireBrief(e)
  <2>1. PICK edit : edit = [step |-> "insert", parent |-> edits[e].parent,
                            metric |-> edits[e].metric, snapshot |-> edits[e].snapshot,
                            brief |-> LatestBrief.content]
    OBVIOUS
  <2>2. edits[e] \in Askings /\ edits[e].step = "brief"
    BY <1>1, <1>9, EditShapes DEF RequireBrief
  <2>3. ASSUME briefs # <<>>, LatestBrief.status = "confirmed", SameInputs(edits[e])
        PROVE  edit \in EditSteps /\ EditFits(edit)
    <3>1. briefs \in Seq(BriefRows)
      BY DEF AnalysisInputsTypeOK
    <3>2. Len(briefs) \in DOMAIN briefs
      BY <2>3, <3>1, LenProperties, EmptySeq
    <3>3. LatestBrief \in BriefRows /\ LatestBrief.content \in confirmations
      BY <2>3, <3>1, <3>2, PlacesOf DEF LatestBrief, BriefsJudged
    <3>4. LatestBrief.content \in Contents
      BY <3>3 DEF BriefRows
    <3>5. edit \in Frozens
      BY <2>1, <2>2, <3>4 DEF Askings, Frozens
    <3>6. SameInputs(edit)
      BY <2>1, <2>3 DEF SameInputs
    <3> QED
      BY <1>1, <2>1, <2>2, <3>3, <3>5, <3>6 DEF EditSteps, EditFits
  <2> QED
    BY <1>4, <1>5, <1>9, <2>1, <2>3 DEF RequireBrief
<1> QED
  BY <1>6, <1>7, <1>8, <1>9

\* A job is inserted with the inputs its request froze.
LEMMA StepInsertGrounded ==
    ASSUME AnalysisInputsInv, NEW e \in Editors, InsertGrounded(e)
    PROVE  AnalysisInputsInv'
<1> USE DEF AnalysisInputsInv
<1> DEFINE frozen == edits[e]
           job == [brief |-> frozen.brief, metric |-> frozen.metric, snapshot |-> frozen.snapshot,
                   parent |-> frozen.parent, stage |-> "queued"]
<1>1. frozen \in Frozens /\ frozen.step = "insert" /\ EditFits(frozen)
  <2>1. frozen \in EditSteps /\ EditFits(frozen) /\ frozen.step = "insert"
    BY DEF InsertGrounded, AnalysisInputsTypeOK, EditSteps, EditsFit
  <2> QED
    BY <2>1, EditShapes
<1>2. /\ frozen.metric \in 1..metrics /\ frozen.brief \in confirmations /\ metrics \in Nat
      /\ frozen.parent # Unset => /\ frozen.parent \in DOMAIN groundedJobs
                                  /\ groundedJobs[frozen.parent].snapshot = frozen.snapshot
                                  /\ groundedJobs[frozen.parent].metric = frozen.metric
  BY <1>1 DEF EditFits, SameInputs, AnalysisInputsTypeOK
<1>3. job \in GroundedJobs
  BY <1>1, <1>2 DEF Frozens, GroundedJobs
<1>4. /\ groundedJobs' = Append(groundedJobs, job) /\ edits' = [edits EXCEPT ![e] = Resting]
      /\ UNCHANGED <<briefs, metrics, snapshot, known, saves, confirmations>>
  BY DEF InsertGrounded
<1>5. /\ job.brief = frozen.brief /\ job.metric = frozen.metric
      /\ job.snapshot = frozen.snapshot /\ job.parent = frozen.parent
  OBVIOUS
<1> HIDE DEF job
<1>6. PICK n : /\ groundedJobs' \in Seq(GroundedJobs)
               /\ DOMAIN groundedJobs' = DOMAIN groundedJobs \cup {n}
               /\ \A i \in DOMAIN groundedJobs : groundedJobs'[i] = groundedJobs[i]
               /\ groundedJobs'[n] = job
  <2>1. groundedJobs \in Seq(GroundedJobs)
    BY DEF AnalysisInputsTypeOK
  <2> QED
    BY <1>3, <1>4, <2>1, Appended
<1>7. AnalysisInputsTypeOK'
  BY <1>4, <1>6 DEF AnalysisInputsTypeOK
<1>8. ASSUME NEW x, EditFits(x) PROVE EditFits(x)'
  BY <1>2, <1>4, <1>6, <1>8, FitsOn
<1>9. EditsFit'
  <2>1. EditFits(Resting)'
    BY RestingFits, <1>8
  <2> QED
    BY <1>4, <1>8, <2>1 DEF EditsFit, AnalysisInputsTypeOK
<1>10. BriefsJudged'
  BY <1>4 DEF BriefsJudged
<1>11. ParentsExist'
  BY <1>2, <1>5, <1>6 DEF ParentsExist
<1>12. JobsAreGrounded'
  <2>1. \A i \in DOMAIN briefs' : briefs'[i].status = "confirmed" => Complete(briefs'[i].content)
    BY <1>4 DEF BriefsJudged
  <2>2. ASSUME NEW j \in DOMAIN groundedJobs'
        PROVE  /\ groundedJobs'[j].brief \in confirmations' /\ groundedJobs'[j].metric \in 1..metrics'
               /\ groundedJobs'[j].parent # Unset =>
                     /\ groundedJobs'[j].snapshot = groundedJobs'[groundedJobs'[j].parent].snapshot
                     /\ groundedJobs'[j].metric = groundedJobs'[groundedJobs'[j].parent].metric
    <3>1. CASE j \in DOMAIN groundedJobs
      BY <1>4, <1>6, <3>1 DEF JobsAreGrounded, ParentsExist
    <3>2. CASE j = n
      BY <1>2, <1>4, <1>5, <1>6, <3>2
    <3> QED
      BY <1>6, <3>1, <3>2
  <2> QED
    BY <2>1, <2>2 DEF JobsAreGrounded
<1> QED
  BY <1>7, <1>9, <1>10, <1>11, <1>12

\* A new metric, a new snapshot, and a question of the worker.
LEMMA StepInputs ==
    ASSUME AnalysisInputsInv,
           \/ PublishSnapshot \/ (\E e \in Editors : ConfirmMetric(e))
           \/ \E j \in DOMAIN groundedJobs : AskQuestion(j)
    PROVE  AnalysisInputsInv'
<1> USE DEF AnalysisInputsInv
<1>1. UNCHANGED <<briefs, known, edits, saves, confirmations>>
  BY DEF PublishSnapshot, ConfirmMetric, AskQuestion
<1>2. metrics \in Nat /\ metrics' \in Nat /\ metrics <= metrics' /\ snapshot' \in Nat
  BY DEF PublishSnapshot, ConfirmMetric, AskQuestion, AnalysisInputsTypeOK
<1>3. /\ groundedJobs' \in Seq(GroundedJobs) /\ DOMAIN groundedJobs' = DOMAIN groundedJobs
      /\ \A i \in DOMAIN groundedJobs :
            /\ groundedJobs'[i].brief = groundedJobs[i].brief
            /\ groundedJobs'[i].metric = groundedJobs[i].metric
            /\ groundedJobs'[i].snapshot = groundedJobs[i].snapshot
            /\ groundedJobs'[i].parent = groundedJobs[i].parent
  <2>1. CASE UNCHANGED groundedJobs
    BY <2>1 DEF AnalysisInputsTypeOK
  <2>2. ASSUME NEW j \in DOMAIN groundedJobs, AskQuestion(j) PROVE <1>3
    <3> DEFINE job == [groundedJobs[j] EXCEPT !.stage = "needs_clarification"]
    <3>1. groundedJobs \in Seq(GroundedJobs) /\ groundedJobs[j] \in GroundedJobs
      BY PlacesOf DEF AnalysisInputsTypeOK
    <3>2. /\ job \in GroundedJobs /\ job.brief = groundedJobs[j].brief
          /\ job.metric = groundedJobs[j].metric /\ job.snapshot = groundedJobs[j].snapshot
          /\ job.parent = groundedJobs[j].parent
      BY <3>1 DEF GroundedJobs
    <3>3. groundedJobs' = [groundedJobs EXCEPT ![j] = job]
      BY <2>2 DEF AskQuestion
    <3> HIDE DEF job
    <3>4. /\ groundedJobs' \in Seq(GroundedJobs) /\ DOMAIN groundedJobs' = DOMAIN groundedJobs
          /\ \A i \in DOMAIN groundedJobs :
                groundedJobs'[i] = IF i = j THEN job ELSE groundedJobs[i]
      BY <3>1, <3>2, <3>3, Changed
    <3> QED
      BY <3>2, <3>4
  <2> QED
    BY <2>1, <2>2 DEF PublishSnapshot, ConfirmMetric
<1>4. AnalysisInputsTypeOK'
  BY <1>1, <1>2, <1>3 DEF AnalysisInputsTypeOK
<1>5. ASSUME NEW x, EditFits(x) PROVE EditFits(x)'
  BY <1>1, <1>2, <1>3, <1>5, FitsOn
<1>6. EditsFit' /\ BriefsJudged'
  BY <1>1, <1>5 DEF EditsFit, BriefsJudged
<1>7. ParentsExist'
  BY <1>3 DEF ParentsExist
<1>8. JobsAreGrounded'
  <2>1. \A i \in DOMAIN briefs' : briefs'[i].status = "confirmed" => Complete(briefs'[i].content)
    BY <1>1 DEF BriefsJudged
  <2>2. ASSUME NEW j \in DOMAIN groundedJobs'
        PROVE  /\ groundedJobs'[j].brief \in confirmations' /\ groundedJobs'[j].metric \in 1..metrics'
               /\ groundedJobs'[j].parent # Unset =>
                     /\ groundedJobs'[j].snapshot = groundedJobs'[groundedJobs'[j].parent].snapshot
                     /\ groundedJobs'[j].metric = groundedJobs'[groundedJobs'[j].parent].metric
    <3>1. /\ groundedJobs[j].brief \in confirmations /\ groundedJobs[j].metric \in 1..metrics
          /\ groundedJobs[j].parent # Unset =>
                /\ groundedJobs[j].parent \in DOMAIN groundedJobs
                /\ groundedJobs[j].snapshot = groundedJobs[groundedJobs[j].parent].snapshot
                /\ groundedJobs[j].metric = groundedJobs[groundedJobs[j].parent].metric
      BY <1>3, <2>2 DEF JobsAreGrounded, ParentsExist
    <3> QED
      BY <1>1, <1>2, <1>3, <2>2, <3>1
  <2> QED
    BY <2>1, <2>2 DEF JobsAreGrounded
<1> QED
  BY <1>4, <1>6, <1>7, <1>8

\* The invariant is inductive.
LEMMA AnalysisInputsStep ==
    AnalysisInputsInv /\ [AnalysisInputsNext]_analysisInputsVars => AnalysisInputsInv'
<1> SUFFICES ASSUME AnalysisInputsInv, [AnalysisInputsNext]_analysisInputsVars
    PROVE  AnalysisInputsInv'
  OBVIOUS
<1>1. CASE UNCHANGED analysisInputsVars
  BY <1>1 DEF analysisInputsVars, AnalysisInputsInv, AnalysisInputsTypeOK, BriefsJudged, EditsFit,
     EditFits, SameInputs, ParentsExist, JobsAreGrounded
<1> QED
  BY <1>1, StepForm, StepCreateBrief, StepWriteDraft, StepWriteConfirmed, StepCheck,
     StepInsertGrounded, StepInputs DEF AnalysisInputsNext

\* The invariant of the inputs of generations holds.
THEOREM AnalysisInputsInvariance == AnalysisInputsSpec => []AnalysisInputsInv
  BY AnalysisInputsStart, AnalysisInputsStep, PTL DEF AnalysisInputsSpec

\* Whatever edits, confirmations and uploads overlap, a job is based on contents that a
\* confirmation has judged, and an answer on the snapshot and the metric of its question.
THEOREM JobsStayGrounded == AnalysisInputsSpec => []JobsAreGrounded
<1>1. AnalysisInputsInv => JobsAreGrounded
  BY DEF AnalysisInputsInv
<1> QED
  BY <1>1, AnalysisInputsInvariance, PTL

-----------------------------------------------------------------------------
(* Accounts: the inductive invariant *)

People == Nat \cup {Legacy}
AccountRecords == [name : Names, active : BOOLEAN, alias : {Legacy, Nobody}]
WorkspaceRecords == [by : {"earlier", "request", "provision"}, members : SUBSET People]
ProjectRecords == [workspace : Nat, slug : Nat, members : SUBSET People]

\* What a process is doing, with what it has read for it.
RequestSteps == {"lock", "retry", "recheck", "create", "list", "project"}
TaskRecords ==
    [step : {"none", "anyUser", "insertFirst"}]
    \cup [step : {"verify"}, id : Nat, active : BOOLEAN]
    \cup [step : {"provision"}, user : Nat, workspace : Nat]
    \cup [step : RequestSteps, user : Nat, op : {"list", "project"}, workspace : Nat]
    \cup [step : {"insertProject"}, user : Nat, workspace : Nat, slug : Nat]
    \cup [step : {"member"}, user : Nat, project : Nat]

AccountsTypeOK ==
    /\ accounts \in Seq(AccountRecords)
    /\ workspaces \in Seq(WorkspaceRecords)
    /\ ownProjects \in Seq(ProjectRecords)
    /\ tasks \in [Processes -> TaskRecords]

\* Members are accounts, or the identity before them, which has what was there earlier. Whoever
\* reaches a project reaches its workspace, and an account that has taken over leaves nothing.
HasTakenOver == \E id \in Ids : accounts[id].alias = Legacy
WorkspacesFit ==
    \A w \in DOMAIN workspaces :
        /\ workspaces[w].members \subseteq Ids \cup {Legacy}
        /\ Legacy \in workspaces[w].members => workspaces[w].by = "earlier" /\ ~HasTakenOver
ProjectsFit ==
    \A i \in DOMAIN ownProjects :
        /\ ownProjects[i].workspace \in DOMAIN workspaces
        /\ ownProjects[i].members \subseteq workspaces[ownProjects[i].workspace].members

MadeBy(u, maker) == {w \in WorkspacesOf(u) : workspaces[w].by = maker}
Makers == {"request", "provision"}
OneEach == \A id \in Ids, maker \in Makers : \A v, w \in MadeBy(id, maker) : v = w

\* What a process has read is still so, or is kept so by a lock of its user.
UserSteps == {"provision", "insertProject", "member"} \cup RequestSteps
TaskFits(task) ==
    /\ task.step \in UserSteps => task.user \in Ids
    /\ task.step \in {"list", "project", "insertProject"} => task.workspace \in WorkspacesOf(task.user)
    /\ task.step = "provision" =>
          IF task.workspace = 0 THEN MadeBy(task.user, "provision") = {}
                                ELSE task.workspace \in WorkspacesOf(task.user)
    /\ task.step = "create" => MadeBy(task.user, "request") = {}
    /\ task.step = "member" =>
          /\ task.project \in DOMAIN ownProjects
          /\ ownProjects[task.project].workspace \in WorkspacesOf(task.user)

Booting(task) == task.step \in {"anyUser", "insertFirst"}
BootFits(p) == /\ Booting(tasks[p]) => bootLock = p
               /\ tasks[p].step = "insertFirst" => ~HasTakenOver

Creating(task) == task.step \in {"recheck", "create"}
Excludes(one, other) ==
    (one.step = "provision" /\ other.step = "provision") \/ (Creating(one) /\ Creating(other))
    => one.user # other.user
Alone == \A p, q \in Processes : p # q => Excludes(tasks[p], tasks[q])

AccountsInv ==
    /\ AccountsTypeOK /\ WorkspacesFit /\ ProjectsFit /\ OneEach
    /\ \A p \in Processes : TaskFits(tasks[p]) /\ BootFits(p)
    /\ Alone

-----------------------------------------------------------------------------
(* Accounts: what the steps are built from *)

\* Some number of a set is the least.
LEMMA LeastOf ==
    ASSUME NEW T, T \subseteq Nat, T # {}
    PROVE  \E least \in T : \A y \in T : least <= y
<1>1. PICK least \in T : \A y \in T : ~ (<<y, least>> \in OpToRel(<, Nat))
  BY WFMin, NatLessThanWellFounded, Zenon
<1>2. ASSUME NEW y \in T
      PROVE  least <= y
  <2>1. y \in Nat /\ least \in Nat
    OBVIOUS
  <2>2. ~ (y < least)
    BY <1>1, <2>1 DEF OpToRel
  <2> QED
    BY <2>1, <2>2
<1> QED
  BY <1>2

\* Rows are numbered from 1.
LEMMA RowFacts ==
    ASSUME AccountsTypeOK
    PROVE  /\ Len(accounts) \in Nat /\ Ids = 1..Len(accounts)
           /\ Len(workspaces) \in Nat /\ DOMAIN workspaces = 1..Len(workspaces)
           /\ Len(ownProjects) \in Nat /\ DOMAIN ownProjects = 1..Len(ownProjects)
           /\ \A id \in Ids : accounts[id] \in AccountRecords
           /\ \A w \in DOMAIN workspaces : workspaces[w] \in WorkspaceRecords
           /\ \A i \in DOMAIN ownProjects : ownProjects[i] \in ProjectRecords
           /\ \A p \in Processes : tasks[p] \in TaskRecords
  BY LenProperties DEF AccountsTypeOK, Ids

\* The membership that came first is one of the user's, if there is any.
LEMMA FoundWorkspace ==
    ASSUME AccountsTypeOK, NEW u
    PROVE  /\ WorkspaceOf(u) \in Nat
           /\ WorkspaceOf(u) = 0 => WorkspacesOf(u) = {}
           /\ WorkspaceOf(u) # 0 => WorkspaceOf(u) \in WorkspacesOf(u)
<1>1. WorkspacesOf(u) \subseteq Nat \ {0}
  BY RowFacts DEF WorkspacesOf
<1>2. CASE WorkspacesOf(u) = {}
  BY <1>2 DEF WorkspaceOf
<1>3. CASE WorkspacesOf(u) # {}
  <2>1. \E w \in WorkspacesOf(u) : \A v \in WorkspacesOf(u) : w <= v
    BY <1>1, <1>3, LeastOf
  <2>2. WorkspaceOf(u) \in WorkspacesOf(u)
    BY <1>3, <2>1, Zenon DEF WorkspaceOf
  <2> QED
    BY <1>1, <2>2
<1> QED
  BY <1>2, <1>3

\* Rows are only added, and nobody loses a workspace.
RowsKept ==
    /\ Ids \subseteq Ids'
    /\ \A id \in Ids : WorkspacesOf(id) \subseteq WorkspacesOf(id)'
    /\ \A i \in DOMAIN ownProjects :
        i \in DOMAIN ownProjects' /\ ownProjects'[i].workspace = ownProjects[i].workspace
NoneMade(task) ==
    /\ task.step = "provision" /\ task.workspace = 0 => MadeBy(task.user, "provision") = {}
    /\ task.step = "create" => MadeBy(task.user, "request") = {}
LEMMA TaskStays ==
    ASSUME NEW task \in TaskRecords, TaskFits(task), RowsKept, NoneMade(task)'
    PROVE  TaskFits(task)'
<1>1. task.step \in UserSteps => task.user \in Ids /\ task.user \in Ids'
  BY DEF TaskFits, RowsKept
<1>2. ASSUME task.step \in UserSteps
      PROVE  WorkspacesOf(task.user) \subseteq WorkspacesOf(task.user)'
  BY <1>1, <1>2 DEF RowsKept
<1>3. task.step \in {"list", "project", "insertProject", "provision", "member"} => task.step \in UserSteps
  BY DEF UserSteps, RequestSteps
<1>4. (task.step \in {"list", "project", "insertProject"} => task.workspace \in WorkspacesOf(task.user))'
  BY <1>2, <1>3 DEF TaskFits
<1>5. (task.step = "provision" => IF task.workspace = 0 THEN MadeBy(task.user, "provision") = {}
                                  ELSE task.workspace \in WorkspacesOf(task.user))'
  BY <1>2, <1>3 DEF TaskFits, NoneMade
<1>6. (task.step = "member" => /\ task.project \in DOMAIN ownProjects
                               /\ ownProjects[task.project].workspace \in WorkspacesOf(task.user))'
  BY <1>2, <1>3 DEF TaskFits, RowsKept
<1>7. (task.step = "create" => MadeBy(task.user, "request") = {})'
  BY DEF NoneMade
<1> QED
  BY <1>1, <1>4, <1>5, <1>6, <1>7 DEF TaskFits

\* A step of one process leaves the others what they were doing.
LEMMA TaskTaken ==
    ASSUME AccountsTypeOK, NEW p \in Processes, NEW task, Goes(p, task)
    PROVE  /\ tasks'[p] = task
           /\ \A q \in Processes : q # p => tasks'[q] = tasks[q]
           /\ task \in TaskRecords => tasks' \in [Processes -> TaskRecords]
  BY DEF AccountsTypeOK, Goes

\* The others stay as they must be, and the process takes up what fits.
LEMMA TasksFitOn ==
    ASSUME AccountsInv, RowsKept, NEW p \in Processes, NEW task \in TaskRecords, Goes(p, task),
           TaskFits(task)',
           \A q \in Processes : q # p => NoneMade(tasks[q])'
    PROVE  \A q \in Processes : TaskFits(tasks[q])'
<1>1. ASSUME NEW q \in Processes
      PROVE  TaskFits(tasks[q])'
  <2>1. CASE q = p
    BY <2>1, TaskTaken DEF AccountsInv, TaskFits
  <2>2. CASE q # p
    <3>1. PICK other : other = tasks[q]
      OBVIOUS
    <3>2. other \in TaskRecords /\ TaskFits(other) /\ tasks'[q] = other
      BY <2>2, <3>1, RowFacts, TaskTaken DEF AccountsInv
    <3>3. NoneMade(other)'
      BY <2>2, <3>1, <3>2 DEF NoneMade
    <3>4. TaskFits(other)'
      BY <3>2, <3>3, TaskStays
    <3> QED
      BY <3>2, <3>4 DEF TaskFits
  <2> QED
    BY <2>1, <2>2
<1> QED
  BY <1>1

LEMMA AloneOn ==
    ASSUME AccountsTypeOK, Alone, NEW p \in Processes, NEW task, Goes(p, task),
           \A q \in Processes : q # p => Excludes(task, tasks[q])
    PROVE  Alone'
<1>1. ASSUME NEW q \in Processes, NEW r \in Processes, q # r
      PROVE  Excludes(tasks'[q], tasks'[r])
  <2>1. CASE q # p /\ r # p
    BY <1>1, <2>1, TaskTaken DEF Alone
  <2>2. CASE q = p
    BY <1>1, <2>2, TaskTaken
  <2>3. CASE r = p
    BY <1>1, <2>3, TaskTaken DEF Excludes
  <2> QED
    BY <2>1, <2>2, <2>3
<1> QED
  BY <1>1 DEF Alone, Excludes, Creating

\* Who holds the lock of the bootstrap keeps it until the process itself gives it back.
LEMMA BootOn ==
    ASSUME AccountsInv, NEW p \in Processes, NEW task, Goes(p, task),
           HasTakenOver' => HasTakenOver \/ bootLock = p,
           \A q \in Processes : q # p /\ bootLock = q => bootLock' = q,
           Booting(task) => bootLock' = p,
           task.step = "insertFirst" => ~HasTakenOver'
    PROVE  \A q \in Processes : BootFits(q)'
<1>1. ASSUME NEW q \in Processes
      PROVE  BootFits(q)'
  <2>1. CASE q = p
    BY <2>1, TaskTaken DEF AccountsInv, BootFits, Booting
  <2>2. CASE q # p
    <3>1. tasks'[q] = tasks[q] /\ BootFits(q)
      BY <2>2, TaskTaken DEF AccountsInv
    <3> QED
      BY <2>2, <3>1 DEF BootFits, Booting
  <2> QED
    BY <2>1, <2>2
<1> QED
  BY <1>1

-----------------------------------------------------------------------------
(* Accounts: the inductive invariant is inductive *)

LEMMA AccountsStart == AccountsInit => AccountsInv
<1> SUFFICES ASSUME AccountsInit PROVE AccountsInv
  OBVIOUS
<1>1. AccountsTypeOK
  <2>1. [by |-> "earlier", members |-> {Legacy}] \in WorkspaceRecords
    BY DEF WorkspaceRecords, People
  <2>2. [workspace |-> 1, slug |-> 1, members |-> {Legacy}] \in ProjectRecords
    BY DEF ProjectRecords, People
  <2>3. IdleTask \in TaskRecords
    BY DEF IdleTask, TaskRecords
  <2> QED
    BY <2>1, <2>2, <2>3 DEF AccountsInit, AccountsTypeOK
<1>2. Ids = {} /\ DOMAIN workspaces = {1} /\ DOMAIN ownProjects = {1}
  BY DEF AccountsInit, Ids
<1>3. WorkspacesFit /\ ProjectsFit /\ OneEach
  BY <1>2 DEF AccountsInit, WorkspacesFit, ProjectsFit, OneEach, HasTakenOver
<1>4. \A p \in Processes : TaskFits(tasks[p]) /\ BootFits(p)
  BY DEF AccountsInit, IdleTask, TaskFits, BootFits, Booting, UserSteps, RequestSteps
<1>5. Alone
  BY DEF AccountsInit, IdleTask, Alone, Excludes, Creating
<1> QED
  BY <1>1, <1>3, <1>4, <1>5 DEF AccountsInv

\* What is said of rows holds as long as no row changes.
LEMMA RowsStay ==
    ASSUME UNCHANGED <<accounts, workspaces, ownProjects>>
    PROVE  /\ WorkspacesFit' <=> WorkspacesFit
           /\ ProjectsFit' <=> ProjectsFit
           /\ OneEach' <=> OneEach
           /\ HasTakenOver' <=> HasTakenOver
           /\ RowsKept
           /\ \A task : /\ TaskFits(task)' <=> TaskFits(task)
                        /\ NoneMade(task)' <=> NoneMade(task)
<1>1. WorkspacesFit' <=> WorkspacesFit
  BY DEF WorkspacesFit, HasTakenOver, Ids
<1>2. ProjectsFit' <=> ProjectsFit
  BY DEF ProjectsFit
<1>3. OneEach' <=> OneEach
  BY DEF OneEach, MadeBy, WorkspacesOf, Ids
<1>4. HasTakenOver' <=> HasTakenOver
  BY DEF HasTakenOver, Ids
<1>5. RowsKept
  BY DEF RowsKept, Ids, WorkspacesOf
<1>6. ASSUME NEW task
      PROVE  (TaskFits(task)' <=> TaskFits(task)) /\ (NoneMade(task)' <=> NoneMade(task))
  BY DEF TaskFits, NoneMade, MadeBy, WorkspacesOf, Ids
<1> QED
  BY <1>1, <1>2, <1>3, <1>4, <1>5, <1>6

\* A process that fits creates only what nobody has made yet.
LEMMA NoneMadeYet == ASSUME NEW task, TaskFits(task) PROVE NoneMade(task)
  BY DEF TaskFits, NoneMade

\* A step that changes no row takes up a task that fits and excludes nobody.
LEMMA StepTask ==
    ASSUME AccountsInv, NEW p \in Processes, NEW task \in TaskRecords, Goes(p, task),
           UNCHANGED <<accounts, workspaces, ownProjects>>,
           TaskFits(task),
           \A q \in Processes : q # p => Excludes(task, tasks[q]),
           \A q \in Processes : q # p /\ bootLock = q => bootLock' = q,
           Booting(task) => bootLock' = p,
           task.step = "insertFirst" => ~HasTakenOver
    PROVE  AccountsInv'
<1>1. AccountsTypeOK'
  BY TaskTaken DEF AccountsInv, AccountsTypeOK
<1>2. WorkspacesFit' /\ ProjectsFit' /\ OneEach'
  BY RowsStay DEF AccountsInv
<1>3. \A q \in Processes : TaskFits(tasks[q])'
  <2>1. ASSUME NEW q \in Processes, q # p
        PROVE  NoneMade(tasks[q])'
    <3>1. PICK other : other = tasks[q]
      OBVIOUS
    <3>2. tasks'[q] = other /\ NoneMade(other)
      BY <2>1, <3>1, TaskTaken, NoneMadeYet DEF AccountsInv
    <3>3. NoneMade(other)'
      BY <3>2, RowsStay
    <3> QED
      BY <3>2, <3>3 DEF NoneMade
  <2>2. TaskFits(task)' /\ RowsKept
    BY RowsStay
  <2> QED
    BY <2>1, <2>2, TasksFitOn
<1>4. \A q \in Processes : BootFits(q)'
  <2>1. HasTakenOver' <=> HasTakenOver
    BY RowsStay
  <2> QED
    BY <2>1, BootOn
<1>5. Alone'
  BY AloneOn DEF AccountsInv
<1> QED
  BY <1>1, <1>2, <1>3, <1>4, <1>5 DEF AccountsInv

\* Most steps neither boot, nor create, nor provision.
Plain(task) == ~Booting(task) /\ ~Creating(task) /\ task.step # "provision"
LEMMA StepPlain ==
    ASSUME AccountsInv, NEW p \in Processes, NEW task \in TaskRecords, Goes(p, task),
           UNCHANGED <<accounts, workspaces, ownProjects>>,
           Plain(task), TaskFits(task),
           \A q \in Processes : q # p /\ bootLock = q => bootLock' = q
    PROVE  AccountsInv'
<1>1. \A q \in Processes : q # p => Excludes(task, tasks[q])
  BY DEF Plain, Excludes
<1>2. ~Booting(task) /\ task.step # "insertFirst"
  BY DEF Plain, Booting
<1> QED
  BY <1>1, <1>2, StepTask

LEMMA IdleFits == IdleTask \in TaskRecords /\ TaskFits(IdleTask) /\ Plain(IdleTask)
  BY DEF IdleTask, TaskRecords, TaskFits, Plain, Booting, Creating, UserSteps, RequestSteps

\* Ending without a row.
LEMMA StepEnd ==
    ASSUME AccountsInv, NEW p \in Processes, Ends(p), UNCHANGED <<accounts, workspaces, ownProjects>>,
           \A q \in Processes : q # p /\ bootLock = q => bootLock' = q
    PROVE  AccountsInv'
  BY IdleFits, StepPlain DEF Ends

LEMMA StepLockBootstrap ==
    ASSUME AccountsInv, NEW p \in Processes, LockBootstrap(p)
    PROVE  AccountsInv'
<1> DEFINE task == [step |-> "anyUser"]
<1>1. task \in TaskRecords /\ TaskFits(task) /\ ~Creating(task) /\ task.step # "provision"
  BY DEF TaskRecords, TaskFits, Creating, UserSteps, RequestSteps
<1>2. Goes(p, task) /\ bootLock' = p /\ task.step # "insertFirst"
  BY DEF LockBootstrap
<1>3. UNCHANGED <<accounts, workspaces, ownProjects>>
  BY DEF LockBootstrap, NoRowChanges
<1>4. \A q \in Processes : q # p => Excludes(task, tasks[q])
  BY <1>1 DEF Excludes
<1>5. \A q \in Processes : q # p /\ bootLock = q => bootLock' = q
  BY AccountsAssumption DEF LockBootstrap
<1> HIDE DEF task
<1> QED
  BY <1>1, <1>2, <1>3, <1>4, <1>5, StepTask

\* Without an account nobody has taken over.
LEMMA StepFindUser ==
    ASSUME AccountsInv, NEW p \in Processes, FindUser(p)
    PROVE  AccountsInv'
<1>1. UNCHANGED <<accounts, workspaces, ownProjects>> /\ Booting(tasks[p]) /\ bootLock = p
  BY DEF FindUser, NoRowChanges, AccountsInv, BootFits, Booting, Doing
<1>2. CASE accounts = <<>>
  <2> DEFINE task == [step |-> "insertFirst"]
  <2>1. task \in TaskRecords /\ TaskFits(task) /\ ~Creating(task) /\ task.step # "provision"
    BY DEF TaskRecords, TaskFits, Creating, UserSteps, RequestSteps
  <2>2. Goes(p, task) /\ bootLock' = p /\ ~HasTakenOver
    BY <1>1, <1>2 DEF FindUser, HasTakenOver, Ids
  <2>3. \A q \in Processes : q # p => Excludes(task, tasks[q])
    BY <2>1 DEF Excludes
  <2> HIDE DEF task
  <2> QED
    BY <1>1, <2>1, <2>2, <2>3, StepTask
<1>3. CASE accounts # <<>>
  BY <1>1, <1>3, StepEnd DEF FindUser
<1> QED
  BY <1>2, <1>3

\* A death gives back the locks of the process, and only those.
LEMMA StepDies == ASSUME AccountsInv, NEW p \in Processes, Dies(p) PROVE AccountsInv'
<1>1. UNCHANGED <<accounts, workspaces, ownProjects>> /\ Ends(p)
  BY DEF Dies, NoRowChanges
<1>2. \A q \in Processes : q # p /\ bootLock = q => bootLock' = q
  BY DEF Dies
<1> QED
  BY <1>1, <1>2, StepEnd

\* One run of provisioning for each user at a time.
LEMMA StepReadProvision ==
    ASSUME AccountsInv, NEW p \in Processes, NEW u \in Ids, ReadProvision(p, u)
    PROVE  AccountsInv'
<1>1. PICK w \in IF WorkspacesOf(u) = {} THEN {0} ELSE WorkspacesOf(u) :
        Goes(p, [step |-> "provision", user |-> u, workspace |-> w])
  BY DEF ReadProvision
<1> DEFINE task == [step |-> "provision", user |-> u, workspace |-> w]
<1>2. w \in Nat /\ u \in Nat /\ (w = 0 => WorkspacesOf(u) = {}) /\ (w # 0 => w \in WorkspacesOf(u))
  BY RowFacts DEF WorkspacesOf, AccountsInv
<1>3. task \in TaskRecords /\ task.step = "provision" /\ task.user = u /\ task.workspace = w
  BY <1>2 DEF TaskRecords
<1>4. TaskFits(task)
  BY <1>2, <1>3 DEF TaskFits, MadeBy
<1>5. ASSUME NEW q \in Processes
      PROVE  Excludes(task, tasks[q])
  BY <1>3 DEF Excludes, ReadProvision, Provisioning, Doing, Creating
<1>6. UNCHANGED <<accounts, workspaces, ownProjects>> /\ UNCHANGED bootLock /\ Goes(p, task)
  BY <1>1 DEF ReadProvision, NoRowChanges
<1>7. ~Booting(task) /\ task.step # "insertFirst"
  BY <1>3 DEF Booting
<1> HIDE DEF task
<1> QED
  BY <1>3, <1>4, <1>5, <1>6, <1>7, StepTask

LEMMA StepLogin ==
    ASSUME AccountsInv, NEW p \in Processes,
           (\E id \in Ids : ReadAccount(p, id)) \/ (\E matches \in BOOLEAN : SignSession(p, matches))
    PROVE  AccountsInv'
<1>1. ASSUME NEW id \in Ids, ReadAccount(p, id)
      PROVE  AccountsInv'
  <2> DEFINE task == [step |-> "verify", id |-> id, active |-> accounts[id].active]
  <2>1. id \in Nat /\ accounts[id].active \in BOOLEAN
    BY RowFacts DEF AccountsInv, AccountRecords
  <2>2. task \in TaskRecords /\ TaskFits(task) /\ Plain(task)
    BY <2>1 DEF TaskRecords, TaskFits, Plain, Booting, Creating, UserSteps, RequestSteps
  <2>3. UNCHANGED <<accounts, workspaces, ownProjects>> /\ UNCHANGED bootLock /\ Goes(p, task)
    BY <1>1 DEF ReadAccount, NoRowChanges
  <2> HIDE DEF task
  <2> QED
    BY <2>2, <2>3, StepPlain
<1>2. ASSUME NEW matches \in BOOLEAN, SignSession(p, matches)
      PROVE  AccountsInv'
  BY <1>2, StepEnd DEF SignSession
<1> QED
  BY <1>1, <1>2

\* What a request that goes on knows of itself.
LEMMA RequestFacts ==
    ASSUME AccountsInv, NEW p \in Processes, tasks[p].step \in RequestSteps
    PROVE  /\ tasks[p].user \in Ids /\ tasks[p].user \in Nat
           /\ tasks[p].op \in {"list", "project"} /\ tasks[p].workspace \in Nat
<1>1. tasks[p] \in TaskRecords /\ TaskFits(tasks[p]) /\ Ids \subseteq Nat
  BY RowFacts DEF AccountsInv
<1> QED
  BY <1>1 DEF TaskRecords, TaskFits, UserSteps, RequestSteps

\* The first look, and every look again that finds the workspace, go on with it.
LEMMA FoundFits ==
    ASSUME AccountsInv, NEW u \in Ids, NEW op \in {"list", "project"}, WorkspaceOf(u) # 0
    PROVE  LET task == [step |-> op, user |-> u, op |-> op, workspace |-> WorkspaceOf(u)] IN
           task \in TaskRecords /\ TaskFits(task) /\ Plain(task)
<1>1. WorkspaceOf(u) \in Nat /\ WorkspaceOf(u) \in WorkspacesOf(u) /\ u \in Nat
  BY FoundWorkspace, RowFacts DEF AccountsInv
<1> QED
  BY <1>1 DEF TaskRecords, TaskFits, Plain, Booting, Creating, UserSteps, RequestSteps

LEMMA StepFindWorkspace ==
    ASSUME AccountsInv, NEW p \in Processes, NEW u \in Ids, NEW op \in {"list", "project"},
           FindWorkspace(p, u, op)
    PROVE  AccountsInv'
<1>1. UNCHANGED <<accounts, workspaces, ownProjects>> /\ UNCHANGED bootLock
  BY DEF FindWorkspace, NoRowChanges
<1>2. CASE WorkspaceOf(u) = 0
  <2> DEFINE task == [step |-> "lock", user |-> u, op |-> op, workspace |-> 0]
  <2>1. task \in TaskRecords /\ TaskFits(task) /\ Plain(task)
    BY RowFacts DEF AccountsInv, TaskRecords, TaskFits, Plain, Booting, Creating, UserSteps,
       RequestSteps
  <2>2. Goes(p, task)
    BY <1>2 DEF FindWorkspace
  <2> HIDE DEF task
  <2> QED
    BY <1>1, <2>1, <2>2, StepPlain
<1>3. CASE WorkspaceOf(u) # 0
  <2> DEFINE task == [step |-> op, user |-> u, op |-> op, workspace |-> WorkspaceOf(u)]
  <2>1. task \in TaskRecords /\ TaskFits(task) /\ Plain(task)
    BY <1>3, FoundFits
  <2>2. Goes(p, task)
    BY <1>3 DEF FindWorkspace
  <2> HIDE DEF task
  <2> QED
    BY <1>1, <2>1, <2>2, StepPlain
<1> QED
  BY <1>2, <1>3

\* Only one of a user's requests has the lock.
LEMMA StepTryLock == ASSUME AccountsInv, NEW p \in Processes, TryLock(p) PROVE AccountsInv'
<1>1. UNCHANGED <<accounts, workspaces, ownProjects>> /\ UNCHANGED bootLock
  BY DEF TryLock, NoRowChanges
<1>2. /\ tasks[p].user \in Ids /\ tasks[p].user \in Nat
      /\ tasks[p].op \in {"list", "project"}
  BY RequestFacts DEF TryLock, Doing, RequestSteps
<1>3. CASE Locked(tasks[p].user)
  <2> DEFINE task == Request(p, "retry", 0)
  <2>1. task \in TaskRecords /\ TaskFits(task) /\ Plain(task)
    BY <1>2 DEF Request, TaskRecords, TaskFits, Plain, Booting, Creating, UserSteps, RequestSteps
  <2>2. Goes(p, task)
    BY <1>3 DEF TryLock
  <2> HIDE DEF task
  <2> QED
    BY <1>1, <2>1, <2>2, StepPlain
<1>4. CASE ~Locked(tasks[p].user)
  <2> DEFINE task == Request(p, "recheck", 0)
  <2>1. task \in TaskRecords /\ TaskFits(task) /\ ~Booting(task) /\ task.step = "recheck"
        /\ task.user = tasks[p].user
    BY <1>2 DEF Request, TaskRecords, TaskFits, Booting, UserSteps, RequestSteps
  <2>2. \A q \in Processes : Excludes(task, tasks[q])
    BY <1>4, <2>1 DEF Locked, Excludes, Creating
  <2>3. Goes(p, task) /\ task.step # "insertFirst"
    BY <1>4, <2>1 DEF TryLock
  <2> HIDE DEF task
  <2> QED
    BY <1>1, <2>1, <2>2, <2>3, StepTask
<1> QED
  BY <1>3, <1>4

\* A request that looks again under the lock creates only what it does not find.
LEMMA StepRecheck == ASSUME AccountsInv, NEW p \in Processes, Recheck(p) PROVE AccountsInv'
<1>1. UNCHANGED <<accounts, workspaces, ownProjects>> /\ UNCHANGED bootLock
  BY DEF Recheck, NoRowChanges
<1>2. /\ tasks[p].user \in Ids /\ tasks[p].user \in Nat
      /\ tasks[p].op \in {"list", "project"}
  BY RequestFacts DEF Recheck, Doing, RequestSteps
<1>3. CASE WorkspaceOf(tasks[p].user) = 0
  <2> DEFINE task == Request(p, "create", 0)
  <2>1. MadeBy(tasks[p].user, "request") = {}
    BY <1>3, FoundWorkspace DEF AccountsInv, MadeBy
  <2>2. task \in TaskRecords /\ TaskFits(task) /\ ~Booting(task) /\ task.step = "create"
        /\ task.user = tasks[p].user
    BY <1>2, <2>1 DEF Request, TaskRecords, TaskFits, Booting, UserSteps, RequestSteps
  <2>3. Creating(tasks[p])
    BY DEF Recheck, Doing, Creating
  <2>4. \A q \in Processes : q # p => Excludes(tasks[p], tasks[q])
    BY DEF AccountsInv, Alone
  <2>5. \A q \in Processes : q # p => Excludes(task, tasks[q])
    BY <2>2, <2>3, <2>4 DEF Excludes
  <2>6. Goes(p, task) /\ task.step # "insertFirst"
    BY <1>3, <2>2 DEF Recheck
  <2> HIDE DEF task
  <2> QED
    BY <1>1, <2>2, <2>5, <2>6, StepTask
<1>4. CASE WorkspaceOf(tasks[p].user) # 0
  <2> DEFINE task == Request(p, tasks[p].op, WorkspaceOf(tasks[p].user))
  <2>1. task \in TaskRecords /\ TaskFits(task) /\ Plain(task)
    BY <1>2, <1>4, FoundFits DEF Request
  <2>2. Goes(p, task)
    BY <1>4 DEF Recheck
  <2> HIDE DEF task
  <2> QED
    BY <1>1, <2>1, <2>2, StepPlain
<1> QED
  BY <1>3, <1>4

LEMMA StepRetryFind == ASSUME AccountsInv, NEW p \in Processes, RetryFind(p) PROVE AccountsInv'
<1>1. UNCHANGED <<accounts, workspaces, ownProjects>> /\ UNCHANGED bootLock
  BY DEF RetryFind, NoRowChanges
<1>2. tasks[p].user \in Ids /\ tasks[p].op \in {"list", "project"}
  BY RequestFacts DEF RetryFind, Doing, RequestSteps
<1>3. CASE WorkspaceOf(tasks[p].user) = 0
  BY <1>1, <1>3, StepEnd DEF RetryFind
<1>4. CASE WorkspaceOf(tasks[p].user) # 0
  <2> DEFINE task == Request(p, tasks[p].op, WorkspaceOf(tasks[p].user))
  <2>1. task \in TaskRecords /\ TaskFits(task) /\ Plain(task)
    BY <1>2, <1>4, FoundFits DEF Request
  <2>2. Goes(p, task)
    BY <1>4 DEF RetryFind
  <2> HIDE DEF task
  <2> QED
    BY <1>1, <2>1, <2>2, StepPlain
<1> QED
  BY <1>3, <1>4

\* Some slug up to the bound is free, and the first of them is a number.
LEMMA StepFindSlug == ASSUME AccountsInv, NEW p \in Processes, FindSlug(p) PROVE AccountsInv'
<1> DEFINE free == {s \in 1..MaxProjects : s \notin SlugsOf(tasks[p].workspace)}
<1> DEFINE first == CHOOSE s \in free : \A t \in free : s <= t
<1> DEFINE task == [step |-> "insertProject", user |-> tasks[p].user,
                    workspace |-> tasks[p].workspace, slug |-> first]
<1>1. UNCHANGED <<accounts, workspaces, ownProjects>> /\ UNCHANGED bootLock /\ Goes(p, task)
  BY DEF FindSlug, NoRowChanges
<1>2. first \in Nat
  <2>1. free \subseteq Nat /\ free # {}
    BY AccountsAssumption DEF FindSlug
  <2> HIDE DEF free
  <2>2. \E s \in free : \A t \in free : s <= t
    BY <2>1, LeastOf
  <2>3. first \in free
    BY <2>2, Zenon
  <2> QED
    BY <2>1, <2>3
<1>3. /\ tasks[p].user \in Ids /\ tasks[p].user \in Nat /\ tasks[p].workspace \in Nat
      /\ tasks[p].step = "project" /\ TaskFits(tasks[p])
  BY RequestFacts DEF FindSlug, Doing, RequestSteps, AccountsInv
<1> HIDE DEF first
<1>4. task \in TaskRecords
  BY <1>2, <1>3 DEF TaskRecords
<1>5. task.step = "insertProject" /\ task.user = tasks[p].user /\ task.workspace = tasks[p].workspace
  OBVIOUS
<1> HIDE DEF task
<1>6. TaskFits(task) /\ Plain(task)
  BY <1>3, <1>5 DEF TaskFits, Plain, Booting, Creating, UserSteps, RequestSteps
<1> QED
  BY <1>1, <1>4, <1>6, StepPlain

\* Creating an account adds one.
LEMMA AccountAdded ==
    ASSUME AccountsTypeOK, NEW name \in Names, NEW alias \in {Legacy, Nobody},
           accounts' = Append(accounts, Account(name, alias))
    PROVE  LET id == Len(accounts) + 1 IN
           /\ accounts' \in Seq(AccountRecords)
           /\ Ids' = Ids \cup {id} /\ id \in Nat /\ id \notin Ids /\ id # Legacy
           /\ HasTakenOver' <=> HasTakenOver \/ alias = Legacy
<1>1. Account(name, alias) \in AccountRecords /\ Account(name, alias).alias = alias
  BY DEF Account, AccountRecords
<1>2. accounts \in Seq(AccountRecords)
  BY DEF AccountsTypeOK
<1> DEFINE new == Account(name, alias)
<1> HIDE DEF new
<1>3. /\ accounts' \in Seq(AccountRecords)
      /\ Ids = 1..Len(accounts) /\ Ids' = Ids \cup {Len(accounts) + 1} /\ Len(accounts) \in Nat
      /\ \A i \in Ids : accounts'[i] = accounts[i]
      /\ accounts'[Len(accounts) + 1].alias = alias
  BY <1>1, <1>2, Appended DEF new, Ids
<1>4. HasTakenOver' <=> HasTakenOver \/ alias = Legacy
  BY <1>3 DEF HasTakenOver
<1> QED
  BY <1>3, <1>4, AccountsAssumption

\* Nobody but accounts and the earlier identity is a member of anything.
LEMMA NewcomerHasNothing ==
    ASSUME AccountsInv, NEW id, id \notin Ids, id # Legacy
    PROVE  WorkspacesOf(id) = {}
  BY DEF AccountsInv, WorkspacesFit, WorkspacesOf

\* The commands.
LEMMA StepCreateAccount ==
    ASSUME AccountsInv, NEW name \in Names, CreateAccount(name)
    PROVE  AccountsInv'
<1> DEFINE id == Len(accounts) + 1
<1>1. accounts' = Append(accounts, Account(name, Nobody))
      /\ UNCHANGED <<workspaces, ownProjects, bootLock, tasks>>
  BY DEF CreateAccount
<1>2. /\ accounts' \in Seq(AccountRecords)
      /\ Ids' = Ids \cup {id} /\ id \in Nat /\ id \notin Ids /\ id # Legacy
      /\ HasTakenOver' <=> HasTakenOver
  BY <1>1, AccountAdded, AccountsAssumption DEF AccountsInv
<1> HIDE DEF id
<1>3. AccountsTypeOK'
  BY <1>1, <1>2 DEF AccountsInv, AccountsTypeOK
<1>4. WorkspacesFit' /\ ProjectsFit'
  BY <1>1, <1>2 DEF AccountsInv, WorkspacesFit, ProjectsFit
<1>5. \A u : WorkspacesOf(u)' = WorkspacesOf(u) /\ \A maker : MadeBy(u, maker)' = MadeBy(u, maker)
  BY <1>1 DEF WorkspacesOf, MadeBy
<1>6. OneEach'
  <2>1. \A maker : MadeBy(id, maker) = {}
    BY <1>2, NewcomerHasNothing DEF MadeBy
  <2> QED
    BY <1>2, <1>5, <2>1 DEF AccountsInv, OneEach
<1>7. RowsKept
  BY <1>1, <1>2, <1>5 DEF RowsKept
<1>8. ASSUME NEW q \in Processes
      PROVE  TaskFits(tasks[q])' /\ BootFits(q)'
  <2>1. PICK task : task = tasks[q]
    OBVIOUS
  <2>2. task \in TaskRecords /\ TaskFits(task) /\ tasks'[q] = task /\ BootFits(q)
    BY <1>1, <2>1, RowFacts DEF AccountsInv
  <2>3. NoneMade(task)'
    BY <1>5, <2>2, NoneMadeYet DEF NoneMade
  <2>4. TaskFits(task)'
    BY <1>7, <2>2, <2>3, TaskStays
  <2> QED
    BY <1>1, <1>2, <2>2, <2>4 DEF TaskFits, BootFits
<1>9. Alone'
  BY <1>1 DEF AccountsInv, Alone
<1> QED
  BY <1>3, <1>4, <1>6, <1>8, <1>9 DEF AccountsInv

LEMMA StepSetStatus ==
    ASSUME AccountsInv, NEW id \in Ids, NEW active \in BOOLEAN, SetStatus(id, active)
    PROVE  AccountsInv'
<1> DEFINE changed == [accounts[id] EXCEPT !.active = active]
<1>1. accounts' = [accounts EXCEPT ![id] = changed] /\ accounts \in Seq(AccountRecords)
      /\ UNCHANGED <<workspaces, ownProjects, bootLock, tasks>>
  BY DEF SetStatus, AccountsInv, AccountsTypeOK
<1>2. accounts[id] \in AccountRecords
  BY RowFacts DEF AccountsInv
<1>3. changed \in AccountRecords /\ changed.alias = accounts[id].alias
  BY <1>2 DEF AccountRecords
<1> HIDE DEF changed
<1>4. /\ accounts' \in Seq(AccountRecords) /\ Ids' = Ids
      /\ \A i \in Ids : accounts'[i].alias = accounts[i].alias
  BY <1>1, <1>3, Changed DEF Ids
<1>5. HasTakenOver' <=> HasTakenOver
  BY <1>4 DEF HasTakenOver
<1>6. AccountsTypeOK'
  BY <1>1, <1>4 DEF AccountsInv, AccountsTypeOK
<1>7. WorkspacesFit' /\ ProjectsFit'
  BY <1>1, <1>4, <1>5 DEF AccountsInv, WorkspacesFit, ProjectsFit
<1>8. \A u : WorkspacesOf(u)' = WorkspacesOf(u) /\ \A maker : MadeBy(u, maker)' = MadeBy(u, maker)
  BY <1>1 DEF WorkspacesOf, MadeBy
<1>9. OneEach' /\ Alone'
  BY <1>1, <1>4, <1>8 DEF AccountsInv, OneEach, Alone
<1>10. \A q \in Processes : TaskFits(tasks[q])' /\ BootFits(q)'
  BY <1>1, <1>4, <1>5, <1>8 DEF AccountsInv, TaskFits, BootFits
<1> QED
  BY <1>6, <1>7, <1>9, <1>10 DEF AccountsInv

\* Handing over gives the new account what the earlier identity had, and changes nothing else.
Given(members, id) == {IF u = Legacy THEN id ELSE u : u \in members}
LEMMA GivenMonotone ==
    ASSUME NEW members, NEW others, members \subseteq others, NEW id
    PROVE  Given(members, id) \subseteq Given(others, id)
  BY DEF Given
Give(row, id) == [row EXCEPT !.members = Given(row.members, id)]
LEMMA HandedOver ==
    ASSUME NEW R, NEW rows \in Seq(R), NEW id \in Nat,
           \A row \in R : Give(row, id) \in R
    PROVE  /\ HandOver(rows, id) \in Seq(R)
           /\ DOMAIN HandOver(rows, id) = DOMAIN rows
           /\ \A i \in DOMAIN rows :
                HandOver(rows, id)[i] = Give(rows[i], id)
<1>1. Len(rows) \in Nat /\ DOMAIN rows = 1..Len(rows) /\ \A i \in DOMAIN rows : rows[i] \in R
  BY LenProperties
<1>2. HandOver(rows, id) =
        [i \in DOMAIN rows |-> Give(rows[i], id)]
  BY Zenon DEF HandOver, Give, Given
<1>3. HandOver(rows, id) \in [1..Len(rows) -> R]
  BY <1>1, <1>2
<1>4. HandOver(rows, id) \in Seq(R)
  BY <1>1, <1>3, SeqDef
<1> QED
  BY <1>2, <1>4

\* What the rows of the earlier identity are after the first account has taken them over.
LEMMA RowsTakenOver ==
    ASSUME AccountsInv, ~HasTakenOver, NEW name \in Names,
           accounts' = Append(accounts, Account(name, Legacy)),
           NEW id, id = Len(accounts) + 1,
           workspaces' = HandOver(workspaces, id), ownProjects' = HandOver(ownProjects, id)
    PROVE  /\ workspaces' \in Seq(WorkspaceRecords) /\ ownProjects' \in Seq(ProjectRecords)
           /\ DOMAIN workspaces' = DOMAIN workspaces /\ DOMAIN ownProjects' = DOMAIN ownProjects
           /\ \A w \in DOMAIN workspaces :
                /\ workspaces'[w].by = workspaces[w].by
                /\ workspaces'[w].members = Given(workspaces[w].members, id)
           /\ \A i \in DOMAIN ownProjects :
                /\ ownProjects'[i].workspace = ownProjects[i].workspace
                /\ ownProjects'[i].members = Given(ownProjects[i].members, id)
<1>1. id \in Nat /\ id \in People
  BY RowFacts DEF AccountsInv, People
<1>3. \A members : members \subseteq People => Given(members, id) \subseteq People
  BY <1>1 DEF Given
<1>4. \A row \in WorkspaceRecords :
        /\ Give(row, id) \in WorkspaceRecords
        /\ Give(row, id).by = row.by
        /\ Give(row, id).members = Given(row.members, id)
  BY <1>3 DEF WorkspaceRecords, Give
<1>5. \A row \in ProjectRecords :
        /\ Give(row, id) \in ProjectRecords
        /\ Give(row, id).workspace = row.workspace
        /\ Give(row, id).members = Given(row.members, id)
  BY <1>3 DEF ProjectRecords, Give
<1>6. workspaces \in Seq(WorkspaceRecords) /\ ownProjects \in Seq(ProjectRecords)
      /\ (\A w \in DOMAIN workspaces : workspaces[w] \in WorkspaceRecords)
      /\ (\A i \in DOMAIN ownProjects : ownProjects[i] \in ProjectRecords)
  BY RowFacts DEF AccountsInv, AccountsTypeOK
<1>7. /\ HandOver(workspaces, id) \in Seq(WorkspaceRecords)
      /\ DOMAIN HandOver(workspaces, id) = DOMAIN workspaces
      /\ \A w \in DOMAIN workspaces : HandOver(workspaces, id)[w] =
                                        Give(workspaces[w], id)
  <2>1. \A row \in WorkspaceRecords :
          Give(row, id) \in WorkspaceRecords
    BY <1>4
  <2> QED
    BY <1>1, <1>6, <2>1, HandedOver
<1>8. /\ HandOver(ownProjects, id) \in Seq(ProjectRecords)
      /\ DOMAIN HandOver(ownProjects, id) = DOMAIN ownProjects
      /\ \A i \in DOMAIN ownProjects : HandOver(ownProjects, id)[i] =
                                         Give(ownProjects[i], id)
  <2>1. \A row \in ProjectRecords :
          Give(row, id) \in ProjectRecords
    BY <1>5
  <2> QED
    BY <1>1, <1>6, <2>1, HandedOver
<1> QED
  BY <1>4, <1>5, <1>6, <1>7, <1>8

\* The account that takes over gets the workspaces of the earlier identity; nobody else's change.
LEMMA MembershipsTakenOver ==
    ASSUME AccountsInv, ~HasTakenOver, NEW name \in Names,
           accounts' = Append(accounts, Account(name, Legacy)),
           NEW id, id = Len(accounts) + 1,
           workspaces' = HandOver(workspaces, id), ownProjects' = HandOver(ownProjects, id)
    PROVE  /\ WorkspacesFit' /\ ProjectsFit'
           /\ \A u \in Ids : WorkspacesOf(u)' = WorkspacesOf(u)
           /\ \A u \in Ids : \A maker : MadeBy(u, maker)' = MadeBy(u, maker)
           /\ \A maker \in Makers : MadeBy(id, maker)' = {}
<1>1. Ids' = Ids \cup {id} /\ id \in Nat /\ id \notin Ids /\ id # Legacy /\ Legacy \notin Ids
  BY AccountAdded, AccountsAssumption, RowFacts DEF AccountsInv
<1>2. /\ DOMAIN workspaces' = DOMAIN workspaces /\ DOMAIN ownProjects' = DOMAIN ownProjects
      /\ \A w \in DOMAIN workspaces : /\ workspaces'[w].by = workspaces[w].by
                                      /\ workspaces'[w].members = Given(workspaces[w].members, id)
      /\ \A i \in DOMAIN ownProjects : /\ ownProjects'[i].workspace = ownProjects[i].workspace
                                       /\ ownProjects'[i].members = Given(ownProjects[i].members, id)
  BY RowsTakenOver
<1>3. \A w \in DOMAIN workspaces :
        /\ workspaces[w].members \subseteq Ids \cup {Legacy}
        /\ Legacy \in workspaces[w].members => workspaces[w].by = "earlier"
  BY DEF AccountsInv, WorkspacesFit
<1>4. \A w \in DOMAIN workspaces :
        /\ Given(workspaces[w].members, id) \subseteq Ids \cup {id}
        /\ Legacy \notin Given(workspaces[w].members, id)
        /\ \A u \in Ids : u \in Given(workspaces[w].members, id) <=> u \in workspaces[w].members
        /\ id \in Given(workspaces[w].members, id) <=> Legacy \in workspaces[w].members
  <2>1. ASSUME NEW w \in DOMAIN workspaces
        PROVE  /\ Given(workspaces[w].members, id) \subseteq Ids \cup {id}
               /\ Legacy \notin Given(workspaces[w].members, id)
               /\ \A u \in Ids : u \in Given(workspaces[w].members, id) <=> u \in workspaces[w].members
               /\ id \in Given(workspaces[w].members, id) <=> Legacy \in workspaces[w].members
    <3>1. PICK members : members = workspaces[w].members
      OBVIOUS
    <3>2. members \in SUBSET (Ids \cup {Legacy}) /\ id \notin Ids /\ id # Legacy
      BY <1>1, <1>3, <3>1
    <3>3. /\ Given(members, id) \subseteq Ids \cup {id}
          /\ Legacy \notin Ids => Legacy \notin Given(members, id)
          /\ \A u \in Ids : u # Legacy => (u \in Given(members, id) <=> u \in members)
          /\ id \in Given(members, id) <=> Legacy \in members
      BY <3>2 DEF Given
    <3>4. \A u \in Ids : u # Legacy
      BY <1>1
    <3> QED
      BY <1>1, <3>1, <3>3, <3>4
  <2> QED
    BY <2>1
<1>5. WorkspacesFit'
  BY <1>1, <1>2, <1>4 DEF WorkspacesFit
<1>6. ProjectsFit'
  <2>1. \A i \in DOMAIN ownProjects :
          /\ ownProjects[i].workspace \in DOMAIN workspaces
          /\ Given(ownProjects[i].members, id)
                \subseteq Given(workspaces[ownProjects[i].workspace].members, id)
    BY GivenMonotone DEF AccountsInv, ProjectsFit
  <2>2. ASSUME NEW i \in DOMAIN ownProjects'
        PROVE  /\ ownProjects'[i].workspace \in DOMAIN workspaces'
               /\ ownProjects'[i].members \subseteq workspaces'[ownProjects'[i].workspace].members
    <3>1. i \in DOMAIN ownProjects /\ ownProjects[i].workspace \in DOMAIN workspaces
      BY <1>2, <2>1
    <3>2. workspaces'[ownProjects[i].workspace].members
            = Given(workspaces[ownProjects[i].workspace].members, id)
      BY <1>2, <3>1
    <3>3. /\ ownProjects'[i].workspace = ownProjects[i].workspace
          /\ ownProjects'[i].members = Given(ownProjects[i].members, id)
      BY <1>2, <3>1
    <3>4. Given(ownProjects[i].members, id)
            \subseteq Given(workspaces[ownProjects[i].workspace].members, id)
      BY <2>1, <3>1
    <3>5. DOMAIN workspaces' = DOMAIN workspaces
      BY <1>2
    <3> QED
      BY <3>1, <3>2, <3>3, <3>4, <3>5, Zenon
  <2> QED
    BY <2>2 DEF ProjectsFit
<1>7. \A u \in Ids : /\ WorkspacesOf(u)' = WorkspacesOf(u)
                     /\ \A maker : MadeBy(u, maker)' = MadeBy(u, maker)
  BY <1>2, <1>4 DEF WorkspacesOf, MadeBy
<1>8. \A maker \in Makers : MadeBy(id, maker)' = {}
  <2>1. \A w \in DOMAIN workspaces' : id \in workspaces'[w].members => workspaces'[w].by = "earlier"
    BY <1>2, <1>3, <1>4
  <2> QED
    BY <2>1 DEF WorkspacesOf, MadeBy, Makers
<1> QED
  BY <1>5, <1>6, <1>7, <1>8

\* An account that is new to all of this has made nothing.
LEMMA OneEachWithNewcomer ==
    ASSUME OneEach, NEW id, Ids' = Ids \cup {id},
           \A u \in Ids : \A maker \in Makers : MadeBy(u, maker)' = MadeBy(u, maker),
           \A maker \in Makers : MadeBy(id, maker)' = {}
    PROVE  OneEach'
<1>1. ASSUME NEW u \in Ids', NEW maker \in Makers
      PROVE  (\A v, w \in MadeBy(u, maker) : v = w)'
  <2>1. CASE u \in Ids
    BY <2>1 DEF OneEach
  <2>2. CASE u = id
    BY <2>2 DEF MadeBy, WorkspacesOf
  <2> QED
    BY <2>1, <2>2
<1> QED
  BY <1>1 DEF OneEach

LEMMA StepInsertFirst ==
    ASSUME AccountsInv, NEW p \in Processes, NEW name \in Names, NEW alias \in {Legacy, Nobody},
           InsertFirst(p, name, alias)
    PROVE  AccountsInv'
<1>0. PICK id : id = Len(accounts) + 1
  OBVIOUS
<1>1. /\ accounts' = Append(accounts, Account(name, alias))
      /\ Goes(p, IdleTask) /\ bootLock' = Nobody /\ bootLock = p /\ ~HasTakenOver
  BY DEF InsertFirst, Ends, Doing, AccountsInv, BootFits, Booting
<1>2. /\ accounts' \in Seq(AccountRecords)
      /\ Ids' = Ids \cup {id} /\ id \in Nat /\ id \notin Ids /\ id # Legacy
      /\ HasTakenOver' <=> HasTakenOver \/ alias = Legacy
  BY <1>0, <1>1, AccountAdded DEF AccountsInv
<1> DEFINE Rows ==
        /\ workspaces' \in Seq(WorkspaceRecords) /\ ownProjects' \in Seq(ProjectRecords)
        /\ WorkspacesFit' /\ ProjectsFit'
        /\ DOMAIN ownProjects' = DOMAIN ownProjects
        /\ \A i \in DOMAIN ownProjects : ownProjects'[i].workspace = ownProjects[i].workspace
        /\ \A u \in Ids : WorkspacesOf(u)' = WorkspacesOf(u)
        /\ \A u \in Ids : \A maker \in Makers : MadeBy(u, maker)' = MadeBy(u, maker)
        /\ \A maker \in Makers : MadeBy(id, maker)' = {}
<1>3. ASSUME alias = Legacy
      PROVE  Rows
  <2>1. workspaces' = HandOver(workspaces, id) /\ ownProjects' = HandOver(ownProjects, id)
    BY <1>0, <1>3 DEF InsertFirst
  <2>2. /\ workspaces' \in Seq(WorkspaceRecords) /\ ownProjects' \in Seq(ProjectRecords)
        /\ DOMAIN ownProjects' = DOMAIN ownProjects
        /\ \A i \in DOMAIN ownProjects : ownProjects'[i].workspace = ownProjects[i].workspace
    BY <1>0, <1>1, <1>3, <2>1, RowsTakenOver
  <2>3. /\ WorkspacesFit' /\ ProjectsFit'
        /\ \A u \in Ids : WorkspacesOf(u)' = WorkspacesOf(u)
        /\ \A u \in Ids : \A maker : MadeBy(u, maker)' = MadeBy(u, maker)
        /\ \A maker \in Makers : MadeBy(id, maker)' = {}
    BY <1>0, <1>1, <1>3, <2>1, MembershipsTakenOver
  <2> QED
    BY <2>2, <2>3
<1>4. ASSUME alias # Legacy
      PROVE  Rows
  <2>1. UNCHANGED <<workspaces, ownProjects>>
    BY <1>4 DEF InsertFirst
  <2>2. \A u : WorkspacesOf(u)' = WorkspacesOf(u) /\ \A maker : MadeBy(u, maker)' = MadeBy(u, maker)
    BY <2>1 DEF WorkspacesOf, MadeBy
  <2>3. WorkspacesFit' /\ ProjectsFit'
    BY <1>2, <1>4, <2>1 DEF AccountsInv, WorkspacesFit, ProjectsFit
  <2>4. \A maker : MadeBy(id, maker) = {}
    BY <1>2, NewcomerHasNothing DEF MadeBy
  <2> QED
    BY <2>1, <2>2, <2>3, <2>4 DEF AccountsInv, AccountsTypeOK
<1>5. Rows
  BY <1>3, <1>4
<1>6. OneEach'
  BY <1>2, <1>5, OneEachWithNewcomer DEF AccountsInv
<1>7. RowsKept
  BY <1>2, <1>5 DEF RowsKept
<1>8. IdleTask \in TaskRecords /\ Plain(IdleTask) /\ TaskFits(IdleTask)'
  BY IdleFits DEF IdleTask, TaskFits, UserSteps, RequestSteps
<1>9. ASSUME NEW q \in Processes, q # p
      PROVE  NoneMade(tasks[q])'
  <2>1. PICK task : task = tasks[q]
    OBVIOUS
  <2>2. tasks'[q] = task /\ TaskFits(task)
    BY <1>1, <1>9, <2>1, TaskTaken DEF AccountsInv
  <2>3. NoneMade(task)'
    BY <1>5, <2>2, NoneMadeYet DEF NoneMade, TaskFits, UserSteps, RequestSteps, Makers
  <2> QED
    BY <2>2, <2>3 DEF NoneMade
<1>10. \A q \in Processes : TaskFits(tasks[q])'
  BY <1>1, <1>7, <1>8, <1>9, TasksFitOn
<1>11. \A q \in Processes : BootFits(q)'
  <2>1. ~Booting(IdleTask) /\ IdleTask.step # "insertFirst"
    BY DEF IdleTask, Booting
  <2>2. \A q \in Processes : q # p => bootLock # q
    BY <1>1
  <2> QED
    BY <1>1, <2>1, <2>2, BootOn
<1>12. Alone'
  <2>1. \A q \in Processes : Excludes(IdleTask, tasks[q])
    BY <1>8 DEF Excludes, Plain
  <2> QED
    BY <1>1, <2>1, AloneOn DEF AccountsInv
<1>13. AccountsTypeOK'
  BY <1>1, <1>2, <1>5, <1>8, TaskTaken DEF AccountsInv, AccountsTypeOK
<1> QED
  BY <1>5, <1>6, <1>10, <1>11, <1>12, <1>13 DEF AccountsInv

\* A new workspace is its maker's, and changes nothing for anybody else.
LEMMA WorkspaceAdded ==
    ASSUME AccountsInv, NEW u \in Ids, NEW maker \in Makers, MadeBy(u, maker) = {},
           NEW new, new = Len(workspaces) + 1,
           workspaces' = Append(workspaces, [by |-> maker, members |-> {u}]), UNCHANGED accounts
    PROVE  /\ workspaces' \in Seq(WorkspaceRecords)
           /\ DOMAIN workspaces' = DOMAIN workspaces \cup {new} /\ new \in Nat /\ new # 0
           /\ \A w \in DOMAIN workspaces : workspaces'[w] = workspaces[w]
           /\ workspaces'[new].members = {u}
           /\ \A id \in Ids : WorkspacesOf(id) \subseteq WorkspacesOf(id)'
           /\ new \in WorkspacesOf(u)'
           /\ \A id \in Ids, other \in Makers :
                id # u \/ other # maker => MadeBy(id, other)' = MadeBy(id, other)
           /\ WorkspacesFit' /\ OneEach'
<1> DEFINE row == [by |-> maker, members |-> {u}]
<1>1. row \in WorkspaceRecords /\ row.by = maker /\ row.members = {u} /\ u # Legacy
  BY RowFacts, AccountsAssumption DEF AccountsInv, WorkspaceRecords, People, Makers
<1> HIDE DEF row
<1>2. /\ workspaces' \in Seq(WorkspaceRecords)
      /\ DOMAIN workspaces' = DOMAIN workspaces \cup {new} /\ new \in Nat /\ new # 0
      /\ new \notin DOMAIN workspaces
      /\ \A w \in DOMAIN workspaces : workspaces'[w] = workspaces[w]
      /\ workspaces'[new] = row
  <2>1. workspaces \in Seq(WorkspaceRecords) /\ workspaces' = Append(workspaces, row)
    BY DEF AccountsInv, AccountsTypeOK, row
  <2> QED
    BY <1>1, <2>1, Appended
<1>3. \A id \in Ids : WorkspacesOf(id)' = WorkspacesOf(id) \cup (IF id = u THEN {new} ELSE {})
  BY <1>1, <1>2 DEF WorkspacesOf
<1>4. \A id \in Ids, other \in Makers :
        MadeBy(id, other)' = MadeBy(id, other) \cup (IF id = u /\ other = maker THEN {new} ELSE {})
  <2>1. ASSUME NEW id \in Ids, NEW other \in Makers
        PROVE  MadeBy(id, other)' = MadeBy(id, other) \cup (IF id = u /\ other = maker THEN {new} ELSE {})
    <3>1. \A w \in WorkspacesOf(id) : workspaces'[w] = workspaces[w]
      BY <1>2 DEF WorkspacesOf
    <3>2. WorkspacesOf(id)' = WorkspacesOf(id) \cup (IF id = u THEN {new} ELSE {})
      BY <1>3
    <3>3. workspaces'[new].by = maker
      BY <1>1, <1>2
    <3> QED
      BY <3>1, <3>2, <3>3 DEF MadeBy
  <2> QED
    BY <2>1
<1>5. WorkspacesFit'
  <2>1. \A w \in DOMAIN workspaces' :
          /\ workspaces'[w].members \subseteq Ids \cup {Legacy}
          /\ Legacy \in workspaces'[w].members => workspaces'[w].by = "earlier" /\ ~HasTakenOver
    BY <1>1, <1>2 DEF AccountsInv, WorkspacesFit
  <2> QED
    BY <2>1 DEF WorkspacesFit, HasTakenOver, Ids
<1>6. OneEach'
  <2>1. ASSUME NEW id \in Ids, NEW other \in Makers
        PROVE  (\A v, w \in MadeBy(id, other) : v = w)'
    <3>1. \A v, w \in MadeBy(id, other) : v = w
      BY DEF AccountsInv, OneEach
    <3>2. MadeBy(id, other)' = MadeBy(id, other) \cup (IF id = u /\ other = maker THEN {new} ELSE {})
      BY <1>4
    <3> QED
      BY <3>1, <3>2
  <2> QED
    BY <2>1 DEF OneEach, Ids
<1>7. \A id \in Ids : WorkspacesOf(id) \subseteq WorkspacesOf(id)'
  BY <1>3
<1>8. new \in WorkspacesOf(u)' /\ workspaces'[new].members = {u}
  BY <1>1, <1>2 DEF WorkspacesOf
<1>9. \A id \in Ids, other \in Makers :
        id # u \/ other # maker => MadeBy(id, other)' = MadeBy(id, other)
  <2>1. ASSUME NEW id \in Ids, NEW other \in Makers, id # u \/ other # maker
        PROVE  MadeBy(id, other)' = MadeBy(id, other)
    <3>1. MadeBy(id, other)' = MadeBy(id, other) \cup {}
      BY <1>4, <2>1
    <3> QED
      BY <3>1
  <2> QED
    BY <2>1
<1> QED
  BY <1>2, <1>5, <1>6, <1>7, <1>8, <1>9

\* A step that adds a workspace or a project leaves the accounts and the boot alone.
LEMMA StepRows ==
    ASSUME AccountsInv, NEW p \in Processes, NEW task \in TaskRecords, Goes(p, task), Plain(task),
           UNCHANGED <<accounts, bootLock>>, RowsKept,
           workspaces' \in Seq(WorkspaceRecords), ownProjects' \in Seq(ProjectRecords),
           WorkspacesFit', ProjectsFit', OneEach',
           TaskFits(task)',
           \A q \in Processes : q # p => NoneMade(tasks[q])'
    PROVE  AccountsInv'
<1>1. AccountsTypeOK'
  BY TaskTaken DEF AccountsInv, AccountsTypeOK
<1>2. \A q \in Processes : TaskFits(tasks[q])'
  BY TasksFitOn
<1>3. \A q \in Processes : BootFits(q)'
  <2>1. HasTakenOver' <=> HasTakenOver
    BY DEF HasTakenOver, Ids
  <2>2. ~Booting(task) /\ task.step # "insertFirst"
    BY DEF Plain, Booting
  <2> QED
    BY <2>1, <2>2, BootOn
<1>4. Alone'
  <2>1. \A q \in Processes : Excludes(task, tasks[q])
    BY DEF Excludes, Plain
  <2> QED
    BY <2>1, AloneOn DEF AccountsInv
<1> QED
  BY <1>1, <1>2, <1>3, <1>4 DEF AccountsInv

LEMMA StepCreateWorkspace ==
    ASSUME AccountsInv, NEW p \in Processes, CreateWorkspace(p)
    PROVE  AccountsInv'
<1>1. PICK u : u = tasks[p].user
  OBVIOUS
<1>2. PICK new : new = Len(workspaces) + 1
  OBVIOUS
<1> DEFINE task == Request(p, tasks[p].op, new)
<1>3. /\ u \in Ids /\ u \in Nat /\ tasks[p].op \in {"list", "project"} /\ Creating(tasks[p])
      /\ MadeBy(u, "request") = {} /\ "request" \in Makers /\ tasks[p].step = "create"
  BY <1>1, RequestFacts
     DEF CreateWorkspace, Doing, RequestSteps, Creating, AccountsInv, TaskFits, Makers
<1>4. /\ workspaces' = Append(workspaces, [by |-> "request", members |-> {u}])
      /\ UNCHANGED accounts /\ UNCHANGED ownProjects /\ UNCHANGED bootLock /\ Goes(p, task)
  BY <1>1, <1>2 DEF CreateWorkspace
<1>5. /\ workspaces' \in Seq(WorkspaceRecords)
      /\ DOMAIN workspaces' = DOMAIN workspaces \cup {new} /\ new \in Nat /\ new # 0
      /\ \A w \in DOMAIN workspaces : workspaces'[w] = workspaces[w]
      /\ \A id \in Ids : WorkspacesOf(id) \subseteq WorkspacesOf(id)'
      /\ new \in WorkspacesOf(u)'
      /\ \A id \in Ids, other \in Makers :
           id # u \/ other # "request" => MadeBy(id, other)' = MadeBy(id, other)
      /\ WorkspacesFit' /\ OneEach'
  BY <1>2, <1>3, <1>4, WorkspaceAdded
<1>6. ProjectsFit' /\ RowsKept /\ ownProjects' \in Seq(ProjectRecords)
  BY <1>4, <1>5 DEF AccountsInv, AccountsTypeOK, ProjectsFit, RowsKept, Ids
<1>7. task \in TaskRecords /\ Plain(task) /\ task.user = u /\ task.workspace = new
      /\ task.step \in {"list", "project"}
  BY <1>1, <1>3, <1>5 DEF Request, TaskRecords, Plain, Booting, Creating, RequestSteps
<1>8. PICK next : next = task
  OBVIOUS
<1> HIDE DEF task
<1>9. TaskFits(next)'
  BY <1>3, <1>4, <1>5, <1>7, <1>8 DEF TaskFits, Ids
<1>10. ASSUME NEW q \in Processes, q # p
       PROVE  NoneMade(tasks[q])'
  <2>1. PICK other : other = tasks[q]
    OBVIOUS
  <2>2. tasks'[q] = other /\ TaskFits(other) /\ Excludes(tasks[p], other)
    BY <1>4, <1>10, <2>1, TaskTaken DEF AccountsInv, Alone
  <2>3. /\ other.step = "create" => other.user # u
        /\ other.step \in {"create", "provision"} => other.user \in Ids
    BY <1>1, <1>3, <2>2 DEF Excludes, Creating, TaskFits, UserSteps, RequestSteps
  <2>4. NoneMade(other)'
    BY <1>5, <2>2, <2>3, NoneMadeYet DEF NoneMade, Makers
  <2> QED
    BY <2>2, <2>4 DEF NoneMade
<1> QED
  BY <1>4, <1>5, <1>6, <1>7, <1>8, <1>9, <1>10, StepRows

\* A project that is added, or has a member more, is of a workspace its members reach.
WorkspacesKept ==
    \A w \in DOMAIN workspaces : w \in DOMAIN workspaces'
        /\ workspaces[w].members \subseteq workspaces'[w].members
LEMMA ProjectAdded ==
    ASSUME AccountsInv, NEW project \in ProjectRecords,
           ownProjects' = Append(ownProjects, project),
           WorkspacesKept, project.workspace \in DOMAIN workspaces',
           project.members \subseteq workspaces'[project.workspace].members
    PROVE  /\ ownProjects' \in Seq(ProjectRecords) /\ ProjectsFit'
           /\ DOMAIN ownProjects' = DOMAIN ownProjects \cup {Len(ownProjects) + 1}
           /\ ownProjects'[Len(ownProjects) + 1] = project
           /\ \A i \in DOMAIN ownProjects : ownProjects'[i] = ownProjects[i]
<1>1. /\ ownProjects' \in Seq(ProjectRecords)
      /\ DOMAIN ownProjects' = DOMAIN ownProjects \cup {Len(ownProjects) + 1}
      /\ ownProjects'[Len(ownProjects) + 1] = project
      /\ \A i \in DOMAIN ownProjects : ownProjects'[i] = ownProjects[i]
  BY Appended DEF AccountsInv, AccountsTypeOK
<1>2. ASSUME NEW i \in DOMAIN ownProjects'
      PROVE  /\ ownProjects'[i].workspace \in DOMAIN workspaces'
             /\ ownProjects'[i].members \subseteq workspaces'[ownProjects'[i].workspace].members
  <2>1. CASE i \in DOMAIN ownProjects
    BY <1>1, <2>1 DEF AccountsInv, ProjectsFit, WorkspacesKept
  <2>2. CASE i = Len(ownProjects) + 1
    BY <1>1, <2>2
  <2> QED
    BY <1>1, <2>1, <2>2
<1> QED
  BY <1>1, <1>2 DEF ProjectsFit

LEMMA StepInsertProject ==
    ASSUME AccountsInv, NEW p \in Processes, InsertProject(p)
    PROVE  AccountsInv'
<1> DEFINE project == [workspace |-> tasks[p].workspace, slug |-> tasks[p].slug, members |-> {}]
<1>1. UNCHANGED <<accounts, workspaces, bootLock>>
  BY DEF InsertProject
<1>2. /\ tasks[p].user \in Ids /\ tasks[p].user \in Nat
      /\ tasks[p].workspace \in WorkspacesOf(tasks[p].user)
      /\ tasks[p].workspace \in Nat /\ tasks[p].slug \in Nat
  <2>1. tasks[p].step = "insertProject" /\ tasks[p] \in TaskRecords /\ TaskFits(tasks[p])
    BY RowFacts DEF InsertProject, Doing, AccountsInv
  <2>2. tasks[p].user \in Nat /\ tasks[p].workspace \in Nat /\ tasks[p].slug \in Nat
    BY <2>1 DEF TaskRecords, RequestSteps
  <2> QED
    BY <2>1, <2>2 DEF TaskFits, UserSteps
<1>3. CASE tasks[p].slug \in SlugsOf(tasks[p].workspace)
  BY <1>1, <1>3, StepEnd DEF InsertProject
<1>4. CASE tasks[p].slug \notin SlugsOf(tasks[p].workspace)
  <2>1. PICK new : new = Len(ownProjects) + 1
    OBVIOUS
  <2>2. PICK u : u = tasks[p].user
    OBVIOUS
  <2>3. PICK next : next = [step |-> "member", user |-> u, project |-> new]
    OBVIOUS
  <2>4. Goes(p, next) /\ ownProjects' = Append(ownProjects, project)
    BY <1>4, <2>1, <2>2, <2>3 DEF InsertProject
  <2>5. project \in ProjectRecords /\ project.members = {} /\ project.workspace \in WorkspacesOf(u)
    BY <1>2, <2>2 DEF ProjectRecords
  <2> HIDE DEF project
  <2>6. project.workspace \in DOMAIN workspaces' /\ WorkspacesKept
        /\ project.members \subseteq workspaces'[project.workspace].members
    BY <1>1, <2>5 DEF WorkspacesOf, WorkspacesKept
  <2>7. /\ ownProjects' \in Seq(ProjectRecords) /\ ProjectsFit'
        /\ DOMAIN ownProjects' = DOMAIN ownProjects \cup {new} /\ ownProjects'[new] = project
        /\ \A i \in DOMAIN ownProjects : ownProjects'[i] = ownProjects[i]
    BY <2>1, <2>4, <2>5, <2>6, ProjectAdded
  <2>8. \A id : WorkspacesOf(id)' = WorkspacesOf(id) /\ \A maker : MadeBy(id, maker)' = MadeBy(id, maker)
    BY <1>1 DEF WorkspacesOf, MadeBy
  <2>9. WorkspacesFit' /\ OneEach' /\ RowsKept /\ workspaces' \in Seq(WorkspaceRecords)
    BY <1>1, <2>7, <2>8
       DEF AccountsInv, AccountsTypeOK, WorkspacesFit, HasTakenOver, Ids, OneEach, RowsKept
  <2>10. new \in Nat
    BY <2>1, RowFacts DEF AccountsInv
  <2>11. next \in TaskRecords /\ Plain(next) /\ next.step = "member" /\ next.user = u
         /\ next.project = new
    BY <1>2, <2>2, <2>3, <2>10 DEF TaskRecords, Plain, Booting, Creating
  <2>12. TaskFits(next)'
    BY <1>1, <1>2, <2>2, <2>5, <2>7, <2>8, <2>11 DEF TaskFits, Ids
  <2>13. \A q \in Processes : q # p => NoneMade(tasks[q])'
    <3>1. ASSUME NEW q \in Processes, q # p
          PROVE  NoneMade(tasks[q])'
      <4>1. PICK other : other = tasks[q]
        OBVIOUS
      <4>2. tasks'[q] = other /\ TaskFits(other)
        BY <2>4, <3>1, <4>1, TaskTaken DEF AccountsInv
      <4>3. NoneMade(other)'
        BY <2>8, <4>2, NoneMadeYet DEF NoneMade
      <4> QED
        BY <4>2, <4>3 DEF NoneMade
    <3> QED
      BY <3>1
  <2> QED
    BY <1>1, <2>4, <2>7, <2>9, <2>11, <2>12, <2>13, StepRows
<1> QED
  BY <1>3, <1>4

\* Joining a project of a workspace one is a member of.
Join(row, u) == [row EXCEPT !.members = @ \cup {u}]
LEMMA ProjectsJoined ==
    ASSUME AccountsInv, NEW u \in People, NEW joined, WorkspacesKept,
           ownProjects' = [i \in DOMAIN ownProjects |->
                              IF i \in joined THEN Join(ownProjects[i], u) ELSE ownProjects[i]],
           \A i \in DOMAIN ownProjects :
                i \in joined => u \in workspaces'[ownProjects[i].workspace].members
    PROVE  /\ ownProjects' \in Seq(ProjectRecords) /\ ProjectsFit'
           /\ DOMAIN ownProjects' = DOMAIN ownProjects
           /\ \A i \in DOMAIN ownProjects : ownProjects'[i].workspace = ownProjects[i].workspace
<1>1. \A row \in ProjectRecords :
        /\ Join(row, u) \in ProjectRecords /\ Join(row, u).workspace = row.workspace
        /\ Join(row, u).members = row.members \cup {u}
  BY DEF ProjectRecords, Join
<1>2. /\ Len(ownProjects) \in Nat /\ DOMAIN ownProjects = 1..Len(ownProjects)
      /\ \A i \in DOMAIN ownProjects : ownProjects[i] \in ProjectRecords
  BY RowFacts DEF AccountsInv
<1>3. ownProjects' \in [1..Len(ownProjects) -> ProjectRecords]
  BY <1>1, <1>2
<1>4. ownProjects' \in Seq(ProjectRecords)
  BY <1>2, <1>3, SeqDef
<1>5. \A i \in DOMAIN ownProjects :
        /\ ownProjects'[i].workspace = ownProjects[i].workspace
        /\ ownProjects'[i].members \subseteq
                ownProjects[i].members \cup (IF i \in joined THEN {u} ELSE {})
  BY <1>1, <1>2
<1>6. DOMAIN ownProjects' = DOMAIN ownProjects
  OBVIOUS
<1>7. ASSUME NEW i \in DOMAIN ownProjects'
      PROVE  /\ ownProjects'[i].workspace \in DOMAIN workspaces'
             /\ ownProjects'[i].members \subseteq workspaces'[ownProjects'[i].workspace].members
  <2>1. /\ i \in DOMAIN ownProjects /\ ownProjects[i].workspace \in DOMAIN workspaces
        /\ ownProjects[i].members \subseteq workspaces[ownProjects[i].workspace].members
    BY <1>6 DEF AccountsInv, ProjectsFit
  <2>2. /\ ownProjects[i].workspace \in DOMAIN workspaces'
        /\ ownProjects[i].members \subseteq workspaces'[ownProjects[i].workspace].members
    BY <2>1 DEF WorkspacesKept
  <2> QED
    BY <1>5, <2>1, <2>2
<1> QED
  BY <1>4, <1>5, <1>6, <1>7 DEF ProjectsFit

LEMMA StepInsertMember ==
    ASSUME AccountsInv, NEW p \in Processes, InsertMember(p)
    PROVE  AccountsInv'
<1>1. PICK u : u = tasks[p].user
  OBVIOUS
<1>2. PICK k : k = tasks[p].project
  OBVIOUS
<1>3. /\ UNCHANGED <<accounts, workspaces, bootLock>> /\ Goes(p, IdleTask)
      /\ ownProjects' = [ownProjects EXCEPT ![k].members = @ \cup {u}]
  BY <1>1, <1>2 DEF InsertMember, Ends
<1>4. /\ u \in Ids /\ u \in People /\ k \in DOMAIN ownProjects
      /\ ownProjects[k].workspace \in WorkspacesOf(u)
  BY <1>1, <1>2, RowFacts
     DEF InsertMember, Doing, AccountsInv, TaskFits, UserSteps, People
<1>5. ownProjects' = [i \in DOMAIN ownProjects |->
                         IF i \in {k} THEN Join(ownProjects[i], u) ELSE ownProjects[i]]
  BY <1>3, <1>4 DEF Join
<1>6. WorkspacesKept /\ u \in workspaces'[ownProjects[k].workspace].members
  BY <1>3, <1>4 DEF WorkspacesKept, WorkspacesOf
<1>7. /\ ownProjects' \in Seq(ProjectRecords) /\ ProjectsFit'
      /\ DOMAIN ownProjects' = DOMAIN ownProjects
      /\ \A i \in DOMAIN ownProjects : ownProjects'[i].workspace = ownProjects[i].workspace
  <2>1. \A i \in DOMAIN ownProjects :
          i \in {k} => u \in workspaces'[ownProjects[i].workspace].members
    BY <1>6
  <2> QED
    BY <1>4, <1>5, <1>6, <2>1, ProjectsJoined
<1>8. \A id : WorkspacesOf(id)' = WorkspacesOf(id) /\ \A maker : MadeBy(id, maker)' = MadeBy(id, maker)
  BY <1>3 DEF WorkspacesOf, MadeBy
<1>9. WorkspacesFit' /\ OneEach' /\ RowsKept /\ workspaces' \in Seq(WorkspaceRecords)
  BY <1>3, <1>7, <1>8
     DEF AccountsInv, AccountsTypeOK, WorkspacesFit, HasTakenOver, Ids, OneEach, RowsKept
<1>10. IdleTask \in TaskRecords /\ Plain(IdleTask) /\ TaskFits(IdleTask)'
  BY IdleFits DEF IdleTask, TaskFits, UserSteps, RequestSteps
<1>11. ASSUME NEW q \in Processes, q # p
       PROVE  NoneMade(tasks[q])'
  <2>1. PICK other : other = tasks[q]
    OBVIOUS
  <2>2. tasks'[q] = other /\ TaskFits(other)
    BY <1>3, <1>11, <2>1, TaskTaken DEF AccountsInv
  <2>3. NoneMade(other)'
    BY <1>8, <2>2, NoneMadeYet DEF NoneMade
  <2> QED
    BY <2>2, <2>3 DEF NoneMade
<1> QED
  BY <1>3, <1>7, <1>9, <1>10, <1>11, StepRows

\* Provisioning makes a workspace for a user only if it found none, and its lock kept other
\* runs for that user away; a request that creates one meanwhile is another maker.
LEMMA ProvisionedWorkspace ==
    ASSUME AccountsInv, NEW p \in Processes, WriteProvision(p), NEW u, u = tasks[p].user,
           NEW w, w = (IF tasks[p].workspace = 0 THEN Len(workspaces) + 1 ELSE tasks[p].workspace)
    PROVE  /\ u \in Ids /\ w \in Nat
           /\ workspaces' \in Seq(WorkspaceRecords) /\ WorkspacesFit' /\ OneEach' /\ WorkspacesKept
           /\ w \in DOMAIN workspaces' /\ u \in workspaces'[w].members
           /\ \A id \in Ids : WorkspacesOf(id) \subseteq WorkspacesOf(id)'
           /\ \A q \in Processes : q # p => NoneMade(tasks[q])'
<1>1. /\ tasks[p] \in TaskRecords /\ tasks[p].step = "provision" /\ u \in Ids
      /\ tasks[p].workspace \in Nat
      /\ IF tasks[p].workspace = 0 THEN MadeBy(u, "provision") = {}
                                   ELSE tasks[p].workspace \in WorkspacesOf(u)
  BY RowFacts DEF WriteProvision, Doing, AccountsInv, TaskFits, UserSteps, TaskRecords,
     RequestSteps
<1>2. UNCHANGED accounts /\ Goes(p, IdleTask)
  BY DEF WriteProvision, Ends
<1>3. Len(workspaces) \in Nat /\ DOMAIN workspaces = 1..Len(workspaces)
  BY RowFacts DEF AccountsInv
<1>4. workspaces' = IF w > Len(workspaces)
                    THEN Append(workspaces, [by |-> "provision", members |-> {u}])
                    ELSE workspaces
  BY DEF WriteProvision
<1>5. ASSUME NEW q \in Processes, q # p
      PROVE  /\ tasks'[q] = tasks[q] /\ TaskFits(tasks[q])
             /\ tasks[q].step = "provision" => tasks[q].user # u
             /\ tasks[q].step \in {"create", "provision"} => tasks[q].user \in Ids
  <2>1. Excludes(tasks[p], tasks[q])
    BY <1>5 DEF AccountsInv, Alone
  <2>2. tasks'[q] = tasks[q] /\ TaskFits(tasks[q])
    BY <1>2, <1>5, TaskTaken DEF AccountsInv
  <2> QED
    BY <1>1, <2>1, <2>2 DEF Excludes, TaskFits, UserSteps, RequestSteps
<1> DEFINE Goal ==
        /\ w \in Nat
        /\ workspaces' \in Seq(WorkspaceRecords) /\ WorkspacesFit' /\ OneEach' /\ WorkspacesKept
        /\ w \in DOMAIN workspaces' /\ u \in workspaces'[w].members
        /\ \A id \in Ids : WorkspacesOf(id) \subseteq WorkspacesOf(id)'
        /\ \A q \in Processes : q # p => NoneMade(tasks[q])'
<1>6. ASSUME tasks[p].workspace = 0
      PROVE  Goal
  <2>1. /\ workspaces' = Append(workspaces, [by |-> "provision", members |-> {u}])
        /\ w = Len(workspaces) + 1 /\ MadeBy(u, "provision") = {} /\ "provision" \in Makers
        /\ u \in Ids /\ UNCHANGED accounts
    BY <1>1, <1>2, <1>3, <1>4, <1>6 DEF Makers
  <2>2. /\ workspaces' \in Seq(WorkspaceRecords)
        /\ DOMAIN workspaces' = DOMAIN workspaces \cup {w} /\ w \in Nat
        /\ \A v \in DOMAIN workspaces : workspaces'[v] = workspaces[v]
        /\ workspaces'[w].members = {u}
        /\ \A id \in Ids : WorkspacesOf(id) \subseteq WorkspacesOf(id)'
        /\ \A id \in Ids, other \in Makers :
             id # u \/ other # "provision" => MadeBy(id, other)' = MadeBy(id, other)
        /\ WorkspacesFit' /\ OneEach'
    BY <2>1, WorkspaceAdded
  <2>3. ASSUME NEW q \in Processes, q # p
        PROVE  NoneMade(tasks[q])'
    <3>1. PICK other : other = tasks[q]
      OBVIOUS
    <3>2. /\ tasks'[q] = other /\ TaskFits(other)
          /\ other.step = "provision" => other.user # u
          /\ other.step \in {"create", "provision"} => other.user \in Ids
      BY <1>5, <2>3, <3>1
    <3>3. NoneMade(other)'
      BY <2>2, <3>2, NoneMadeYet DEF NoneMade, Makers
    <3> QED
      BY <3>2, <3>3 DEF NoneMade
  <2> QED
    BY <2>2, <2>3 DEF WorkspacesKept
<1>7. ASSUME tasks[p].workspace # 0
      PROVE  Goal
  <2>1. w \in Nat /\ w \in WorkspacesOf(u) /\ workspaces' = workspaces
    <3>1. w = tasks[p].workspace /\ w \in WorkspacesOf(u) /\ w \in DOMAIN workspaces
      BY <1>1, <1>7 DEF WorkspacesOf
    <3>2. ~ (w > Len(workspaces)) /\ w \in Nat
      BY <1>3, <3>1
    <3> QED
      BY <1>4, <3>1, <3>2
  <2>2. \A id : WorkspacesOf(id)' = WorkspacesOf(id)
                /\ \A maker : MadeBy(id, maker)' = MadeBy(id, maker)
    BY <2>1 DEF WorkspacesOf, MadeBy
  <2>3. workspaces' \in Seq(WorkspaceRecords) /\ WorkspacesFit' /\ OneEach' /\ WorkspacesKept
    BY <1>2, <2>1, <2>2
       DEF AccountsInv, AccountsTypeOK, WorkspacesFit, HasTakenOver, Ids, OneEach, WorkspacesKept
  <2>4. w \in DOMAIN workspaces' /\ u \in workspaces'[w].members
    BY <2>1 DEF WorkspacesOf
  <2>5. ASSUME NEW q \in Processes, q # p
        PROVE  NoneMade(tasks[q])'
    <3>1. PICK other : other = tasks[q]
      OBVIOUS
    <3>2. tasks'[q] = other /\ TaskFits(other)
      BY <1>5, <2>5, <3>1
    <3>3. NoneMade(other)'
      BY <2>2, <3>2, NoneMadeYet DEF NoneMade
    <3> QED
      BY <3>2, <3>3 DEF NoneMade
  <2> QED
    BY <2>1, <2>2, <2>3, <2>4, <2>5
<1> QED
  BY <1>1, <1>6, <1>7

\* The project with the slug is joined, or made.
Provisioned(u, w, slug) ==
    IF \E i \in DOMAIN ownProjects : ownProjects[i].workspace = w /\ ownProjects[i].slug = slug
    THEN ownProjects' = [i \in DOMAIN ownProjects |->
            IF ownProjects[i].workspace = w /\ ownProjects[i].slug = slug
            THEN Join(ownProjects[i], u) ELSE ownProjects[i]]
    ELSE ownProjects' = Append(ownProjects, [workspace |-> w, slug |-> slug, members |-> {u}])
LEMMA ProvisionedProject ==
    ASSUME NEW p, WriteProvision(p)
    PROVE  LET u == tasks[p].user
               w == IF tasks[p].workspace = 0 THEN Len(workspaces) + 1 ELSE tasks[p].workspace
           IN  \E slug \in 1..MaxProjects : Provisioned(u, w, slug)
  BY Zenon DEF WriteProvision, Provisioned, Join

LEMMA StepWriteProvision ==
    ASSUME AccountsInv, NEW p \in Processes, WriteProvision(p)
    PROVE  AccountsInv'
<1>1. PICK u : u = tasks[p].user
  OBVIOUS
<1>2. PICK w : w = IF tasks[p].workspace = 0 THEN Len(workspaces) + 1 ELSE tasks[p].workspace
  OBVIOUS
<1>3. /\ u \in Ids /\ w \in Nat
      /\ workspaces' \in Seq(WorkspaceRecords) /\ WorkspacesFit' /\ OneEach' /\ WorkspacesKept
      /\ w \in DOMAIN workspaces' /\ u \in workspaces'[w].members
      /\ \A id \in Ids : WorkspacesOf(id) \subseteq WorkspacesOf(id)'
      /\ \A q \in Processes : q # p => NoneMade(tasks[q])'
  BY <1>1, <1>2, ProvisionedWorkspace
<1>4. u \in People /\ UNCHANGED accounts /\ UNCHANGED bootLock /\ Goes(p, IdleTask)
  BY <1>3, RowFacts DEF WriteProvision, Ends, People, AccountsInv
<1>5. PICK slug \in 1..MaxProjects : Provisioned(u, w, slug)
  BY <1>1, <1>2, ProvisionedProject
<1> DEFINE joined == {i \in DOMAIN ownProjects : ownProjects[i].workspace = w
                                                /\ ownProjects[i].slug = slug}
<1> DEFINE Goal ==
        /\ ownProjects' \in Seq(ProjectRecords) /\ ProjectsFit'
        /\ \A i \in DOMAIN ownProjects : /\ i \in DOMAIN ownProjects'
                                         /\ ownProjects'[i].workspace = ownProjects[i].workspace
<1>6. ASSUME joined # {}
      PROVE  Goal
  <2>1. ownProjects' = [i \in DOMAIN ownProjects |->
                           IF i \in joined THEN Join(ownProjects[i], u) ELSE ownProjects[i]]
    BY <1>5, <1>6 DEF Provisioned
  <2>2. \A i \in DOMAIN ownProjects :
          i \in joined => u \in workspaces'[ownProjects[i].workspace].members
    BY <1>3
  <2> HIDE DEF joined
  <2> QED
    BY <1>3, <1>4, <2>1, <2>2, ProjectsJoined
<1>7. ASSUME joined = {}
      PROVE  Goal
  <2> DEFINE project == [workspace |-> w, slug |-> slug, members |-> {u}]
  <2>1. ownProjects' = Append(ownProjects, project)
    BY <1>5, <1>7 DEF Provisioned
  <2>2. project \in ProjectRecords /\ project.workspace = w /\ project.members = {u}
    BY <1>3, <1>4, AccountsAssumption DEF ProjectRecords
  <2> HIDE DEF project
  <2> QED
    BY <1>3, <2>1, <2>2, ProjectAdded
<1>8. Goal
  BY <1>6, <1>7
<1>9. RowsKept
  BY <1>3, <1>4, <1>8 DEF RowsKept, Ids
<1>10. IdleTask \in TaskRecords /\ Plain(IdleTask) /\ TaskFits(IdleTask)'
  BY IdleFits DEF IdleTask, TaskFits, UserSteps, RequestSteps
<1> QED
  BY <1>3, <1>4, <1>8, <1>9, <1>10, StepRows

\* Every step keeps the invariant.
LEMMA StepIdle ==
    ASSUME AccountsInv, UNCHANGED <<accounts, workspaces, ownProjects, bootLock, tasks>>
    PROVE  AccountsInv'
<1>1. AccountsTypeOK' /\ Alone'
  BY DEF AccountsInv, AccountsTypeOK, Alone
<1>2. WorkspacesFit' /\ ProjectsFit' /\ OneEach'
  BY RowsStay DEF AccountsInv
<1>3. ASSUME NEW q \in Processes
      PROVE  TaskFits(tasks[q])' /\ BootFits(q)'
  <2>1. PICK task : task = tasks[q]
    OBVIOUS
  <2>2. tasks'[q] = task /\ TaskFits(task)' /\ (HasTakenOver' <=> HasTakenOver)
    BY <2>1, RowsStay DEF AccountsInv
  <2> QED
    BY <2>1, <2>2 DEF AccountsInv, TaskFits, BootFits
<1> QED
  BY <1>1, <1>2, <1>3 DEF AccountsInv

LEMMA StepProcess ==
    ASSUME AccountsInv, NEW p \in Processes,
           \/ LockBootstrap(p) \/ FindUser(p)
           \/ \E name \in Names, alias \in {Legacy, Nobody} : InsertFirst(p, name, alias)
           \/ \E id \in Ids : ReadProvision(p, id) \/ ReadAccount(p, id)
           \/ \E subject \in sessions : \E u \in UserOf(subject) :
                serving /\ \E op \in {"list", "project"} : FindWorkspace(p, u, op)
           \/ WriteProvision(p)
           \/ \E passwordMatches \in BOOLEAN : SignSession(p, passwordMatches)
           \/ TryLock(p) \/ Recheck(p) \/ CreateWorkspace(p) \/ RetryFind(p)
           \/ ListProjects(p) \/ FindSlug(p) \/ InsertProject(p) \/ InsertMember(p)
           \/ Dies(p)
    PROVE  AccountsInv'
<1>1. ASSUME NEW subject \in sessions, NEW u \in UserOf(subject), NEW op \in {"list", "project"},
             FindWorkspace(p, u, op)
      PROVE  AccountsInv'
  BY <1>1, StepFindWorkspace DEF UserOf
<1>2. ASSUME ListProjects(p)
      PROVE  AccountsInv'
  BY <1>2, StepEnd DEF ListProjects, NoRowChanges
<1> QED
  BY <1>1, <1>2, StepLockBootstrap, StepFindUser, StepInsertFirst, StepReadProvision, StepLogin,
     StepWriteProvision, StepTryLock, StepRecheck, StepCreateWorkspace, StepRetryFind, StepFindSlug,
     StepInsertProject, StepInsertMember, StepDies

LEMMA AccountsStep == AccountsInv /\ [AccountsNext]_accountsVars => AccountsInv'
<1> SUFFICES ASSUME AccountsInv, [AccountsNext]_accountsVars PROVE AccountsInv'
  OBVIOUS
<1>1. ASSUME NEW subject \in sessions, ExpireSession(subject)
      PROVE  AccountsInv'
  BY <1>1, StepIdle DEF ExpireSession
<1>2. CASE UNCHANGED accountsVars
  BY <1>2, StepIdle DEF accountsVars
<1> QED
  BY <1>1, <1>2, StepProcess, StepCreateAccount, StepSetStatus DEF AccountsNext

-----------------------------------------------------------------------------
(* Accounts: the results *)

\* Members of workspaces are accounts or the earlier identity, nobody reaches a project without
\* its workspace, what a process has read for its user stays so, and only one process creates,
\* or provisions, for a user at a time.
THEOREM AccountsInvariance == AccountsSpec => []AccountsInv
  BY AccountsStart, AccountsStep, PTL DEF AccountsSpec

\* A set in which all are the same has no two.
LEMMA AtMostOne ==
    ASSUME NEW S, \A v, w \in S : v = w
    PROVE  Cardinality(S) <= 1
<1>1. CASE S = {}
  BY <1>1, FS_EmptySet
<1>2. CASE S # {}
  <2>1. PICK v : S = {v}
    BY <1>2
  <2>2. Cardinality({v}) = 1
    BY FS_Singleton, Zenon
  <2> QED
    BY <2>1, <2>2
<1> QED
  BY <1>1, <1>2

\* However requests, provisioning, servers that start and operators interleave, and whichever
\* of them die, a user's requests make one workspace and provisioning makes one, and the first
\* account takes over everything of the earlier identity.
THEOREM UsersHaveOneWorkspace == AccountsSpec => []OnePersonalWorkspace
<1>1. AccountsInv => OnePersonalWorkspace
  <2> SUFFICES ASSUME AccountsInv PROVE OnePersonalWorkspace
    OBVIOUS
  <2>1. ASSUME NEW id \in Ids, NEW maker \in Makers
        PROVE  Cardinality({w \in WorkspacesOf(id) : workspaces[w].by = maker}) <= 1
    <3>1. \A v, w \in MadeBy(id, maker) : v = w
      BY DEF AccountsInv, OneEach
    <3>2. Cardinality(MadeBy(id, maker)) <= 1
      BY <3>1, AtMostOne
    <3> QED
      BY <3>2 DEF MadeBy
  <2>2. HasTakenOver => \A w \in DOMAIN workspaces : Legacy \notin workspaces[w].members
    BY DEF AccountsInv, WorkspacesFit
  <2>3. \A i \in DOMAIN ownProjects :
          ownProjects[i].members \subseteq workspaces[ownProjects[i].workspace].members
    BY DEF AccountsInv, ProjectsFit
  <2> QED
    BY <2>1, <2>2, <2>3 DEF OnePersonalWorkspace, HasTakenOver, Makers
<1> QED
  BY <1>1, AccountsInvariance, PTL

-----------------------------------------------------------------------------
(* Panels: the inductive invariant *)

Either == Selections \cup {NotSelected}
HandleSeq == Seq([id : Nat, aborted : BOOLEAN])

\* All handles but the current one are aborted; 0 is none.
InForce(handles, current) ==
    /\ current \in 0..Len(handles)
    /\ \A h \in DOMAIN handles : handles[h].aborted <=> h # current

PreviewStates ==
    [asset : Either, listOf : Either, versions : Nat, selected : Nat,
     shows : {<<>>} \cup (Either \X Nat),
     status : {"idle", "loading-list", "loading-detail", "ready", "error"}]
PreviewRequests == [what : {"list", "detail"}, asset : Either, version : Nat, handle : Nat]

\* The request in force is about the asset of the panel, and the panel that loads has one.
PreviewInv ==
    /\ preview \in PreviewStates
    /\ previewHandles \in HandleSeq /\ InForce(previewHandles, previewCurrent)
    /\ \A r \in previewWire :
          /\ r \in PreviewRequests /\ r.handle \in DOMAIN previewHandles
          /\ r.handle = previewCurrent => r.asset = preview.asset
    /\ PreviewHonest

ReviewStates == [comments : Seq(Nat), loading : BOOLEAN, saving : BOOLEAN]
ReviewRequests ==
    [what : {"list", "add"}, of : Either, handle : Nat, served : BOOLEAN, answer : Seq(Nat)]

\* Comments of one revision, in their order.
CommentsOf(entries, revision) ==
    /\ \A i \in DOMAIN entries :
          entries[i] \in DOMAIN remarks /\ remarks[entries[i]] = revision
    /\ \A i, j \in DOMAIN entries : i < j => entries[i] < entries[j]

ReviewTypeOK ==
    /\ review \in ReviewStates /\ remarks \in Seq(Either)
    /\ reviewRef \in [rendered : Either, effect : Either]
    /\ reviewHandles \in HandleSeq /\ InForce(reviewHandles, reviewCurrent)
    /\ \A r \in reviewWire : r \in ReviewRequests /\ r.handle \in DOMAIN reviewHandles
    /\ \A r, s \in reviewWire : r.handle = s.handle => r = s

\* What the request in force brings can be shown: it is of the revision the effect ran for,
\* and a new comment is later than those shown.
RequestFits(r) ==
    /\ r.served => CommentsOf(r.answer, r.of)
    /\ r.handle = reviewCurrent =>
          /\ r.of = reviewRef.effect
          /\ IF r.what = "list" THEN ~review.saving ELSE ~review.loading
          /\ r.served /\ r.what = "add" =>
                CommentsOf(review.comments \o r.answer, reviewRef.effect)

ReviewWaits ==
    Turned /\ (review.loading \/ review.saving) => \E r \in reviewWire : r.handle = reviewCurrent

ReviewInv ==
    /\ ReviewTypeOK
    /\ CommentsOf(review.comments, reviewRef.effect)
    /\ \A r \in reviewWire : RequestFits(r)
    /\ ReviewWaits

TraceStates == [of : Either, shows : Either,
                status : {"idle", "loading", "ready", "empty", "invalid", "error"}]

\* The request in force asks for the revision of the panel.
TraceInv ==
    /\ trace \in TraceStates /\ traceRequest \in Nat
    /\ \A r \in traceWire :
          /\ r \in [request : Nat, of : Either, aborted : BOOLEAN] /\ r.request <= traceRequest
          /\ r.request = traceRequest /\ ~r.aborted => r.of = trace.of
    /\ TraceHonest

PanelsInv == PreviewInv /\ ReviewInv /\ TraceInv

-----------------------------------------------------------------------------
(* Panels: handles *)

LEMMA HandlesAborted ==
    ASSUME NEW handles \in HandleSeq, NEW current, InForce(handles, current)
    PROVE  /\ Aborting(handles, current) \in HandleSeq
           /\ Len(Aborting(handles, current)) = Len(handles)
           /\ \A h \in DOMAIN handles : Aborting(handles, current)[h].aborted
           /\ InForce(Aborting(handles, current), 0)
<1> DEFINE aborting == Aborting(handles, current)
<1>1. DOMAIN aborting = 1..Len(handles) /\ Len(handles) \in Nat
  BY DEF Aborting, HandleSeq
<1>2. ASSUME NEW h \in 1..Len(handles)
      PROVE  aborting[h] \in [id : Nat, aborted : BOOLEAN] /\ aborting[h].aborted
  <2>1. h \in DOMAIN handles /\ handles[h] \in [id : Nat, aborted : BOOLEAN]
    <3>1. handles \in Seq([id : Nat, aborted : BOOLEAN])
      BY DEF HandleSeq
    <3>2. h \in DOMAIN handles
      BY <1>2, <3>1
    <3>3. handles[h] \in [id : Nat, aborted : BOOLEAN]
      BY <1>2, <3>1, ElementOfSeq, Zenon
    <3> QED
      BY <3>2, <3>3
  <2>2. aborting[h] = [handles[h] EXCEPT !.aborted = handles[h].aborted \/ h = current]
    BY <2>1, Zenon DEF Aborting
  <2>3. handles[h].aborted \/ h = current
    BY <2>1 DEF InForce
  <2>4. aborting[h] = [handles[h] EXCEPT !.aborted = TRUE]
    BY <2>2, <2>3, Zenon
  <2> QED
    BY <2>1, <2>4
<1>3. aborting = [h \in 1..Len(handles) |-> aborting[h]]
  BY DEF Aborting, HandleSeq
<1> HIDE DEF aborting
<1>4. aborting \in HandleSeq /\ Len(aborting) = Len(handles)
  BY <1>1, <1>2, <1>3 DEF HandleSeq
<1>5. InForce(aborting, 0)
  BY <1>1, <1>2, <1>4 DEF InForce
<1> QED
  BY <1>1, <1>2, <1>4, <1>5 DEF aborting, HandleSeq

LEMMA HandlesBegun ==
    ASSUME NEW handles \in HandleSeq, NEW current, InForce(handles, current)
    PROVE  /\ Begun(handles, current) \in HandleSeq
           /\ Len(Begun(handles, current)) = Len(handles) + 1
           /\ InForce(Begun(handles, current), Len(handles) + 1)
<1> DEFINE aborting == Aborting(handles, current)
           new == [id |-> (IF current = 0 THEN 0 ELSE handles[current].id) + 1, aborted |-> FALSE]
<1>1. /\ aborting \in HandleSeq /\ Len(aborting) = Len(handles)
      /\ \A h \in DOMAIN handles : aborting[h].aborted
  BY HandlesAborted
<1>2. new \in [id : Nat, aborted : BOOLEAN] /\ ~new.aborted
  <2>1. ASSUME current # 0
        PROVE  handles[current].id \in Nat
    <3>1. Len(handles) \in Nat /\ current \in 1..Len(handles)
      BY <2>1 DEF InForce, HandleSeq
    <3>2. handles[current] \in [id : Nat, aborted : BOOLEAN]
      BY <3>1, ElementOfSeq DEF HandleSeq
    <3> QED
      BY <3>2
  <2> QED
    BY <2>1
<1>3. Begun(handles, current) = Append(aborting, new)
  BY DEF Begun
<1> HIDE DEF aborting, new
<1>4. Append(aborting, new) \in HandleSeq /\ Len(Append(aborting, new)) = Len(handles) + 1
  BY <1>1, <1>2 DEF HandleSeq
<1>5. \A h \in 1..Len(handles) + 1 :
        Append(aborting, new)[h] = IF h = Len(handles) + 1 THEN new ELSE aborting[h]
  BY <1>1, <1>2 DEF HandleSeq
<1>6. InForce(Append(aborting, new), Len(handles) + 1)
  <2>1. Len(handles) \in Nat /\ DOMAIN handles = 1..Len(handles)
        /\ DOMAIN Append(aborting, new) = 1..Len(handles) + 1
    BY <1>4 DEF HandleSeq
  <2> QED
    BY <1>1, <1>2, <1>4, <1>5, <2>1 DEF InForce
<1> QED
  BY <1>3, <1>4, <1>6

\* Ids repeat, but the request in force has the current handle itself.
LEMMA OneInForce ==
    ASSUME NEW handles \in HandleSeq, NEW current, InForce(handles, current),
           NEW h \in DOMAIN handles
    PROVE  IsCurrent(handles, current, h) <=> h = current
<1>1. h # 0 /\ (handles[h].aborted <=> h # current)
  BY DEF InForce, HandleSeq
<1> QED
  BY <1>1 DEF IsCurrent

-----------------------------------------------------------------------------
(* Panels: the versions of a data asset *)

\* What a request asks for it puts into the state, and nothing is shown until it answers.
LEMMA StepAskPreview ==
    ASSUME PreviewInv, NEW what \in {"list", "detail"}, NEW asset \in Either, NEW number \in Nat,
           NEW state \in PreviewStates, state.asset = asset, state.shows = <<>>,
           state.versions > 0 => state.listOf = asset,
           AskPreview(what, asset, number, state)
    PROVE  PreviewInv'
<1> DEFINE new == Len(previewHandles) + 1
           asked == [what |-> what, asset |-> asset, version |-> number, handle |-> new]
<1>1. /\ previewHandles' \in HandleSeq /\ Len(previewHandles') = new
      /\ InForce(previewHandles', new)
  BY HandlesBegun DEF AskPreview, PreviewInv
<1>2. previewCurrent' = new /\ preview' = state /\ previewWire' = previewWire \cup {asked}
  BY <1>1 DEF AskPreview
<1>3. /\ new \in DOMAIN previewHandles' /\ new \in Nat
      /\ \A h \in DOMAIN previewHandles : h \in DOMAIN previewHandles' /\ h # new
  BY <1>1 DEF PreviewInv, HandleSeq
<1>4. asked \in PreviewRequests /\ asked.handle = new /\ asked.asset = asset
  BY <1>3 DEF PreviewRequests
<1> HIDE DEF asked, new
<1>5. \A r \in previewWire' :
          /\ r \in PreviewRequests /\ r.handle \in DOMAIN previewHandles'
          /\ r.handle = previewCurrent' => r.asset = preview'.asset
  BY <1>2, <1>3, <1>4 DEF PreviewInv
<1>6. IsCurrent(previewHandles', previewCurrent', asked.handle)
  BY <1>1, <1>2, <1>3, <1>4, OneInForce
<1>7. PreviewHonest'
  BY <1>2, <1>6 DEF PreviewHonest, IsCurrent
<1> QED
  BY <1>1, <1>2, <1>5, <1>7 DEF PreviewInv

LEMMA StepClosePreview == ASSUME PreviewInv, Close PROVE PreviewInv'
<1>1. /\ previewHandles' \in HandleSeq /\ Len(previewHandles') = Len(previewHandles)
      /\ InForce(previewHandles', 0)
  BY HandlesAborted DEF Close, PreviewInv
<1>2. /\ DOMAIN previewHandles' = DOMAIN previewHandles
      /\ \A h \in DOMAIN previewHandles : h # 0
  BY <1>1 DEF PreviewInv, HandleSeq
<1>3. Closed \in PreviewStates
  BY DEF Closed, PreviewStates, Either
<1> QED
  BY <1>1, <1>2, <1>3 DEF PreviewInv, PreviewHonest, Close, Closed

\* An answer changes what is shown if it is the one in force, and else nothing.
LEMMA StepPreviewEnds ==
    ASSUME PreviewInv, NEW r \in previewWire, NEW more, NEW state \in PreviewStates,
           UNCHANGED <<previewHandles, previewCurrent>>,
           IF IsCurrent(previewHandles, previewCurrent, r.handle)
           THEN preview' = state /\ previewWire' = (previewWire \ {r}) \cup more
           ELSE previewWire' = previewWire \ {r} /\ UNCHANGED preview,
           \A m \in more : m \in PreviewRequests /\ m.handle = r.handle /\ m.asset = r.asset,
           state.asset = preview.asset,
           IsCurrent(previewHandles, previewCurrent, r.handle) =>
               /\ state.versions > 0 => state.listOf = state.asset
               /\ state.shows # <<>> => state.shows = <<state.asset, state.selected>>
               /\ state.status \in {"loading-list", "loading-detail"} => more # {}
    PROVE  PreviewInv'
<1>1. \A s \in previewWire' :
          /\ s \in PreviewRequests /\ s.handle \in DOMAIN previewHandles'
          /\ s.handle = previewCurrent' => s.asset = preview'.asset
  BY DEF PreviewInv
<1>2. PreviewHonest'
  <2>1. CASE IsCurrent(previewHandles, previewCurrent, r.handle)
    <3>1. \A m \in more : IsCurrent(previewHandles', previewCurrent', m.handle)
      BY <2>1
    <3> QED
      BY <2>1, <3>1 DEF PreviewHonest
  <2>2. CASE ~IsCurrent(previewHandles, previewCurrent, r.handle)
    <3>1. UNCHANGED preview /\ previewWire' = previewWire \ {r}
      BY <2>2
    <3>2. \A s \in previewWire : IsCurrent(previewHandles, previewCurrent, s.handle) =>
              s \in previewWire' /\ IsCurrent(previewHandles', previewCurrent', s.handle)
      BY <2>2, <3>1
    <3> QED
      BY <3>1, <3>2 DEF PreviewInv, PreviewHonest
  <2> QED
    BY <2>1, <2>2
<1>3. preview' \in PreviewStates
  BY DEF PreviewInv
<1> QED
  BY <1>1, <1>2, <1>3 DEF PreviewInv

LEMMA StepPreview ==
    ASSUME PreviewInv, PreviewNext
    PROVE  PreviewInv'
<1>1. /\ preview \in PreviewStates /\ previewHandles \in HandleSeq
      /\ InForce(previewHandles, previewCurrent)
  BY DEF PreviewInv
<1>2. ASSUME NEW asset \in Selections, Open(asset)
      PROVE  PreviewInv'
  <2> DEFINE state == [Closed EXCEPT !.asset = asset, !.status = "loading-list"]
  <2>1. /\ state \in PreviewStates /\ state.asset = asset /\ state.shows = <<>>
        /\ state.versions = 0
    BY DEF Closed, PreviewStates, Either
  <2>2. AskPreview("list", asset, 0, state)
    BY <1>2 DEF Open
  <2> HIDE DEF state
  <2>3. asset \in Either
    BY DEF Either
  <2> QED
    BY <2>1, <2>2, <2>3, StepAskPreview
<1>3. ASSUME NEW chosen \in 1..MaxVersion, Select(chosen)
      PROVE  PreviewInv'
  <2> DEFINE state == [preview EXCEPT !.selected = chosen, !.shows = <<>>,
                                      !.status = "loading-detail"]
  <2>1. chosen \in Nat
    BY PanelsAssumption
  <2>2. /\ state \in PreviewStates /\ state.asset = preview.asset /\ state.shows = <<>>
        /\ state.versions = preview.versions /\ state.listOf = preview.listOf
    BY <1>1, <2>1 DEF PreviewStates
  <2>3. AskPreview("detail", preview.asset, chosen, state)
    BY <1>3 DEF Select
  <2>4. /\ preview.asset \in Either
        /\ preview.versions > 0 => preview.listOf = preview.asset
    BY DEF PreviewInv, PreviewStates, PreviewHonest
  <2> HIDE DEF state
  <2> QED
    BY <2>1, <2>2, <2>3, <2>4, StepAskPreview
<1>4. ASSUME Retry
      PROVE  PreviewInv'
  <2> DEFINE state(status) == [preview EXCEPT !.shows = <<>>, !.status = status]
  <2>1. ASSUME NEW status \in {"loading-list", "loading-detail"}
        PROVE  /\ state(status) \in PreviewStates /\ state(status).asset = preview.asset
               /\ state(status).shows = <<>> /\ state(status).versions = preview.versions
               /\ state(status).listOf = preview.listOf
    BY <1>1, <2>1 DEF PreviewStates
  <2>2. \/ AskPreview("detail", preview.asset, preview.selected, state("loading-detail"))
        \/ AskPreview("list", preview.asset, 0, state("loading-list"))
    BY <1>4 DEF Retry
  <2>3. /\ preview.asset \in Either /\ preview.selected \in Nat
        /\ preview.versions > 0 => preview.listOf = preview.asset
    BY DEF PreviewInv, PreviewStates, PreviewHonest
  <2> HIDE DEF state
  <2>4. CASE AskPreview("detail", preview.asset, preview.selected, state("loading-detail"))
    BY <2>1, <2>3, <2>4, StepAskPreview
  <2>5. CASE AskPreview("list", preview.asset, 0, state("loading-list"))
    BY <2>1, <2>3, <2>5, StepAskPreview
  <2> QED
    BY <2>2, <2>4, <2>5
<1>5. ASSUME NEW r \in previewWire, NEW n \in 0..MaxVersion, ListAnswers(r, n)
      PROVE  PreviewInv'
  <2> DEFINE state == [preview EXCEPT !.listOf = r.asset, !.versions = n,
                         !.selected = n, !.shows = <<>>,
                         !.status = IF n = 0 THEN "ready" ELSE "loading-detail"]
             more == {[r EXCEPT !.what = "detail", !.version = n] : i \in 1..n}
  <2>1. n \in Nat
    BY PanelsAssumption
  <2>2. r \in PreviewRequests /\ r.asset \in Either
    BY DEF PreviewInv, PreviewRequests
  <2>3. /\ state \in PreviewStates /\ state.asset = preview.asset /\ state.shows = <<>>
        /\ state.listOf = r.asset
        /\ state.status = IF n = 0 THEN "ready" ELSE "loading-detail"
    BY <1>1, <2>1, <2>2 DEF PreviewStates
  <2>4. \A m \in more : m \in PreviewRequests /\ m.handle = r.handle /\ m.asset = r.asset
    BY <2>1, <2>2 DEF PreviewRequests
  <2>5. n # 0 => more # {}
    BY <2>1
  <2>6. /\ UNCHANGED <<previewHandles, previewCurrent>>
        /\ IF IsCurrent(previewHandles, previewCurrent, r.handle)
           THEN preview' = state /\ previewWire' = (previewWire \ {r}) \cup more
           ELSE previewWire' = previewWire \ {r} /\ UNCHANGED preview
    BY <1>5 DEF ListAnswers
  <2>7. IsCurrent(previewHandles, previewCurrent, r.handle) => r.asset = preview.asset
    BY OneInForce DEF PreviewInv
  <2> HIDE DEF state, more
  <2> QED
    BY <2>3, <2>4, <2>5, <2>6, <2>7, StepPreviewEnds
<1>6. ASSUME NEW r \in previewWire, DetailAnswers(r)
      PROVE  PreviewInv'
  <2> DEFINE state == [preview EXCEPT !.selected = r.version, !.shows = <<r.asset, r.version>>,
                                      !.status = "ready"]
             none == {}
  <2>1. r \in PreviewRequests /\ r.asset \in Either /\ r.version \in Nat
    BY DEF PreviewInv, PreviewRequests
  <2>2. /\ state \in PreviewStates /\ state.asset = preview.asset /\ state.selected = r.version
        /\ state.shows = <<r.asset, r.version>> /\ state.listOf = preview.listOf
        /\ state.versions = preview.versions /\ state.status = "ready"
    BY <1>1, <2>1 DEF PreviewStates
  <2>3. IsCurrent(previewHandles, previewCurrent, r.handle) => r.asset = preview.asset
    BY OneInForce DEF PreviewInv
  <2>4. /\ UNCHANGED <<previewHandles, previewCurrent>>
        /\ IF IsCurrent(previewHandles, previewCurrent, r.handle)
           THEN preview' = state /\ previewWire' = (previewWire \ {r}) \cup none
           ELSE previewWire' = previewWire \ {r} /\ UNCHANGED preview
    BY <1>6 DEF DetailAnswers
  <2>5. preview.versions > 0 => preview.listOf = preview.asset
    BY DEF PreviewInv, PreviewHonest
  <2>6. \A m \in none : m \in PreviewRequests /\ m.handle = r.handle /\ m.asset = r.asset
    OBVIOUS
  <2> HIDE DEF state, none
  <2> QED
    BY <2>2, <2>3, <2>4, <2>5, <2>6, StepPreviewEnds
<1>7. ASSUME NEW r \in previewWire, PreviewFails(r)
      PROVE  PreviewInv'
  <2> DEFINE state ==
               IF r.what = "detail"
               THEN [preview EXCEPT !.selected = r.version, !.shows = <<>>, !.status = "error"]
               ELSE [preview EXCEPT !.versions = 0, !.selected = 0, !.shows = <<>>,
                                    !.status = "error"]
             none == {}
  <2>1. r \in PreviewRequests /\ r.version \in Nat
    BY DEF PreviewInv, PreviewRequests
  <2>2. /\ state \in PreviewStates /\ state.asset = preview.asset /\ state.shows = <<>>
        /\ state.listOf = preview.listOf /\ state.status = "error"
        /\ state.versions \in {0, preview.versions}
    BY <1>1, <2>1 DEF PreviewStates
  <2>3. /\ UNCHANGED <<previewHandles, previewCurrent>>
        /\ IF IsCurrent(previewHandles, previewCurrent, r.handle)
           THEN preview' = state /\ previewWire' = (previewWire \ {r}) \cup none
           ELSE previewWire' = previewWire \ {r} /\ UNCHANGED preview
    BY <1>7 DEF PreviewFails
  <2>4. preview.versions > 0 => preview.listOf = preview.asset
    BY DEF PreviewInv, PreviewHonest
  <2>5. \A m \in none : m \in PreviewRequests /\ m.handle = r.handle /\ m.asset = r.asset
    OBVIOUS
  <2> HIDE DEF state, none
  <2> QED
    BY <2>2, <2>3, <2>4, <2>5, StepPreviewEnds
<1> QED
  BY <1>2, <1>3, <1>4, <1>5, <1>6, <1>7, StepClosePreview DEF PreviewNext

-----------------------------------------------------------------------------
(* Panels: the plugins of a revision *)

LEMMA StepTrace ==
    ASSUME TraceInv, TraceNext
    PROVE  TraceInv'
<1>1. /\ trace \in TraceStates /\ traceRequest \in Nat /\ TraceHonest
      /\ \A r \in traceWire :
           /\ r \in [request : Nat, of : Either, aborted : BOOLEAN] /\ r.request <= traceRequest
           /\ r.request = traceRequest /\ ~r.aborted => r.of = trace.of
  BY DEF TraceInv
<1>2. ASSUME NEW revision \in Either, TraceTurns(revision)
      PROVE  TraceInv'
  <2> DEFINE asked == [request |-> traceRequest', of |-> revision, aborted |-> FALSE]
             turned == [of |-> revision, shows |-> NotSelected,
                        status |-> IF revision = NotSelected THEN "idle" ELSE "loading"]
  <2>1. /\ traceRequest' = traceRequest + 1 /\ trace' = turned
        /\ traceWire' = {[r EXCEPT !.aborted = TRUE] : r \in traceWire}
                        \cup {[request |-> traceRequest', of |-> rev, aborted |-> FALSE] :
                                 rev \in {revision} \ {NotSelected}}
    BY <1>2 DEF TraceTurns
  <2>2. turned \in TraceStates /\ turned.of = revision /\ turned.shows = NotSelected
        /\ (turned.status = "loading" => revision # NotSelected)
    BY DEF TraceStates, Either
  <2>3. asked \in [request : Nat, of : Either, aborted : BOOLEAN] /\ asked.request = traceRequest'
        /\ asked.of = revision /\ asked.aborted = FALSE
    BY <1>1, <2>1
  <2>4. \A r \in traceWire' :
            r = asked \/ \E old \in traceWire : r = [old EXCEPT !.aborted = TRUE]
    BY <2>1
  <2>5. revision # NotSelected => asked \in traceWire'
    BY <2>1
  <2> HIDE DEF asked, turned
  <2>6. ASSUME NEW r \in traceWire'
        PROVE  /\ r \in [request : Nat, of : Either, aborted : BOOLEAN]
               /\ r.request <= traceRequest'
               /\ r.request = traceRequest' /\ ~r.aborted => r.of = trace'.of
    <3>1. CASE r = asked
      BY <1>1, <2>1, <2>2, <2>3, <3>1
    <3>2. ASSUME NEW old \in traceWire, r = [old EXCEPT !.aborted = TRUE]
          PROVE  /\ r \in [request : Nat, of : Either, aborted : BOOLEAN]
                 /\ r.request <= traceRequest' /\ r.aborted
      <4>1. old \in [request : Nat, of : Either, aborted : BOOLEAN] /\ old.request <= traceRequest
        BY <1>1
      <4>2. r \in [request : Nat, of : Either, aborted : BOOLEAN] /\ r.request = old.request
            /\ r.aborted = TRUE
        BY <3>2, <4>1
      <4> QED
        BY <1>1, <2>1, <4>1, <4>2
    <3> QED
      BY <2>4, <3>1, <3>2
  <2>7. TraceHonest'
    BY <2>1, <2>2, <2>3, <2>5 DEF TraceHonest
  <2>8. traceRequest' \in Nat /\ trace' \in TraceStates
    BY <1>1, <2>1, <2>2
  <2> QED
    BY <2>6, <2>7, <2>8 DEF TraceInv
<1>3. ASSUME NEW r \in traceWire, NEW status \in {"ready", "empty", "invalid", "error"},
             TraceEnds(r, status)
      PROVE  TraceInv'
  <2>1. traceWire' = traceWire \ {r} /\ traceRequest' = traceRequest
    BY <1>3 DEF TraceEnds
  <2>2. CASE traceRequest = r.request /\ ~r.aborted
    <3> DEFINE ended == [trace EXCEPT !.shows = IF status = "ready" THEN r.of ELSE NotSelected,
                                      !.status = status]
    <3>1. trace' = ended
      BY <1>3, <2>2 DEF TraceEnds
    <3>2. r.of \in Either /\ r.of = trace.of
      BY <1>1, <2>2
    <3>3. /\ ended \in TraceStates /\ ended.of = trace.of /\ ended.status # "loading"
          /\ ended.shows \in {r.of, NotSelected}
      BY <1>1, <3>2 DEF TraceStates, Either
    <3> HIDE DEF ended
    <3> QED
      BY <1>1, <2>1, <3>1, <3>2, <3>3 DEF TraceInv, TraceHonest
  <2>3. CASE ~(traceRequest = r.request /\ ~r.aborted)
    <3>1. trace' = trace
      BY <1>3, <2>3, Zenon DEF TraceEnds
    <3> QED
      BY <1>1, <2>1, <2>3, <3>1 DEF TraceInv, TraceHonest
  <2> QED
    BY <2>2, <2>3
<1> QED
  BY <1>2, <1>3 DEF TraceNext, Either

-----------------------------------------------------------------------------
(* Panels: the comments of a revision *)

LEMMA CurrentReview ==
    ASSUME ReviewInv, NEW r \in reviewWire
    PROVE  IsCurrentReview(r) <=> r.handle = reviewCurrent /\ reviewRef.rendered = r.of
<1>1. r.handle \in DOMAIN reviewHandles /\ reviewHandles \in HandleSeq
      /\ InForce(reviewHandles, reviewCurrent)
  BY DEF ReviewInv, ReviewTypeOK
<1> QED
  BY <1>1, OneInForce DEF IsCurrentReview

\* A request knows what it knew when one more comment is written.
LEMMA CommentsStay ==
    ASSUME remarks \in Seq(Either), NEW revision \in Either, NEW entries, NEW of,
           remarks' \in {remarks, Append(remarks, revision)}, CommentsOf(entries, of)
    PROVE  CommentsOf(entries, of)'
<1>1. \A c \in DOMAIN remarks : c \in DOMAIN remarks' /\ remarks'[c] = remarks[c]
  OBVIOUS
<1> QED
  BY <1>1 DEF CommentsOf

\* Steps that leave requests and what is shown alone.
LEMMA RequestKept ==
    ASSUME NEW r \in reviewWire, RequestFits(r),
           remarks' = remarks, reviewRef'.effect = reviewRef.effect,
           r.handle = reviewCurrent' => r.handle = reviewCurrent /\ review' = review
    PROVE  RequestFits(r)'
  BY DEF RequestFits, CommentsOf

LEMMA StepRender ==
    ASSUME ReviewInv, NEW revision \in Either, Render(revision)
    PROVE  ReviewInv'
<1>1. /\ reviewRef' = [reviewRef EXCEPT !.rendered = revision]
      /\ revision # reviewRef.rendered /\ reviewRef.effect = reviewRef.rendered
      /\ UNCHANGED <<review, reviewWire, reviewHandles, reviewCurrent, remarks>>
  BY DEF Render, Turned
<1>2. reviewRef \in [rendered : Either, effect : Either]
  BY DEF ReviewInv, ReviewTypeOK
<1>3. /\ reviewRef' \in [rendered : Either, effect : Either]
      /\ reviewRef'.effect = reviewRef.effect /\ ~Turned'
  BY <1>1, <1>2 DEF Turned
<1>4. ReviewTypeOK'
  BY <1>1, <1>3 DEF ReviewInv, ReviewTypeOK
<1>5. CommentsOf(review.comments, reviewRef.effect)'
  BY <1>1, <1>3 DEF ReviewInv, CommentsOf
<1>6. \A r \in reviewWire : RequestFits(r)'
  BY <1>1, <1>3, RequestKept DEF ReviewInv
<1> QED
  BY <1>1, <1>3, <1>4, <1>5, <1>6 DEF ReviewInv, ReviewWaits

LEMMA StepResetReview == ASSUME ReviewInv, ResetReview PROVE ReviewInv'
<1>1. /\ reviewRef' = [reviewRef EXCEPT !.effect = reviewRef.rendered]
      /\ reviewHandles' = Aborting(reviewHandles, reviewCurrent) /\ reviewCurrent' = 0
      /\ review' = NoReview /\ UNCHANGED <<reviewWire, remarks>>
  BY DEF ResetReview
<1>2. ReviewTypeOK
  BY DEF ReviewInv
<1>3. /\ reviewHandles' \in HandleSeq /\ Len(reviewHandles') = Len(reviewHandles)
      /\ InForce(reviewHandles', 0)
  BY <1>1, <1>2, HandlesAborted DEF ReviewTypeOK
<1>4. /\ DOMAIN reviewHandles' = DOMAIN reviewHandles
      /\ \A h \in DOMAIN reviewHandles : h # 0
  BY <1>2, <1>3 DEF ReviewTypeOK, HandleSeq
<1>5. reviewRef' \in [rendered : Either, effect : Either]
  BY <1>1, <1>2 DEF ReviewTypeOK
<1>6. review' \in ReviewStates /\ review'.comments = <<>> /\ ~review'.loading /\ ~review'.saving
  BY <1>1 DEF NoReview, ReviewStates
<1>7. ReviewTypeOK'
  BY <1>1, <1>2, <1>3, <1>4, <1>5, <1>6 DEF ReviewTypeOK
<1>8. \A r \in reviewWire : RequestFits(r)'
  BY <1>1, <1>2, <1>4 DEF ReviewInv, ReviewTypeOK, RequestFits, CommentsOf
<1> QED
  BY <1>1, <1>6, <1>7, <1>8 DEF ReviewInv, CommentsOf, ReviewWaits

LEMMA StepBeginReview ==
    ASSUME ReviewInv, NEW what \in {"list", "add"}, NEW state \in ReviewStates,
           state.comments = review.comments,
           IF what = "list" THEN ~state.saving ELSE ~state.loading,
           BeginReview(what, state)
    PROVE  ReviewInv'
<1> PICK new, asked :
      /\ new = Len(reviewHandles) + 1
      /\ asked = [what |-> what, of |-> reviewRef.rendered, handle |-> new, served |-> FALSE,
                  answer |-> <<>>]
  OBVIOUS
<1>1. ReviewTypeOK
  BY DEF ReviewInv
<1>2. /\ reviewHandles' \in HandleSeq /\ Len(reviewHandles') = new
      /\ InForce(reviewHandles', new)
  BY <1>1, HandlesBegun DEF BeginReview, ReviewTypeOK
<1>3. /\ reviewCurrent' = new /\ review' = state /\ reviewWire' = reviewWire \cup {asked}
      /\ reviewRef.effect = reviewRef.rendered /\ UNCHANGED <<reviewRef, remarks>>
  BY <1>2 DEF BeginReview, Turned
<1>4. /\ new \in DOMAIN reviewHandles' /\ new \in Nat
      /\ \A h \in DOMAIN reviewHandles : h \in DOMAIN reviewHandles' /\ h # new
  BY <1>1, <1>2 DEF ReviewTypeOK, HandleSeq
<1>5. /\ asked \in ReviewRequests /\ asked.handle = new /\ asked.of = reviewRef.rendered
      /\ asked.what = what /\ asked.served = FALSE
  BY <1>1, <1>4 DEF ReviewTypeOK, ReviewRequests
<1>6. \A r \in reviewWire : r.handle # new
  BY <1>1, <1>4 DEF ReviewTypeOK
<1>7. ReviewTypeOK'
  <2>1. \A r \in reviewWire' : r \in ReviewRequests /\ r.handle \in DOMAIN reviewHandles'
    BY <1>1, <1>3, <1>4, <1>5 DEF ReviewTypeOK
  <2>2. \A r, s \in reviewWire' : r.handle = s.handle => r = s
    <3>1. \A r, s \in reviewWire : r.handle = s.handle => r = s
      BY <1>1 DEF ReviewTypeOK
    <3>2. \A r \in reviewWire' : r \in reviewWire \/ r = asked
      BY <1>3
    <3> QED
      BY <1>5, <1>6, <3>1, <3>2, Zenon
  <2> QED
    BY <1>1, <1>2, <1>3, <2>1, <2>2 DEF ReviewTypeOK
<1>8. \A r \in reviewWire : RequestFits(r)'
  BY <1>3, <1>6, RequestKept DEF ReviewInv
<1>9. RequestFits(asked)'
  BY <1>3, <1>5 DEF RequestFits
<1>10. CommentsOf(review.comments, reviewRef.effect)'
  BY <1>3 DEF ReviewInv, CommentsOf
<1> QED
  BY <1>3, <1>5, <1>7, <1>8, <1>9, <1>10 DEF ReviewInv, ReviewWaits

LEMMA StepServeReview ==
    ASSUME ReviewInv, NEW r \in reviewWire, ServeReview(r)
    PROVE  ReviewInv'
<1>1. PICK answer \in IF r.what = "add" THEN {<<Len(remarks')>>} ELSE ListingsOf(r.of) :
        reviewWire' = (reviewWire \ {r}) \cup {[r EXCEPT !.served = TRUE, !.answer = answer]}
  BY DEF ServeReview
<1> DEFINE served == [r EXCEPT !.served = TRUE, !.answer = answer]
<1>2. /\ ~r.served /\ UNCHANGED <<review, reviewRef, reviewHandles, reviewCurrent>>
      /\ remarks' = IF r.what = "add" THEN Append(remarks, r.of) ELSE remarks
  BY DEF ServeReview
<1>3. /\ ReviewTypeOK /\ r \in ReviewRequests /\ r.of \in Either /\ r.handle \in Nat
      /\ r.handle \in DOMAIN reviewHandles /\ remarks \in Seq(Either) /\ Len(remarks) \in Nat
  BY DEF ReviewInv, ReviewTypeOK, ReviewRequests
<1>4. remarks' \in {remarks, Append(remarks, r.of)} /\ remarks' \in Seq(Either)
  BY <1>2, <1>3, AppendProperties
<1>5. answer \in Seq(Nat) /\ CommentsOf(answer, r.of)'
  <2>1. CASE r.what = "add"
    <3>1. /\ answer = <<Len(remarks) + 1>> /\ Len(remarks) + 1 \in DOMAIN remarks'
          /\ remarks'[Len(remarks) + 1] = r.of
      BY <1>1, <1>2, <1>3, <2>1
    <3> QED
      BY <1>3, <3>1 DEF CommentsOf
  <2>2. CASE r.what # "add"
    <3>1. /\ answer \in [1..Cardinality(RemarksOn(r.of)) -> RemarksOn(r.of)] /\ remarks' = remarks
          /\ \A i, j \in DOMAIN answer : i < j => answer[i] < answer[j]
      BY <1>1, <1>2, <2>2 DEF ListingsOf
    <3>2. Cardinality(RemarksOn(r.of)) \in Nat
      <4>1. IsFiniteSet(1..Len(remarks))
        BY <1>3, FS_Interval
      <4>2. RemarksOn(r.of) \subseteq 1..Len(remarks)
        BY <1>3 DEF RemarksOn
      <4> QED
        BY <4>1, <4>2, FS_Subset, FS_CardinalityType
    <3>3. \A c \in RemarksOn(r.of) : c \in Nat /\ c \in DOMAIN remarks /\ remarks[c] = r.of
      BY <1>3 DEF RemarksOn
    <3>4. answer \in Seq(Nat)
      <4>1. answer \in [1..Cardinality(RemarksOn(r.of)) -> Nat]
        BY <3>1, <3>3
      <4> QED
        BY <3>2, <4>1
    <3> QED
      BY <3>1, <3>3, <3>4 DEF CommentsOf
  <2> QED
    BY <2>1, <2>2
<1>6. /\ served \in ReviewRequests /\ served.handle = r.handle /\ served.of = r.of
      /\ served.what = r.what /\ served.served = TRUE /\ served.answer = answer
  BY <1>3, <1>5 DEF ReviewRequests
<1>7. reviewWire' = (reviewWire \ {r}) \cup {served}
  BY <1>1
<1> HIDE DEF served
<1>8. ReviewTypeOK'
  BY <1>2, <1>3, <1>4, <1>6, <1>7 DEF ReviewTypeOK
<1>9. CommentsOf(review.comments, reviewRef.effect)'
  <2>1. CommentsOf(review.comments, reviewRef.effect)
    BY DEF ReviewInv
  <2>2. PICK entries, of : entries = review.comments /\ of = reviewRef.effect
    OBVIOUS
  <2> QED
    BY <1>2, <1>3, <1>4, <2>1, <2>2, CommentsStay DEF CommentsOf
<1>10. ASSUME NEW s \in reviewWire, s # r
       PROVE  RequestFits(s)'
  <2>1. RequestFits(s)
    BY DEF ReviewInv
  <2>2. s.served => CommentsOf(s.answer, s.of)'
    BY <1>3, <1>4, <2>1, CommentsStay DEF RequestFits
  <2>3. PICK all, of : all = review.comments \o s.answer /\ of = reviewRef.effect
    OBVIOUS
  <2>4. s.handle = reviewCurrent /\ s.served /\ s.what = "add" => CommentsOf(all, of)'
    BY <1>3, <1>4, <2>1, <2>3, CommentsStay DEF RequestFits
  <2> QED
    BY <1>2, <2>1, <2>2, <2>3, <2>4 DEF RequestFits, CommentsOf
<1>11. RequestFits(served)'
  <2>1. RequestFits(r)
    BY DEF ReviewInv
  <2>2. ASSUME r.handle = reviewCurrent, r.what = "add"
        PROVE  CommentsOf(review.comments \o answer, reviewRef.effect)'
    <3>1. PICK seen : seen = review.comments
      OBVIOUS
    <3>2. answer = <<Len(remarks) + 1>> /\ r.of = reviewRef.effect
      BY <1>1, <1>2, <1>3, <2>1, <2>2 DEF RequestFits
    <3>3. seen \in Seq(Nat) /\ CommentsOf(seen, reviewRef.effect)
      BY <3>1 DEF ReviewInv, ReviewTypeOK, ReviewStates
    <3>4. \A i \in DOMAIN seen : seen[i] < Len(remarks) + 1
      BY <1>3, <3>3 DEF CommentsOf
    <3>5. /\ DOMAIN (seen \o answer) = 1..Len(seen) + 1
          /\ \A i \in 1..Len(seen) + 1 :
               (seen \o answer)[i] = IF i = Len(seen) + 1 THEN Len(remarks) + 1 ELSE seen[i]
      BY <1>3, <3>2, <3>3
    <3>6. /\ Len(remarks) + 1 \in DOMAIN remarks' /\ remarks'[Len(remarks) + 1] = r.of
          /\ \A c \in DOMAIN remarks : c \in DOMAIN remarks' /\ remarks'[c] = remarks[c]
      BY <1>2, <1>3, <2>2
    <3>7. \A i \in 1..Len(seen) + 1 :
            /\ (seen \o answer)[i] \in DOMAIN remarks'
            /\ remarks'[(seen \o answer)[i]] = reviewRef.effect
      BY <3>2, <3>3, <3>5, <3>6 DEF CommentsOf
    <3>8. \A i, j \in 1..Len(seen) + 1 : i < j => (seen \o answer)[i] < (seen \o answer)[j]
      BY <3>3, <3>4, <3>5 DEF CommentsOf
    <3> QED
      BY <1>2, <3>1, <3>5, <3>7, <3>8 DEF CommentsOf
  <2>3. CommentsOf(served.answer, served.of)'
    BY <1>5, <1>6 DEF CommentsOf
  <2> QED
    BY <1>2, <1>6, <2>1, <2>2, <2>3 DEF RequestFits, CommentsOf
<1>12. ReviewWaits'
  BY <1>2, <1>6, <1>7 DEF ReviewInv, ReviewWaits, Turned
<1> QED
  BY <1>7, <1>8, <1>9, <1>10, <1>11, <1>12 DEF ReviewInv

LEMMA StepEndReview ==
    ASSUME ReviewInv, NEW r \in reviewWire, NEW answered \in BOOLEAN, EndReview(r, answered)
    PROVE  ReviewInv'
<1>1. /\ answered => r.served
      /\ reviewWire' = reviewWire \ {r}
      /\ UNCHANGED <<reviewRef, reviewHandles, reviewCurrent, remarks>>
  BY DEF EndReview
<1>2. /\ ReviewTypeOK /\ r.answer \in Seq(Nat) /\ review \in ReviewStates
      /\ review.comments \in Seq(Nat)
      /\ RequestFits(r) /\ CommentsOf(review.comments, reviewRef.effect)
  BY DEF ReviewInv, ReviewTypeOK, ReviewRequests, ReviewStates
<1>3. CASE ~IsCurrentReview(r)
  <2>1. review' = review
    BY <1>3 DEF EndReview
  <2>2. ReviewTypeOK'
    BY <1>1, <1>2, <2>1 DEF ReviewTypeOK
  <2>3. \A s \in reviewWire : RequestFits(s)'
    BY <1>1, <2>1, RequestKept DEF ReviewInv
  <2>4. ReviewWaits'
    <3>1. Turned => ~(r.handle = reviewCurrent)
      BY <1>2, <1>3, CurrentReview DEF Turned, RequestFits
    <3> QED
      BY <1>1, <2>1, <3>1 DEF ReviewInv, ReviewWaits, Turned
  <2>5. CommentsOf(review.comments, reviewRef.effect)'
    BY <1>1, <1>2, <2>1 DEF CommentsOf
  <2> QED
    BY <1>1, <2>2, <2>3, <2>4, <2>5 DEF ReviewInv
<1>4. CASE IsCurrentReview(r)
  <2>1. r.handle = reviewCurrent /\ r.of = reviewRef.effect
        /\ (IF r.what = "list" THEN ~review.saving ELSE ~review.loading)
    BY <1>2, <1>4, CurrentReview DEF RequestFits
  <2>2. /\ review' \in ReviewStates /\ ~review'.loading /\ ~review'.saving
        /\ review'.comments \in {review.comments,
                                 IF r.what = "list" THEN r.answer ELSE review.comments \o r.answer}
        /\ ~answered => review'.comments = review.comments
    <3>1. CASE r.what = "list"
      <4>1. review' = [review EXCEPT !.loading = FALSE,
                         !.comments = IF answered THEN r.answer ELSE review.comments]
        BY <1>4, <3>1 DEF EndReview
      <4> QED
        BY <1>2, <2>1, <3>1, <4>1 DEF ReviewStates
    <3>2. CASE r.what # "list"
      <4>1. review' = [review EXCEPT !.saving = FALSE,
                         !.comments = IF answered THEN review.comments \o r.answer
                                      ELSE review.comments]
        BY <1>4, <3>2 DEF EndReview
      <4>2. review.comments \o r.answer \in Seq(Nat)
        BY <1>2
      <4> QED
        BY <1>2, <2>1, <3>2, <4>1, <4>2 DEF ReviewStates
    <3> QED
      BY <3>1, <3>2
  <2>3. CommentsOf(review'.comments, reviewRef.effect)
    <3>1. r \in ReviewRequests
      BY <1>2 DEF ReviewTypeOK
    <3> QED
      BY <1>1, <1>2, <2>1, <2>2, <3>1 DEF RequestFits, ReviewRequests
  <2>4. ReviewTypeOK'
    BY <1>1, <1>2, <2>2 DEF ReviewTypeOK
  <2>5. \A s \in reviewWire \ {r} : s.handle # reviewCurrent
    BY <1>2, <2>1 DEF ReviewTypeOK
  <2>6. \A s \in reviewWire \ {r} : RequestFits(s)'
    BY <1>1, <2>5, RequestKept DEF ReviewInv
  <2>7. CommentsOf(review.comments, reviewRef.effect)'
    BY <1>1, <2>3 DEF CommentsOf
  <2> QED
    BY <1>1, <2>2, <2>4, <2>6, <2>7 DEF ReviewInv, ReviewWaits
<1> QED
  BY <1>3, <1>4

LEMMA StepReviewPanel == ASSUME ReviewInv, ReviewNext PROVE ReviewInv'
<1>1. review \in ReviewStates
  BY DEF ReviewInv, ReviewTypeOK
<1>2. ASSUME Refresh
      PROVE  ReviewInv'
  <2> DEFINE state == [review EXCEPT !.saving = FALSE, !.loading = TRUE]
  <2>1. state \in ReviewStates /\ state.comments = review.comments /\ state.saving = FALSE
    BY <1>1 DEF ReviewStates
  <2>2. BeginReview("list", state)
    BY <1>2 DEF Refresh
  <2> HIDE DEF state
  <2> QED
    BY <2>1, <2>2, StepBeginReview
<1>3. ASSUME AddRemark
      PROVE  ReviewInv'
  <2> DEFINE state == [review EXCEPT !.loading = FALSE, !.saving = TRUE]
  <2>1. state \in ReviewStates /\ state.comments = review.comments /\ state.loading = FALSE
    BY <1>1 DEF ReviewStates
  <2>2. BeginReview("add", state)
    BY <1>3 DEF AddRemark
  <2> HIDE DEF state
  <2> QED
    BY <2>1, <2>2, StepBeginReview
<1> QED
  BY <1>2, <1>3, StepRender, StepResetReview, StepServeReview, StepEndReview
     DEF ReviewNext, Either

-----------------------------------------------------------------------------
(* Panels: the theorems *)

LEMMA PanelsStart == PanelsInit => PanelsInv
<1> SUFFICES ASSUME PanelsInit PROVE PanelsInv
  OBVIOUS
<1>1. <<>> \in HandleSeq /\ InForce(<<>>, 0) /\ NotSelected \in Either
  BY DEF HandleSeq, InForce, Either
<1>2. PreviewInv
  <2>1. Closed \in PreviewStates
    BY <1>1 DEF Closed, PreviewStates
  <2> QED
    BY <1>1, <2>1 DEF PanelsInit, PreviewInv, PreviewHonest, Closed
<1>3. ReviewInv
  <2>1. NoReview \in ReviewStates /\ remarks \in Seq(Either)
    BY DEF PanelsInit, NoReview, ReviewStates
  <2>2. ReviewTypeOK
    BY <1>1, <2>1 DEF PanelsInit, ReviewTypeOK
  <2> QED
    BY <2>2 DEF PanelsInit, ReviewInv, CommentsOf, ReviewWaits, NoReview
<1>4. TraceInv
  BY <1>1 DEF PanelsInit, TraceInv, TraceStates, TraceHonest
<1> QED
  BY <1>2, <1>3, <1>4 DEF PanelsInv

LEMMA PanelsStep == PanelsInv /\ [PanelsNext]_panelsVars => PanelsInv'
<1> SUFFICES ASSUME PanelsInv, [PanelsNext]_panelsVars
             PROVE  PanelsInv'
  OBVIOUS
<1>1. UNCHANGED previewVars => PreviewInv'
  BY DEF PanelsInv, previewVars, PreviewInv, PreviewHonest, IsCurrent
<1>2. UNCHANGED reviewVars => ReviewInv'
  <2> SUFFICES ASSUME UNCHANGED reviewVars PROVE ReviewInv'
    OBVIOUS
  <2>1. UNCHANGED <<review, reviewRef, reviewWire, reviewHandles, reviewCurrent, remarks>>
    BY DEF reviewVars
  <2>2. ReviewTypeOK'
    BY <2>1 DEF PanelsInv, ReviewInv, ReviewTypeOK
  <2>3. \A r \in reviewWire : RequestFits(r)'
    BY <2>1, RequestKept DEF PanelsInv, ReviewInv
  <2>4. ReviewWaits'
    BY <2>1 DEF PanelsInv, ReviewInv, ReviewWaits, Turned
  <2>5. CommentsOf(review.comments, reviewRef.effect)'
    BY <2>1 DEF PanelsInv, ReviewInv, CommentsOf
  <2> QED
    BY <2>1, <2>2, <2>3, <2>4, <2>5 DEF ReviewInv
<1>3. UNCHANGED traceVars => TraceInv'
  BY DEF PanelsInv, traceVars, TraceInv, TraceHonest
<1>4. CASE PreviewNext
  <2>1. PreviewInv'
    BY <1>4, StepPreview DEF PanelsInv
  <2> QED
    BY <1>2, <1>3, <1>4, <2>1 DEF PreviewNext, PanelsInv
<1>5. CASE ReviewNext
  <2>1. ReviewInv'
    BY <1>5, StepReviewPanel DEF PanelsInv
  <2> QED
    BY <1>1, <1>3, <1>5, <2>1 DEF ReviewNext, PanelsInv
<1>6. CASE TraceNext
  <2>1. TraceInv'
    BY <1>6, StepTrace DEF PanelsInv
  <2> QED
    BY <1>1, <1>2, <1>6, <2>1 DEF TraceNext, PanelsInv
<1> QED
  BY <1>1, <1>2, <1>3, <1>4, <1>5, <1>6 DEF PanelsNext, panelsVars, PanelsInv

\* Of all handles a panel has made only its current one is not aborted, and the request under
\* it is about what the panel is about (beginRequest of the hooks).
THEOREM PanelsInvariance == PanelsSpec => []PanelsInv
  BY PanelsStart, PanelsStep, PTL DEF PanelsSpec

\* In whatever order answers arrive, no panel shows what belongs to something else, or waits for
\* an answer it will drop (use-snapshot-preview.ts, use-review-comments.ts, use-plugin-trace.ts).
THEOREM PanelsStayHonest == PanelsSpec => []PanelsShowSelected
<1>1. ASSUME ReviewInv
      PROVE  ReviewHonest
  <2>1. Turned /\ (review.loading \/ review.saving) => \E r \in reviewWire : IsCurrentReview(r)
    BY <1>1, CurrentReview DEF ReviewInv, ReviewWaits, RequestFits, Turned
  <2> QED
    BY <1>1, <2>1 DEF ReviewInv, ReviewHonest, CommentsOf, Turned
<1>2. PanelsInv => PanelsShowSelected
  BY <1>1 DEF PanelsInv, PreviewInv, TraceInv, PanelsShowSelected
<1> QED
  BY <1>2, PanelsInvariance, PTL
=============================================================================
