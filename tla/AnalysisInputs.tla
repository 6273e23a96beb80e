---------------------------- MODULE AnalysisInputs ----------------------------
(***************************************************************************)
(* What a generation is based on: the analysis brief, the metric and the   *)
(* data snapshot, edited by several pages while jobs freeze them.          *)
(*                                                                         *)
(* The page saves a draft and confirms it with a second request.  Every    *)
(* PATCH reads the latest brief, merges its body into what it has read and *)
(* writes all fields back, without a lock.  A job reads snapshot, metric   *)
(* and brief one after the other before it is inserted; JobEnqueue has its *)
(* key and conversation, GenerationJobLease what becomes of it.            *)
(***************************************************************************)
EXTENDS Naturals, Sequences

CONSTANTS
    Editors,        \* pages of members who may edit, each with one request at a time
    Texts,          \* what a field of a brief may say
    Unset,          \* no brief, no metric, no parent, a field the body leaves out
    MaxSnapshots, MaxMetrics, MaxJobs, MaxSaves

\* A field that holds no text, after trimming.
Blank == "blank"
ASSUME AnalysisInputsAssumption == Blank \notin Texts

VARIABLES
    briefs,         \* analysis_briefs of the project, the latest update last
    metrics,        \* number of metric_definitions, all of them confirmed
    snapshot,       \* version of the ready snapshot of the asset, 0 without
    groundedJobs,   \* generation_jobs with what they froze
    known,          \* whether a page's cache has a brief
    edits,          \* what each page is doing
    saves,          \* forms submitted, for the bound
    confirmations   \* contents that a confirmation has judged

analysisInputsVars ==
    <<briefs, metrics, snapshot, groundedJobs, known, edits, saves, confirmations>>

\* Question and grain stand for the five fields of a brief.
Fields == {"question", "grain"}
Contents == [Fields -> Texts \cup {Blank}]
\* isBriefComplete, and canConfirm of the form.
Complete(content) == \A f \in Fields : content[f] # Blank

Resting == [step |-> "none"]
LatestBrief == briefs[Len(briefs)]
\* The project's newest row is the one updated last.
Touched(b, row) ==
    LET place == CHOOSE i \in DOMAIN briefs : briefs[i].id = b
    IN  [i \in DOMAIN briefs |-> IF i < place THEN briefs[i]
                                ELSE IF i = Len(briefs) THEN row ELSE briefs[i + 1]]

AnalysisInputsInit ==
    /\ \E text \in Texts :
        briefs \in {<<>>, <<[id |-> 1, content |-> [f \in Fields |-> text], status |-> "confirmed"]>>}
    /\ metrics = 0
    /\ snapshot = 0
    /\ groundedJobs = <<>>
    /\ known = [e \in Editors |-> briefs # <<>>]
    /\ edits = [e \in Editors |-> Resting]
    /\ saves = 0
    /\ confirmations = {briefs[i].content : i \in DOMAIN briefs}

Turn(e, next) == edits' = [edits EXCEPT ![e] = next]
Quit(e) == Turn(e, Resting)
InputsStay == UNCHANGED <<briefs, metrics, snapshot, groundedJobs, confirmations>>

-----------------------------------------------------------------------------
(* Briefs. *)

\* The page loads its resources.
LoadBrief(e) ==
    /\ edits[e] = Resting
    /\ known' = [known EXCEPT ![e] = briefs # <<>>]
    /\ UNCHANGED <<edits, saves>> /\ InputsStay

\* saveBrief: a page that knows of no brief creates one, another page changes the latest.
SaveBrief(e, content, confirm) ==
    /\ edits[e] = Resting
    /\ saves < MaxSaves
    /\ confirm => Complete(content)
    /\ saves' = saves + 1
    /\ Turn(e, [step |-> IF known[e] THEN "draft" ELSE "create", content |-> content,
                confirm |-> confirm, row |-> Unset])
    /\ UNCHANGED known /\ InputsStay

\* POST analysis-brief.
CreateBrief(e) ==
    LET asked == edits[e] IN
    /\ asked.step = "create"
    /\ briefs' = Append(briefs, [id |-> Len(briefs) + 1, content |-> asked.content,
                                 status |-> IF asked.confirm THEN "confirmed" ELSE "draft"])
    /\ confirmations' = confirmations \cup (IF asked.confirm THEN {asked.content} ELSE {})
    /\ known' = [known EXCEPT ![e] = TRUE]
    /\ Quit(e)
    /\ UNCHANGED <<metrics, snapshot, groundedJobs, saves>>

\* PATCH analysis-brief reads the latest row ...
ReadBrief(e) ==
    /\ edits[e].step \in {"draft", "confirm"}
    /\ edits[e].row = Unset
    /\ briefs # <<>>
    /\ Turn(e, [edits[e] EXCEPT !.row = LatestBrief])
    /\ UNCHANGED <<known, saves>> /\ InputsStay

\* ... and writes all of it: fields of the body make a draft, a status alone is set.
WriteDraft(e) ==
    LET asked == edits[e] IN
    /\ asked.step = "draft" /\ asked.row # Unset
    /\ briefs' = Touched(asked.row.id, [asked.row EXCEPT !.content = asked.content,
                                                         !.status = "draft"])
    /\ Turn(e, IF asked.confirm THEN [asked EXCEPT !.step = "confirm", !.row = Unset] ELSE Resting)
    /\ UNCHANGED <<metrics, snapshot, groundedJobs, known, saves, confirmations>>

\* As if the status alone were written over whatever the row holds by now.
StatusOnly(row) ==
    [(CHOOSE r \in {briefs[i] : i \in DOMAIN briefs} : r.id = row.id) EXCEPT !.status = "confirmed"]
Confirmed(row) == [row EXCEPT !.status = "confirmed"]
WriteConfirmed(e) ==
    LET read == edits[e].row IN
    /\ edits[e].step = "confirm" /\ read # Unset
    /\ IF Complete(read.content)
       THEN /\ briefs' = Touched(read.id, Confirmed(read))
            /\ confirmations' = confirmations \cup {read.content}
       ELSE UNCHANGED <<briefs, confirmations>>
    /\ Quit(e)
    /\ UNCHANGED <<metrics, snapshot, groundedJobs, known, saves>>

-----------------------------------------------------------------------------
(* Metrics and snapshots. *)

\* POST metric-definitions confirms what the form says; two at once may get one version.
ConfirmMetric(e) ==
    /\ edits[e] = Resting
    /\ metrics < MaxMetrics
    /\ metrics' = metrics + 1
    /\ UNCHANGED <<briefs, snapshot, groundedJobs, known, edits, saves, confirmations>>

\* DataAssetIntake has the details.
PublishSnapshot ==
    /\ snapshot < MaxSnapshots
    /\ snapshot' = snapshot + 1
    /\ UNCHANGED <<briefs, metrics, groundedJobs, known, edits, saves, confirmations>>

-----------------------------------------------------------------------------
(* Generation jobs. *)

\* createGenerationJobRecord: an answer to a question names the inputs of its parent.
Generate(e, metric, parent) ==
    /\ edits[e] = Resting
    /\ Len(groundedJobs) < MaxJobs
    /\ parent # Unset =>
          /\ groundedJobs[parent].stage = "needs_clarification"
          /\ metric \in {Unset, groundedJobs[parent].metric}
    /\ Turn(e, [step |-> "asset", metric |-> metric, parent |-> parent, snapshot |-> 0])
    /\ UNCHANGED <<known, saves>> /\ InputsStay

\* checkGenerationPreconditions: the snapshot, ...
FindReadyAsset(e) ==
    /\ edits[e].step = "asset"
    /\ IF snapshot = 0
       THEN Quit(e)
       ELSE Turn(e, [edits[e] EXCEPT !.step = "metrics", !.snapshot = snapshot])
    /\ UNCHANGED <<known, saves>> /\ InputsStay

\* ... the metric, which must be named if there are several, ...
ChosenMetric(metric) ==
    IF metric # Unset THEN metric ELSE IF metrics = 1 THEN 1 ELSE Unset
ChooseMetric(e) ==
    LET metric == ChosenMetric(edits[e].metric) IN
    /\ edits[e].step = "metrics"
    /\ IF metric = Unset
       THEN Quit(e)
       ELSE Turn(e, [edits[e] EXCEPT !.step = "brief", !.metric = metric])
    /\ UNCHANGED <<known, saves>> /\ InputsStay

\* ... and the brief; then an answer must still be about the inputs of its parent.
SameInputs(asked) ==
    asked.parent # Unset =>
        /\ groundedJobs[asked.parent].snapshot = asked.snapshot
        /\ groundedJobs[asked.parent].metric = asked.metric
RequireBrief(e) ==
    /\ edits[e].step = "brief"
    /\ IF /\ briefs # <<>>
          /\ LatestBrief.status = "confirmed" /\ Complete(LatestBrief.content)
          /\ SameInputs(edits[e])
       THEN Turn(e, [step |-> "insert", parent |-> edits[e].parent,
                     metric |-> edits[e].metric, snapshot |-> edits[e].snapshot,
                     brief |-> LatestBrief.content])
       ELSE Quit(e)
    /\ UNCHANGED <<known, saves>> /\ InputsStay

InsertGrounded(e) ==
    LET frozen == edits[e] IN
    /\ frozen.step = "insert"
    /\ groundedJobs' = Append(groundedJobs,
           [brief |-> frozen.brief, metric |-> frozen.metric, snapshot |-> frozen.snapshot,
            parent |-> frozen.parent, stage |-> "queued"])
    /\ Quit(e)
    /\ UNCHANGED <<briefs, metrics, snapshot, known, saves, confirmations>>

\* The worker asks a question; every other stage of a job is the same to its inputs.
AskQuestion(j) ==
    /\ groundedJobs[j].stage = "queued"
    /\ groundedJobs' = [groundedJobs EXCEPT ![j].stage = "needs_clarification"]
    /\ UNCHANGED <<briefs, metrics, snapshot, known, edits, saves, confirmations>>

AnalysisInputsNext ==
    \/ \E e \in Editors :
        \/ LoadBrief(e) \/ CreateBrief(e) \/ ReadBrief(e) \/ WriteDraft(e) \/ WriteConfirmed(e)
        \/ \E content \in Contents, confirm \in BOOLEAN : SaveBrief(e, content, confirm)
        \/ ConfirmMetric(e)
        \/ \E metric \in 1..metrics \cup {Unset}, parent \in DOMAIN groundedJobs \cup {Unset} :
            Generate(e, metric, parent)
        \/ FindReadyAsset(e) \/ ChooseMetric(e) \/ RequireBrief(e) \/ InsertGrounded(e)
    \/ PublishSnapshot
    \/ \E j \in DOMAIN groundedJobs : AskQuestion(j)

AnalysisInputsSpec == AnalysisInputsInit /\ [][AnalysisInputsNext]_analysisInputsVars

-----------------------------------------------------------------------------
(* What must hold. *)

\* Whatever edits, confirmations and uploads overlap, no brief is confirmed with a field left
\* blank, a job is based on a content that a confirmation has judged, and a chain of questions
\* and answers stays on one snapshot and one metric.
\* About the PATCH of analysis-brief, checkGenerationPreconditions and
\* createGenerationJobRecord, none of which locks what it reads.
JobsAreGrounded ==
    /\ \A i \in DOMAIN briefs : briefs[i].status = "confirmed" => Complete(briefs[i].content)
    /\ \A j \in DOMAIN groundedJobs :
        LET job == groundedJobs[j] IN
        /\ job.brief \in confirmations
        /\ job.metric \in 1..metrics
        /\ job.parent # Unset =>
              /\ job.snapshot = groundedJobs[job.parent].snapshot
              /\ job.metric = groundedJobs[job.parent].metric
=============================================================================
