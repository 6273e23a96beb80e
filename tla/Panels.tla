-------------------------------- MODULE Panels --------------------------------
(* The panels of the workspace page that load what the user has selected: the    *)
(* versions of a data asset (use-snapshot-preview.ts), the comments of a revision  *)
(* (use-review-comments.ts) and its plugins (use-plugin-trace.ts). Each aborts the  *)
(* request it replaces, but an answer that is already on its way still arrives, and *)
(* answers arrive in any order.                                                  *)
EXTENDS Integers, Sequences, FiniteSets

CONSTANTS
    Selections,     \* data assets, and revisions
    NotSelected,
    MaxVersion,     \* snapshots an asset may have
    MaxHandles,     \* bound on the requests of a panel
    MaxRemarks      \* bound on comments

ASSUME PanelsAssumption == NotSelected \notin Selections /\ MaxVersion \in Nat

VARIABLES
    preview,        \* state of useSnapshotPreview
    previewWire,    \* its requests that have not been answered
    previewHandles, \* the handles it has made, the last one first in force
    previewCurrent, \* its requestRef, a position in previewHandles; 0: null
    review,         \* state of useReviewComments
    reviewRef,      \* its revisionRef
    reviewWire, reviewHandles, reviewCurrent,
    remarks,        \* review_comments: the revision of each
    trace,          \* state of usePluginTrace
    traceWire,      \* its requests that have not been answered
    traceRequest    \* its requestIdRef

previewVars == <<preview, previewWire, previewHandles, previewCurrent>>
reviewVars == <<review, reviewRef, reviewWire, reviewHandles, reviewCurrent, remarks>>
traceVars == <<trace, traceWire, traceRequest>>
panelsVars == <<previewVars, reviewVars, traceVars>>

-----------------------------------------------------------------------------
(* Handles. An id restarts at 1 after requestRef was set to null.              *)

\* What beginRequest leaves in requestRef: the next id, and the old handle aborted.
Aborting(handles, current) ==
    [h \in DOMAIN handles |-> [handles[h] EXCEPT !.aborted = @ \/ h = current]]
Begun(handles, current) ==
    Append(Aborting(handles, current),
           [id |-> (IF current = 0 THEN 0 ELSE handles[current].id) + 1, aborted |-> FALSE])

IsCurrentId(handles, current, h) == current # 0 /\ handles[current].id = handles[h].id
IsCurrent(handles, current, h) ==
    current # 0 /\ handles[current].id = handles[h].id /\ ~handles[h].aborted

-----------------------------------------------------------------------------
(* The versions of a data asset.                                               *)

Closed == [asset |-> NotSelected, listOf |-> NotSelected, versions |-> 0, selected |-> 0,
           shows |-> <<>>, status |-> "idle"]

\* A request for the list, or for one snapshot; setState comes in the same handler.
AskPreview(what, asset, version, state) ==
    /\ Len(previewHandles) < MaxHandles
    /\ previewHandles' = Begun(previewHandles, previewCurrent)
    /\ previewCurrent' = Len(previewHandles')
    /\ previewWire' = previewWire \cup
           {[what |-> what, asset |-> asset, version |-> version, handle |-> previewCurrent']}
    /\ preview' = state

Open(asset) == AskPreview("list", asset, 0, [Closed EXCEPT !.asset = asset, !.status = "loading-list"])

Select(version) ==
    /\ preview.asset # NotSelected /\ version \in 1..preview.versions
    /\ AskPreview("detail", preview.asset, version,
           [preview EXCEPT !.selected = version, !.shows = <<>>, !.status = "loading-detail"])

Retry ==
    /\ preview.status = "error"
    /\ IF preview.selected # 0
       THEN AskPreview("detail", preview.asset, preview.selected,
                [preview EXCEPT !.shows = <<>>, !.status = "loading-detail"])
       ELSE AskPreview("list", preview.asset, 0,
                [preview EXCEPT !.shows = <<>>, !.status = "loading-list"])

Close ==
    /\ preview # Closed
    /\ preview' = Closed
    /\ previewHandles' = Aborting(previewHandles, previewCurrent)
    /\ previewCurrent' = 0
    /\ UNCHANGED previewWire

\* The list is newest first; the newest snapshot is read under the same handle.
ListAnswers(r, versions) ==
    /\ r.what = "list"
    /\ IF IsCurrent(previewHandles, previewCurrent, r.handle)
       THEN /\ preview' = [preview EXCEPT !.listOf = r.asset, !.versions = versions,
                               !.selected = versions, !.shows = <<>>,
                               !.status = IF versions = 0 THEN "ready" ELSE "loading-detail"]
            /\ previewWire' = (previewWire \ {r}) \cup
                   {[r EXCEPT !.what = "detail", !.version = versions] : n \in 1..versions}
       ELSE previewWire' = previewWire \ {r} /\ UNCHANGED preview
    /\ UNCHANGED <<previewHandles, previewCurrent>>

DetailAnswers(r) ==
    /\ r.what = "detail"
    /\ previewWire' = previewWire \ {r}
    /\ preview' = IF IsCurrent(previewHandles, previewCurrent, r.handle)
                  THEN [preview EXCEPT !.selected = r.version, !.shows = <<r.asset, r.version>>,
                                       !.status = "ready"]
                  ELSE preview
    /\ UNCHANGED <<previewHandles, previewCurrent>>

PreviewFails(r) ==
    /\ previewWire' = previewWire \ {r}
    /\ preview' = IF ~IsCurrent(previewHandles, previewCurrent, r.handle) THEN preview
                  ELSE IF r.what = "detail"
                  THEN [preview EXCEPT !.selected = r.version, !.shows = <<>>, !.status = "error"]
                  ELSE [preview EXCEPT !.versions = 0, !.selected = 0, !.shows = <<>>,
                                       !.status = "error"]
    /\ UNCHANGED <<previewHandles, previewCurrent>>

PreviewNext ==
    /\ \/ \E asset \in Selections : Open(asset)
       \/ \E version \in 1..MaxVersion : Select(version)
       \/ Retry \/ Close
       \/ \E r \in previewWire : DetailAnswers(r) \/ PreviewFails(r)
                                 \/ \E n \in 0..MaxVersion : ListAnswers(r, n)
    /\ UNCHANGED <<reviewVars, traceVars>>

-----------------------------------------------------------------------------
(* The comments of a revision. React writes revisionRef when it renders and runs *)
(* the effect on revisionId later, but before the next event of the user.        *)

NoReview == [comments |-> <<>>, loading |-> FALSE, saving |-> FALSE]

\* The revision the hook was called with when the effect last ran.
Turned == reviewRef.effect = reviewRef.rendered

Render(revision) ==
    /\ Turned /\ revision # reviewRef.rendered
    /\ reviewRef' = [reviewRef EXCEPT !.rendered = revision]
    /\ UNCHANGED <<review, reviewWire, reviewHandles, reviewCurrent, remarks>>

ResetReview ==
    /\ ~Turned
    /\ reviewRef' = [reviewRef EXCEPT !.effect = reviewRef.rendered]
    /\ reviewHandles' = Aborting(reviewHandles, reviewCurrent)
    /\ reviewCurrent' = 0
    /\ review' = NoReview
    /\ UNCHANGED <<reviewWire, remarks>>

BeginReview(what, state) ==
    /\ Turned /\ reviewRef.rendered # NotSelected
    /\ Len(reviewHandles) < MaxHandles
    /\ reviewHandles' = Begun(reviewHandles, reviewCurrent)
    /\ reviewCurrent' = Len(reviewHandles')
    /\ reviewWire' = reviewWire \cup {[what |-> what, of |-> reviewRef.rendered,
                                       handle |-> reviewCurrent', served |-> FALSE, answer |-> <<>>]}
    /\ review' = state
    /\ UNCHANGED <<reviewRef, remarks>>

\* The button is disabled while the list is read, not while a comment is saved.
Refresh == ~review.loading /\ BeginReview("list", [review EXCEPT !.saving = FALSE, !.loading = TRUE])
AddRemark == ~review.saving /\ BeginReview("add", [review EXCEPT !.loading = FALSE, !.saving = TRUE])

\* The comments of a revision, in the order of their creation. (There is one such listing.)
RemarksOn(revision) == {c \in DOMAIN remarks : remarks[c] = revision}
ListingsOf(revision) ==
    {s \in [1..Cardinality(RemarksOn(revision)) -> RemarksOn(revision)] :
        \A i, j \in DOMAIN s : i < j => s[i] < s[j]}

\* The server takes a request, also one the panel has given up.
ServeReview(r) ==
    /\ ~r.served
    /\ remarks' = IF r.what = "add" THEN Append(remarks, r.of) ELSE remarks
    /\ Len(remarks') <= MaxRemarks
    /\ \E answer \in IF r.what = "add" THEN {<<Len(remarks')>>} ELSE ListingsOf(r.of) :
          reviewWire' = (reviewWire \ {r}) \cup {[r EXCEPT !.served = TRUE, !.answer = answer]}
    /\ UNCHANGED <<review, reviewRef, reviewHandles, reviewCurrent>>

IsCurrentReview(r) ==
    IsCurrent(reviewHandles, reviewCurrent, r.handle) /\ reviewRef.rendered = r.of

\* An answer, or a failure before or after the server has done its work.
EndReview(r, answered) ==
    /\ answered => r.served
    /\ reviewWire' = reviewWire \ {r}
    /\ review' = IF ~IsCurrentReview(r) THEN review
                 ELSE IF r.what = "list"
                 THEN [review EXCEPT !.loading = FALSE,
                                     !.comments = IF answered THEN r.answer ELSE @]
                 ELSE [review EXCEPT !.saving = FALSE,
                                     !.comments = IF answered THEN @ \o r.answer ELSE @]
    /\ UNCHANGED <<reviewRef, reviewHandles, reviewCurrent, remarks>>

ReviewNext ==
    /\ \/ \E revision \in Selections \cup {NotSelected} : Render(revision)
       \/ ResetReview \/ Refresh \/ AddRemark
       \/ \E r \in reviewWire : ServeReview(r) \/ \E answered \in BOOLEAN : EndReview(r, answered)
    /\ UNCHANGED <<previewVars, traceVars>>

-----------------------------------------------------------------------------
(* The plugins of a revision: one effect, whose cleanup aborts its request.     *)

TraceTurns(revision) ==
    /\ revision # trace.of
    /\ traceRequest < MaxHandles
    /\ traceRequest' = traceRequest + 1
    /\ trace' = [of |-> revision, shows |-> NotSelected,
                 status |-> IF revision = NotSelected THEN "idle" ELSE "loading"]
    /\ traceWire' = {[r EXCEPT !.aborted = TRUE] : r \in traceWire} \cup
           {[request |-> traceRequest', of |-> rev, aborted |-> FALSE] : rev \in {revision} \ {NotSelected}}

TraceEnds(r, status) ==
    /\ traceWire' = traceWire \ {r}
    /\ trace' = IF traceRequest = r.request /\ ~r.aborted
                THEN [trace EXCEPT !.shows = IF status = "ready" THEN r.of ELSE NotSelected,
                                   !.status = status]
                ELSE trace
    /\ UNCHANGED traceRequest

TraceNext ==
    /\ \/ \E revision \in Selections \cup {NotSelected} : TraceTurns(revision)
       \/ \E r \in traceWire : \E status \in {"ready", "empty", "invalid", "error"} : TraceEnds(r, status)
    /\ UNCHANGED <<previewVars, reviewVars>>

-----------------------------------------------------------------------------
PanelsInit ==
    /\ preview = Closed /\ previewWire = {} /\ previewHandles = <<>> /\ previewCurrent = 0
    /\ review = NoReview /\ reviewRef = [rendered |-> NotSelected, effect |-> NotSelected]
    /\ reviewWire = {} /\ reviewHandles = <<>> /\ reviewCurrent = 0 /\ remarks = <<>>
    /\ trace = [of |-> NotSelected, shows |-> NotSelected, status |-> "idle"]
    /\ traceWire = {} /\ traceRequest = 0

PanelsNext == PreviewNext \/ ReviewNext \/ TraceNext
PanelsSpec == PanelsInit /\ [][PanelsNext]_panelsVars

-----------------------------------------------------------------------------
(* Properties. *)

\* What the preview shows belongs to the asset and the version that are selected in it; and
\* while it says that it loads, a request is under way whose answer it will take.
PreviewHonest ==
    /\ preview.versions > 0 => preview.listOf = preview.asset
    /\ preview.shows # <<>> => preview.shows = <<preview.asset, preview.selected>>
    /\ preview.status \in {"loading-list", "loading-detail"} =>
          \E r \in previewWire : IsCurrent(previewHandles, previewCurrent, r.handle)

\* The comments shown, once the effect has run, are comments of the revision, in their order
\* and each once, although an addition that was given up may have been saved; and the panel
\* waits only for a request whose answer it will take.
ReviewHonest ==
    LET shown == review.comments
    IN  Turned =>
          /\ \A i \in DOMAIN shown : remarks[shown[i]] = reviewRef.rendered
          /\ \A i, j \in DOMAIN shown : i < j => shown[i] < shown[j]
          /\ review.loading \/ review.saving => \E r \in reviewWire : IsCurrentReview(r)

\* The plugins shown are those of the revision on the page.
TraceHonest ==
    /\ trace.shows # NotSelected => trace.shows = trace.of
    /\ trace.status = "loading" => \E r \in traceWire : r.request = traceRequest /\ ~r.aborted

\* No panel shows what belongs to something else, or waits for an answer it will drop,
\* whatever the order of answers (the request handles of the three hooks).
PanelsShowSelected == PreviewHonest /\ ReviewHonest /\ TraceHonest
=============================================================================
