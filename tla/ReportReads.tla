------------------------------ MODULE ReportReads ------------------------------
(***************************************************************************)
(* What members of a project are shown of its charts, while reviews go on. *)
(*                                                                         *)
(* A read is several statements without a transaction: the pointers of the *)
(* artifact and then the revisions they name, a share and then its         *)
(* revision, one side of a comparison and then the other, the list of      *)
(* evidence and then each revision behind it.  Viewers get approved        *)
(* revisions only, and so does whoever opens a share.                      *)
(*                                                                         *)
(* Requests disturb each other only through rows that single statements    *)
(* change here at any time, so one request is followed at a time.          *)
(***************************************************************************)
EXTENDS Naturals, Sequences

CONSTANTS
    Reports,    \* revisions of one artifact, all in the project
    Latest,     \* the latest of them
    Members,    \* users
    Casts,      \* what their effectiveRoles may be; an outsider is no member
    Absent,     \* no pointer, no request, nobody
    MaxShares, MaxComments

ASSUME ReportReadsAssumption ==
    /\ Latest \in Reports
    /\ Casts \subseteq [Members -> {"owner", "editor", "reviewer", "viewer", "outsider"}]

VARIABLES
    roleOf,         \* members.role and project_members.role, taken together
    reportStatus,   \* chart_revisions.status
    publishedReport,\* chart_artifacts.published_revision_id
    artifactStatus, \* chart_artifacts.status
    shares,         \* chart_shares, in the order of creation
    comments,       \* chart_comments
    ask,            \* the request, who sent it and what it has read
    shown,          \* revisions the answer of the last request holds
    approvedSince   \* revisions approved at some time since that request began

reportReadsVars == <<roleOf, reportStatus, publishedReport, artifactStatus, shares, comments, ask, shown,
                     approvedSince>>

\* canPerformChartAction; an outsider gets no ProjectAccess at all.
Everything == {"view", "create_revision", "submit_review", "approve", "request_changes", "comment",
               "resolve_comment", "manage_data", "manage_theme", "share", "archive"}
ChartActions(role) ==
    CASE role = "owner" -> Everything
      [] role = "editor" -> Everything \ {"approve", "request_changes"}
      [] role = "reviewer" -> {"view", "submit_review", "approve", "request_changes", "comment",
                               "resolve_comment", "share"}
      [] role = "viewer" -> {"view"}
      [] role = "outsider" -> {}
May(u, action) == action \in ChartActions(roleOf[u])
Viewer(u) == roleOf[u] = "viewer"

Approved == {r \in Reports : reportStatus[r] = "approved"}
Pointer == {publishedReport} \ {Absent}
Transitions(status) ==
    CASE status = "draft" -> {"in_review", "archived"}
      [] status = "in_review" -> {"approved", "changes_requested", "archived"}
      [] status = "approved" -> {"archived"}
      [] status = "changes_requested" -> {"draft", "archived"}
      [] status = "archived" -> {}

\* No request; by whom the last one was.
IdleAfter(u) == [by |-> u, op |-> "none", on |-> Absent, read |-> Absent]
NoAsk == ask.op = "none"

ReportReadsInit ==
    /\ roleOf \in Casts
    /\ reportStatus \in [Reports -> {"draft", "approved"}]
    /\ publishedReport \in Reports \cup {Absent}
    /\ Approved = Pointer
    /\ artifactStatus = "active"
    /\ shares = <<>>
    /\ comments = <<>>
    /\ ask = IdleAfter(Absent)
    /\ shown = {}
    /\ approvedSince = {}

Untouched == UNCHANGED <<reportStatus, publishedReport, artifactStatus, shares, comments>>
NoRead == UNCHANGED <<ask, shown, approvedSince>>

-----------------------------------------------------------------------------
(* Reviews (RevisionReview has their locks and their log). *)

Review(r, next) ==
    /\ next \in Transitions(reportStatus[r])
    /\ ~(next = "archived" /\ r = publishedReport)
    /\ reportStatus' = [reportStatus EXCEPT ![r] = next]
    /\ publishedReport' = IF next = "approved" THEN r ELSE publishedReport
    /\ approvedSince' = IF next = "approved" /\ ~NoAsk
                        THEN approvedSince \cup {r}
                        ELSE approvedSince
    /\ UNCHANGED <<artifactStatus, shares, comments, ask, shown>>

-----------------------------------------------------------------------------
(* Requests. *)

Ask(u, op, on) ==
    /\ NoAsk
    /\ ask' = [by |-> u, op |-> op, on |-> on, read |-> Absent]
    /\ shown' = {}
    /\ approvedSince' = Approved
    /\ Untouched

AskArtifacts(u) == \E op \in {"list", "artifact", "archive"} : Ask(u, op, Absent)
AskRevision(u, r) == \E op \in {"revision", "compare"} : Ask(u, op, r)
AskExport(u, r) == Ask(u, "export", r)
AskToComment(u, r) == Ask(u, "comment", r)
AskShare(u) == Ask(u, "open", Absent) \/ \E r \in Reports : Ask(u, "share", r)
AskEvidence(u) == \E on \in Reports \cup {Absent} : Ask(u, "evidence", on)
AskJob(u, r) == \E op \in {"job", "output"} : Ask(u, op, r)

Reading(u, op) == ask.by = u /\ ask.op = op /\ ask.read = Absent
HasRead(u, op) == ask.by = u /\ ask.op = op /\ ask.read # Absent
Keep(what) ==
    /\ ask' = [ask EXCEPT !.read = what]
    /\ UNCHANGED <<shown, approvedSince>>
    /\ Untouched
Answer(revisions) ==
    /\ ask' = IdleAfter(ask.by)
    /\ shown' = revisions
    /\ UNCHANGED approvedSince
Show(revisions) == Answer(revisions) /\ Untouched
Refuse == Show({})

\* getRevision: one joined read, then the role.
Gettable(u, r) == May(u, "view") /\ (Viewer(u) => reportStatus[r] = "approved")

\* listArtifacts: the artifact row, then the revisions it points at.
HeadForAll(u) == {Latest}
HeadFor(u) == IF Viewer(u) THEN {} ELSE {Latest}
ReadPointers(u) ==
    /\ Reading(u, "list")
    /\ IF May(u, "view") THEN Keep(HeadFor(u) \cup Pointer) ELSE Refuse
FindRevisions(u) == HasRead(u, "list") /\ Show(ask.read)

\* getArtifact: all revisions of the artifact, for a viewer the approved ones.
GetArtifact(u) ==
    /\ Reading(u, "artifact")
    /\ Show(IF ~May(u, "view") THEN {} ELSE IF Viewer(u) THEN Approved ELSE Reports)

\* A revision; its reviews and comments are read behind the same check.
GetRevision(u) ==
    /\ Reading(u, "revision")
    /\ IF Gettable(u, ask.on) THEN Show({ask.on}) ELSE Refuse

\* compareChartRevisions: the left side, then the right side.
CompareLeft(u) ==
    /\ Reading(u, "compare")
    /\ IF Gettable(u, ask.on) THEN Keep({ask.on}) ELSE Refuse
CompareRight(u, r) ==
    /\ HasRead(u, "compare")
    /\ IF Gettable(u, r) THEN Show(ask.read \cup {r}) ELSE Refuse

\* recordRevisionExport, then the stored object whatever has become of the revision.
ReadExport(u) ==
    /\ Reading(u, "export")
    /\ IF Gettable(u, ask.on) THEN Keep({ask.on}) ELSE Refuse
SendExport(u) == HasRead(u, "export") /\ Show(ask.read)

\* A job shows what its revision shows, once its status has been read; a stored output is
\* read after that.
GetJob(u) ==
    /\ Reading(u, "job")
    /\ IF Gettable(u, ask.on) THEN Show({ask.on}) ELSE Refuse
GetOutput(u) ==
    \/ /\ Reading(u, "output")
       /\ IF Gettable(u, ask.on) THEN Keep({ask.on}) ELSE Refuse
    \/ HasRead(u, "output") /\ Show(ask.read)

\* The list of evidence: a named revision is checked first; one statement finds the blocks,
\* and then each revision behind them is read on its own.
BlocksFor(u, on) ==
    LET found == IF on # Absent THEN {on} ELSE IF Viewer(u) THEN Pointer ELSE {Latest} \cup Pointer
    IN  IF Viewer(u) THEN found \cap Approved ELSE found
FindEvidence(u) ==
    \/ /\ Reading(u, "evidence") /\ ask.on # Absent /\ Gettable(u, ask.on)
       /\ Keep({ask.on})
    \/ /\ Reading(u, "evidence") /\ ask.on = Absent /\ May(u, "view")
       /\ Keep(BlocksFor(u, Absent))
    \/ /\ Reading(u, "evidence")
       /\ IF ask.on = Absent THEN ~May(u, "view") ELSE ~Gettable(u, ask.on)
       /\ Refuse
ShowEvidence(u) ==
    /\ HasRead(u, "evidence")
    /\ LET blocks == IF ask.on = Absent THEN ask.read ELSE BlocksFor(u, ask.on)
       IN  IF \A r \in blocks : Gettable(u, r) THEN Show(blocks) ELSE Refuse

\* addComment: read, role, insert.
Comment(u, r) == [on |-> r, author |-> u, resolvedBy |-> Absent]
AddComment(u) ==
    /\ Reading(u, "comment")
    /\ \/ /\ Gettable(u, ask.on) /\ May(u, "comment")
          /\ Len(comments) < MaxComments
          /\ comments' = Append(comments, Comment(u, ask.on))
          /\ Answer({ask.on})
          /\ UNCHANGED <<reportStatus, publishedReport, artifactStatus, shares>>
       \/ /\ ~(Gettable(u, ask.on) /\ May(u, "comment"))
          /\ Refuse
\* resolveComment: whoever comes last is on record.
ResolveComment(u, c) ==
    /\ May(u, "resolve_comment")
    /\ comments' = [comments EXCEPT ![c].resolvedBy = u]
    /\ UNCHANGED <<reportStatus, publishedReport, artifactStatus, shares>>
    /\ NoRead

\* createShare: the status read first, the share inserted later.
ReadForShare(u) ==
    /\ Reading(u, "share")
    /\ IF Gettable(u, ask.on) /\ May(u, "share") /\ reportStatus[ask.on] = "approved"
       THEN Keep({ask.on})
       ELSE Refuse
CreateShare(u) ==
    /\ HasRead(u, "share")
    /\ Len(shares) < MaxShares
    /\ shares' = Append(shares, [on |-> ask.on, live |-> TRUE])
    /\ Answer({})
    /\ UNCHANGED <<reportStatus, publishedReport, artifactStatus, comments>>
EndShare(s) ==
    /\ shares' = [shares EXCEPT ![s].live = FALSE]
    /\ UNCHANGED <<reportStatus, publishedReport, artifactStatus, comments>>
    /\ NoRead
\* revokeShare, or expires_at passes.
RevokeShare(u, s) == May(u, "share") /\ EndShare(s)
ExpireShare(s) == shares[s].live /\ EndShare(s)

\* getShare: the share, then its revision if it is still published.
ReadShare(u, s) ==
    /\ Reading(u, "open")
    /\ IF shares[s].live THEN Keep({shares[s].on}) ELSE Refuse
OpenShare(u) ==
    /\ HasRead(u, "open")
    /\ \E r \in ask.read :
        IF Gettable(u, r) /\ reportStatus[r] = "approved" THEN Show({r}) ELSE Refuse

\* archiveArtifact: the row is marked; its revisions are shown as before.
ArchiveArtifact(u) ==
    /\ Reading(u, "archive")
    /\ \/ /\ May(u, "archive") /\ artifactStatus # "archived"
          /\ artifactStatus' = "archived"
          /\ Answer({})
          /\ UNCHANGED <<reportStatus, publishedReport, shares, comments>>
       \/ /\ ~May(u, "archive") \/ artifactStatus = "archived"
          /\ Refuse

ReportReadsNext ==
    /\ UNCHANGED roleOf
    /\ \/ \E r \in Reports,
             next \in {"draft", "in_review", "approved", "changes_requested", "archived"} :
           Review(r, next)
       \/ \E u \in Members :
           \/ AskArtifacts(u) \/ AskShare(u) \/ AskEvidence(u)
           \/ \E r \in Reports :
                AskRevision(u, r) \/ AskExport(u, r) \/ AskToComment(u, r) \/ AskJob(u, r)
           \/ ReadPointers(u) \/ FindRevisions(u) \/ GetArtifact(u) \/ GetRevision(u)
           \/ CompareLeft(u) \/ \E r \in Reports : CompareRight(u, r)
           \/ ReadExport(u) \/ SendExport(u) \/ GetJob(u) \/ GetOutput(u)
           \/ FindEvidence(u) \/ ShowEvidence(u)
           \/ AddComment(u) \/ \E c \in DOMAIN comments : ResolveComment(u, c)
           \/ ReadForShare(u) \/ CreateShare(u) \/ OpenShare(u)
           \/ \E s \in DOMAIN shares : RevokeShare(u, s) \/ ReadShare(u, s)
           \/ ArchiveArtifact(u)
       \/ \E s \in DOMAIN shares : ExpireShare(s)

ReportReadsSpec == ReportReadsInit /\ [][ReportReadsNext]_reportReadsVars

-----------------------------------------------------------------------------
(* What must hold. *)

\* Whatever reviews happen between the statements of a read, a viewer is shown no revision
\* that was not approved at some time while the request ran, and an outsider is shown none.
\* About listArtifacts, getArtifact, getRevision, compareChartRevisions, getShare, the list of
\* evidence and the jobs' results.
ViewersSeeApproved ==
    \A u \in Members \cap {ask.by} :
        /\ Viewer(u) => shown \subseteq approvedSince
        /\ roleOf[u] = "outsider" => shown = {}
=============================================================================
