---------------------------- MODULE RevisionReview ----------------------------
(***************************************************************************)
(* Review of Chart Revisions. A request reads the revision without a lock  *)
(* and judges the wished transition; its transaction then locks job,       *)
(* artifact and revision, judges again, reads the output objects back and  *)
(* writes. Other requests, publications of further revisions and the       *)
(* maintenance switch of the chart lifecycle run between those steps.      *)
(*                                                                         *)
(* Who may do what (assertChartAction) and what makes a revision ready for *)
(* review (assertReviewReady) only ever end a request: Refuse stands for   *)
(* them, for a storage that cannot be read and for a crash. Each of them   *)
(* rolls the transaction back.                                             *)
(***************************************************************************)
EXTENDS Integers, FiniteSets, FiniteSetsExt

CONSTANTS Revisions, ArtifactOf, None,
          Requests,        \* review requests being served
          MaxReviews,      \* bound: review rows of one revision
          MaxSwitches      \* bound: changes of the maintenance mode

ASSUME ReviewBounds == MaxReviews \in Nat /\ MaxSwitches \in Nat
ASSUME NoneIsNoRevision == None \notin Revisions

VARIABLES status, published, reviews,
          evidence,        \* evidence_blocks.status of the revision's one block
          mode,            \* chart_lifecycle_control.mode
          stage,           \* where each review request is
          asked,           \* what it read and wants: [revision, from, next]
          cycle,           \* the review cycle its transaction writes
          switches

tables  == <<status, published, reviews, evidence>>
request == <<stage, asked, cycle>>
vars    == <<tables, mode, request, switches>>

Policy == INSTANCE ReviewPolicy

Artifacts == Policy!Artifacts

Stage == {"idle", "read", "locked", "written"}
Question == [revision : Revisions, from : DOMAIN Policy!Transitions, next : DOMAIN Policy!Transitions]

At(c, where) == stage[c] = where

Goto(c, where) == stage' = [stage EXCEPT ![c] = where]

Answer(c) == /\ Goto(c, "idle")
             /\ asked' = [asked EXCEPT ![c] = None]
             /\ cycle' = [cycle EXCEPT ![c] = 0]

Init == /\ Policy!Init
        /\ evidence = [r \in Revisions |-> "none"]
        /\ mode = "writable"
        /\ stage = [c \in Requests |-> "idle"]
        /\ asked = [c \in Requests |-> None]
        /\ cycle = [c \in Requests |-> 0]
        /\ switches = 0

-----------------------------------------------------------------------------
(* Locks. A definition whose comment begins with "Mutant" is not part of   *)
(* the specification: it is a plausible bug in the definition after it,    *)
(* kept to show that the properties notice.                                *)

\* The transaction of a request holds the artifact row until it ends.
Free(a) == \A c \in Requests :
               At(c, "locked") \/ At(c, "written") => ArtifactOf[asked[c].revision] # a

\* The trigger on the five lifecycle tables reads the mode FOR SHARE: a
\* transaction that has written keeps the mode from changing until it ends.
\* Mutant: it reads the mode without a lock.
ModeUnguarded == TRUE

ModeUnshared == \A c \in Requests : ~At(c, "written")

-----------------------------------------------------------------------------
(* transitionChartRevision *)

\* What the route and the service judge on the unlocked read.
Read(c) == \E r \in Revisions, next \in DOMAIN Policy!Transitions :
    /\ At(c, "idle")
    /\ Policy!Allowed(r, next)
    /\ Goto(c, "read")
    /\ asked' = [asked EXCEPT ![c] = [revision |-> r, from |-> status[r], next |-> next]]
    /\ UNCHANGED <<tables, mode, cycle, switches>>

Lock(c) ==
    /\ At(c, "read")
    /\ Free(ArtifactOf[asked[c].revision])
    /\ Goto(c, "locked")
    /\ UNCHANGED <<tables, mode, asked, cycle, switches>>

\* What was read is still true of the locked rows (and of the row that UPDATE selects).
\* Mutant: the answer of the first read is trusted.
TrustFirstRead(q) == TRUE

StillCurrent(q) ==
    /\ status[q.revision] = q.from
    /\ q.next = "archived" => published[ArtifactOf[q.revision]] # q.revision

\* One more than the highest cycle in the log of the revision.
\* Mutant: the cycle counts submissions, so a decision shares the number of its submission.
CycleOfSubmission(r) ==
    Cardinality({x \in Policy!ReviewsOf(r) : x.action = "submitted"}) + 1

NextReviewCycle(r) == Max({x.cycle : x \in Policy!ReviewsOf(r)} \cup {0}) + 1

\* The first statement that writes passes the trigger; the others follow under its lock.
Write(c) ==
    /\ At(c, "locked")
    /\ StillCurrent(asked[c])
    /\ mode = "writable"
    /\ Cardinality(Policy!ReviewsOf(asked[c].revision)) < MaxReviews
    /\ Goto(c, "written")
    /\ cycle' = [cycle EXCEPT ![c] = NextReviewCycle(asked[c].revision)]
    /\ UNCHANGED <<tables, mode, asked, switches>>

\* Evidence of archived revisions keeps its status: the enumeration has no "archived".
EvidenceAfter(r, next) == IF next = "archived" THEN evidence[r] ELSE next

\* The evidence blocks a transition writes: those bound to the revision.
\* Mutant: those of the artifact.
EvidenceOfArtifact(r) == {s \in Revisions : ArtifactOf[s] = ArtifactOf[r] /\ status[s] # "none"}

EvidenceOf(r) == {r}

Commit(c) == LET q == asked[c] r == q.revision IN
    /\ At(c, "written")
    /\ status' = [status EXCEPT ![r] = q.next]
    /\ published' = IF q.next = "approved" THEN [published EXCEPT ![ArtifactOf[r]] = r] ELSE published
    /\ evidence' = [s \in Revisions |-> IF s \in EvidenceOf(r) THEN EvidenceAfter(s, q.next)
                                        ELSE evidence[s]]
    /\ reviews' = IF Policy!Logged(q.next)
                  THEN reviews \cup {[revision |-> r, action |-> Policy!LoggedAs[q.next], cycle |-> cycle[c]]}
                  ELSE reviews
    /\ Answer(c)
    /\ UNCHANGED <<mode, switches>>

\* A check fails, the storage cannot be read, or the process or its connection dies.
Refuse(c) ==
    /\ ~At(c, "idle")
    /\ Answer(c)
    /\ UNCHANGED <<tables, mode, switches>>

-----------------------------------------------------------------------------
(* commitCompletedRevision, as far as review sees it: one transaction that *)
(* locks the artifact and writes a draft with its evidence.                *)

Publish(r) ==
    /\ status[r] = "none"
    /\ Free(ArtifactOf[r])
    /\ mode = "writable"
    /\ status' = [status EXCEPT ![r] = "draft"]
    /\ evidence' = [evidence EXCEPT ![r] = "draft"]
    /\ UNCHANGED <<published, reviews, mode, request, switches>>

\* An operator updates the maintenance row; the UPDATE waits for every share lock on it.
SwitchMode ==
    /\ switches < MaxSwitches
    /\ ModeUnshared
    /\ mode' = IF mode = "writable" THEN "read_only" ELSE "writable"
    /\ switches' = switches + 1
    /\ UNCHANGED <<tables, request>>

Next == \/ \E c \in Requests : Read(c) \/ Lock(c) \/ Write(c) \/ Commit(c) \/ Refuse(c)
        \/ \E r \in Revisions : Publish(r)
        \/ SwitchMode

Spec == Init /\ [][Next]_vars

-----------------------------------------------------------------------------
(* Properties *)

\* Types. Evidence has a status of its own enumeration, which lacks "archived".
TypeOK ==
    /\ status \in [Revisions -> DOMAIN Policy!Transitions]
    /\ published \in [Artifacts -> Revisions \cup {None}]
    /\ reviews \subseteq [revision : Revisions, cycle : 1 .. MaxReviews,
                          action : {"submitted", "approved", "changes_requested"}]
    /\ evidence \in [Revisions -> {"none", "draft", "in_review", "approved", "changes_requested"}]
    /\ mode \in {"writable", "read_only"}
    /\ stage \in [Requests -> Stage]
    /\ asked \in [Requests -> Question \cup {None}]
    /\ \A c \in Requests : ~At(c, "idle") => asked[c] \in Question
    /\ cycle \in [Requests -> 0 .. MaxReviews]
    /\ switches \in 0 .. MaxSwitches

\* What an artifact shows as published is an approved revision of that artifact, although
\* an archive request may have judged the revision before it was approved
\* (transitionChartRevision judges again under the locks).
PublishedIsApproved ==
    \A a \in Artifacts : published[a] # None => /\ ArtifactOf[published[a]] = a
                                                /\ status[published[a]] = "approved"

\* The redundant status of an evidence block is the status of its own revision, also while
\* other revisions of the artifact are reviewed or published; an archived revision leaves
\* its block as it was.
EvidenceFollowsReview ==
    \A r \in Revisions : status[r] # "archived" => evidence[r] = status[r]

\* The review log of a revision is a history of its status: submissions and decisions
\* alternate under consecutive cycle numbers, each submission is decided at most once,
\* and the last row explains the status. Two reviewers who decide at the same time, or a
\* decision that meets an archive request, leave no second row.
ReviewLogExplainsStatus ==
    \A r \in Revisions :
        LET log == Policy!ReviewsOf(r)
            last == {x.action : x \in {y \in log : y.cycle = Cardinality(log)}}
        IN  /\ {x.cycle : x \in log} = 1 .. Cardinality(log)
            /\ \A x \in log : x.action = "submitted" <=> x.cycle % 2 = 1
            /\ Policy!Logged(status[r]) => last = {Policy!LoggedAs[status[r]]}
            /\ status[r] = "draft" => last \subseteq {"changes_requested"}

\* While the chart lifecycle is read-only, nothing of it changes: neither a transaction
\* that began before the switch nor a later one is still to be seen by a reader.
FrozenWhileReadOnly == [][mode = "read_only" => UNCHANGED tables]_vars

\* Review implements the atomic policy: each commit is one step of the table, judged
\* against the status it replaces.
PolicySpec == Policy!Spec
=============================================================================
