----------------------------- MODULE ReviewPolicy -----------------------------
(***************************************************************************)
(* What review promises: the status of a Chart Revision moves along the    *)
(* edges of one table, each move is judged against the status it starts    *)
(* from, an approval publishes the revision, the published revision of an  *)
(* artifact cannot be archived, and each submission and decision is logged *)
(* once, in order.                                                         *)
(*                                                                         *)
(* RevisionReview, where a request judges first and writes later,          *)
(* implements this specification.                                          *)
(***************************************************************************)
EXTENDS Integers, FiniteSets

CONSTANTS Revisions,       \* Chart Revisions
          ArtifactOf,      \* the Chart Artifact of each revision
          None             \* SQL NULL

VARIABLES status,          \* chart_revisions.status, "none" before publication
          published,       \* chart_artifacts.published_revision_id
          reviews          \* chart_reviews: [revision, action, cycle]

vars == <<status, published, reviews>>

Artifacts == {ArtifactOf[r] : r \in Revisions}

Transitions ==
    [none              |-> {},
     draft             |-> {"in_review", "archived"},
     in_review         |-> {"approved", "changes_requested", "archived"},
     approved          |-> {"archived"},
     changes_requested |-> {"draft", "archived"},
     archived          |-> {}]

\* The moves that leave a row in the review log, and what the row says.
LoggedAs == [in_review |-> "submitted", approved |-> "approved", changes_requested |-> "changes_requested"]
Logged(next) == next \in DOMAIN LoggedAs

ReviewsOf(r) == {x \in reviews : x.revision = r}

Allowed(r, next) == /\ next \in Transitions[status[r]]
                    /\ next = "archived" => published[ArtifactOf[r]] # r

Init == /\ status = [r \in Revisions |-> "none"]
        /\ published = [a \in Artifacts |-> None]
        /\ reviews = {}

Publication(r) == /\ status[r] = "none"
                  /\ status' = [status EXCEPT ![r] = "draft"]
                  /\ UNCHANGED <<published, reviews>>

Move(r, next) ==
    /\ Allowed(r, next)
    /\ status' = [status EXCEPT ![r] = next]
    /\ published' = IF next = "approved" THEN [published EXCEPT ![ArtifactOf[r]] = r] ELSE published
    /\ IF Logged(next)
       THEN reviews' = reviews \cup {[revision |-> r, action |-> LoggedAs[next],
                                      cycle |-> Cardinality(ReviewsOf(r)) + 1]}
       ELSE UNCHANGED reviews

Next == \E r \in Revisions : \/ Publication(r)
                             \/ \E next \in DOMAIN Transitions : Move(r, next)

Spec == Init /\ [][Next]_vars
=============================================================================
