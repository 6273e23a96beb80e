---------------------------- MODULE RevisionService ----------------------------
(***************************************************************************)
(* The functions of the chart package that make revisions without a render *)
(* worker: the first one of a job, one derived from another, and a copy    *)
(* into an artifact of its own.  Calls repeat each other under idempotency *)
(* keys and run beside jobs that have reserved numbers.                    *)
(*                                                                         *)
(* A derivation is a transaction that locks its artifact first, one step   *)
(* here; a copy is a sequence of statements without one.                   *)
(***************************************************************************)
EXTENDS Naturals, Sequences, FiniteSets, FiniteSetsExt

CONSTANTS
    Callers,          \* calls, one each
    CallKeys,         \* values of idempotencyKey
    Unkeyed,          \* no key
    FirstJobs,        \* jobs whose first revision is made here
    NoJob,
    MaxReservations   \* bound: numbers that jobs reserve

ASSUME RevisionServiceAssumption ==
    /\ Unkeyed \notin CallKeys /\ NoJob \notin FirstJobs /\ MaxReservations \in Nat

VARIABLES
    artifactRows,  \* chart_artifacts of the project; an id is a position
    revisionRows,  \* chart_revisions, in the order of insertion; an id is a position
    reservations,  \* identities that jobs hold: artifact and number
    calls          \* what each caller has asked and read

revisionServiceVars == <<artifactRows, revisionRows, reservations, calls>>

\* A row: derived revisions and first ones are "legacy_unverified", the column's default.
Row(artifact, number, parent, key, job) ==
    [artifact |-> artifact, number |-> number, parent |-> parent, key |-> key, job |-> job,
     verified |-> FALSE, reserved |-> FALSE]
NotCalled == [at |-> "idle", op |-> "none", source |-> 0, key |-> Unkeyed, job |-> NoJob,
              number |-> 0, row |-> 0, answer |-> 0]

RowsOf(a) == {r \in DOMAIN revisionRows : revisionRows[r].artifact = a}
NumbersOf(a) == {revisionRows[r].number : r \in RowsOf(a)}
LatestNumber(a) == Max(NumbersOf(a) \cup {0})
WithKey(a, key) == {r \in RowsOf(a) : key # Unkeyed /\ revisionRows[r].key = key}
OfJob(job) == {r \in DOMAIN revisionRows : revisionRows[r].job = job}

RevisionServiceTypeOK ==
    /\ \A a \in DOMAIN artifactRows :
          artifactRows[a] \in [key : CallKeys \cup {Unkeyed}, next : Nat, head : Nat]
    /\ \A r \in DOMAIN revisionRows :
          revisionRows[r] \in [artifact : DOMAIN artifactRows, number : Nat, parent : Nat,
                               key : CallKeys \cup {Unkeyed}, job : FirstJobs \cup {NoJob},
                               verified : BOOLEAN, reserved : BOOLEAN]
    /\ reservations \subseteq [artifact : DOMAIN artifactRows, number : Nat]
    /\ DOMAIN calls = Callers

\* An artifact with two revisions that render workers have published.
RevisionServiceInit ==
    /\ artifactRows = <<[key |-> Unkeyed, next |-> 3, head |-> 2]>>
    /\ revisionRows = [n \in 1..2 |-> [Row(1, n, n - 1, Unkeyed, NoJob) EXCEPT !.verified = TRUE]]
    /\ reservations = {}
    /\ calls = [c \in Callers |-> NotCalled]

-----------------------------------------------------------------------------
Call(c, call) == calls' = [calls EXCEPT ![c] = call]
Goes(c, at) == Call(c, [calls[c] EXCEPT !.at = at])
AnswersWith(c, r) == Call(c, [calls[c] EXCEPT !.at = "answered", !.answer = r])
Refused(c) == Goes(c, "refused")
RowsStay == UNCHANGED <<artifactRows, revisionRows, reservations>>

\* The answer of a transaction or statement may be lost although it took effect.
Finishes(c, r) == AnswersWith(c, r) \/ Goes(c, "lost")

\* A caller dies, or a statement of it fails: an open transaction leaves nothing.
GivesUp(c) ==
    /\ calls[c].at \notin {"idle", "answered", "refused", "lost"}
    /\ Goes(c, "lost") /\ RowsStay

\* The transaction of reserveGenerationRevisionIdentity, under the lock of the artifact.
NextNumber(a) == Max({artifactRows[a].next, LatestNumber(a) + 1})
ReserveNumber(a) ==
    /\ Cardinality(reservations) < MaxReservations
    /\ \E r \in RowsOf(a) : revisionRows[r].verified
    /\ LET n == NextNumber(a)
       IN  /\ reservations' = reservations \cup {[artifact |-> a, number |-> n]}
           /\ artifactRows' = [artifactRows EXCEPT ![a].next = n + 1]
    /\ UNCHANGED <<revisionRows, calls>>

-----------------------------------------------------------------------------
(* createInitialRevision *)

CallInitial(c, job) ==
    /\ calls[c].at = "idle"
    /\ LET call == [NotCalled EXCEPT !.op = "initial", !.job = job]
       IN  IF OfJob(job) # {}
           THEN \E r \in OfJob(job) : Call(c, [call EXCEPT !.at = "answered", !.answer = r])
           ELSE Call(c, [call EXCEPT !.at = "recheck"])
    /\ RowsStay
RecheckJob(c) ==
    /\ calls[c].at = "recheck"
    /\ IF OfJob(calls[c].job) # {}
       THEN \E r \in OfJob(calls[c].job) : AnswersWith(c, r)
       ELSE Goes(c, "create")
    /\ RowsStay
\* The unique index on generation_job_id undoes the artifact with the revision.
CreateInitial(c) ==
    /\ calls[c].at = "create"
    /\ IF OfJob(calls[c].job) # {}
       THEN Refused(c) /\ RowsStay
       ELSE /\ artifactRows' = Append(artifactRows, [key |-> Unkeyed, next |-> 2, head |-> 1])
            /\ revisionRows' = Append(revisionRows,
                  Row(Len(artifactRows) + 1, 1, 0, Unkeyed, calls[c].job))
            /\ Finishes(c, Len(revisionRows) + 1)
            /\ UNCHANGED reservations

-----------------------------------------------------------------------------
(* createDerivedRevision *)

\* freezeDerivedProvenance refuses what no render worker has verified.
Freezes(r) == r \in DOMAIN revisionRows /\ revisionRows[r].verified

CallDerive(c, source, key, number) ==
    /\ calls[c].at = "idle"
    /\ source \in DOMAIN revisionRows
    /\ number # 0 => \E i \in reservations : i.number = number
    /\ Call(c, [NotCalled EXCEPT !.op = "derive", !.source = source, !.key = key,
                                 !.number = number,
                                 !.at = IF Freezes(source) THEN "key" ELSE "refused"])
    /\ RowsStay

Keyed(c) == WithKey(revisionRows[calls[c].source].artifact, calls[c].key)
\* A key that has been used answers for its source and conflicts with any other.
Repeats(c) ==
    \E r \in Keyed(c) : IF revisionRows[r].parent = calls[c].source
                        THEN AnswersWith(c, r) ELSE Refused(c)
FindKey(c) ==
    /\ calls[c].at = "key"
    /\ IF Keyed(c) # {} THEN Repeats(c) ELSE Goes(c, "lock")
    /\ RowsStay

Derive(c) ==
    /\ calls[c].at = "lock"
    /\ LET a == revisionRows[calls[c].source].artifact
           reserved == calls[c].number # 0
           n == IF reserved THEN calls[c].number ELSE NextNumber(a)
           refused == \/ reserved /\ [artifact |-> a, number |-> n] \notin reservations
                      \/ reserved /\ n >= artifactRows[a].next
                      \/ n \in NumbersOf(a)
       IN  IF Keyed(c) # {} THEN Repeats(c) /\ RowsStay
           ELSE IF refused THEN Refused(c) /\ RowsStay
           ELSE /\ artifactRows' = [artifactRows EXCEPT
                      ![a].next = IF reserved THEN @ ELSE n + 1,
                      ![a].head = IF @ = 0 \/ n > @ THEN n ELSE @]
                /\ revisionRows' = Append(revisionRows,
                      [Row(a, n, calls[c].source, calls[c].key, NoJob)
                         EXCEPT !.reserved = reserved])
                /\ Finishes(c, Len(revisionRows) + 1)
                /\ UNCHANGED reservations

-----------------------------------------------------------------------------
(* copyRevisionToArtifact *)

CallCopy(c, source, key) ==
    /\ calls[c].at = "idle"
    /\ source \in DOMAIN revisionRows
    /\ Call(c, [NotCalled EXCEPT !.op = "copy", !.source = source, !.key = key,
                                 !.at = IF Freezes(source) THEN "find" ELSE "refused"])
    /\ RowsStay

CreatedWith(key) == {a \in DOMAIN artifactRows : key # Unkeyed /\ artifactRows[a].key = key}
FindCopy(c) ==
    /\ calls[c].at = "find"
    /\ IF CreatedWith(calls[c].key) = {}
       THEN Goes(c, "insert")
       ELSE \E a \in CreatedWith(calls[c].key) :
               Call(c, [calls[c] EXCEPT !.at = "found", !.row = a])
    /\ RowsStay
\* A copy that has no revision yet, or never got one, conflicts with a repeated call.
ReadCopied(c) ==
    /\ calls[c].at = "found"
    /\ LET latest == {r \in RowsOf(calls[c].row) :
                        revisionRows[r].number = LatestNumber(calls[c].row)}
           same == {r \in latest : revisionRows[r].parent = calls[c].source}
       IN  IF same = {} THEN Refused(c) ELSE \E r \in same : AnswersWith(c, r)
    /\ RowsStay
InsertCopy(c) ==
    /\ calls[c].at = "insert"
    /\ IF CreatedWith(calls[c].key) # {}
       THEN Refused(c) /\ RowsStay
       ELSE /\ artifactRows' = Append(artifactRows, [key |-> calls[c].key, next |-> 2, head |-> 0])
            /\ Call(c, [calls[c] EXCEPT !.at = "fill", !.row = Len(artifactRows) + 1])
            /\ UNCHANGED <<revisionRows, reservations>>
FillCopy(c) ==
    /\ calls[c].at = "fill"
    /\ revisionRows' = Append(revisionRows, Row(calls[c].row, 1, calls[c].source, Unkeyed, NoJob))
    /\ Call(c, [calls[c] EXCEPT !.at = "point", !.answer = Len(revisionRows) + 1])
    /\ UNCHANGED <<artifactRows, reservations>>
PointCopy(c) ==
    /\ calls[c].at = "point"
    /\ artifactRows' = [artifactRows EXCEPT ![calls[c].row].head = 1]
    /\ Finishes(c, calls[c].answer)
    /\ UNCHANGED <<revisionRows, reservations>>

RevisionServiceNext ==
    \/ \E a \in DOMAIN artifactRows : ReserveNumber(a)
    \/ \E c \in Callers :
          \/ GivesUp(c)
          \/ \E job \in FirstJobs : CallInitial(c, job)
          \/ RecheckJob(c) \/ CreateInitial(c)
          \/ \E source \in DOMAIN revisionRows, key \in CallKeys \cup {Unkeyed},
                n \in {0} \cup {i.number : i \in reservations} : CallDerive(c, source, key, n)
          \/ FindKey(c) \/ Derive(c)
          \/ \E source \in DOMAIN revisionRows, key \in CallKeys \cup {Unkeyed} :
                CallCopy(c, source, key)
          \/ FindCopy(c) \/ ReadCopied(c) \/ InsertCopy(c) \/ FillCopy(c) \/ PointCopy(c)

RevisionServiceSpec == RevisionServiceInit /\ [][RevisionServiceNext]_revisionServiceVars

-----------------------------------------------------------------------------
(* What must hold. *)

\* The head is the highest number, and no number is handed out twice: what a job has
\* reserved is taken by nobody else.
NumbersAreKept ==
    \A a \in DOMAIN artifactRows :
        /\ artifactRows[a].head \in {0, LatestNumber(a)}
        /\ LatestNumber(a) < artifactRows[a].next
        /\ \A i \in reservations : i.artifact = a =>
              \A r \in RowsOf(a) : revisionRows[r].number = i.number => revisionRows[r].reserved

\* A call that is answered gets a revision of what it asked for, and calls that repeat one
\* another get the same.
RepeatsAgree ==
    \A c \in Callers : calls[c].at = "answered" =>
        LET r == revisionRows[calls[c].answer]
        IN  /\ r.parent = calls[c].source /\ r.job = calls[c].job
            /\ \A d \in Callers :
                  /\ calls[d].at = "answered" /\ calls[d].op = calls[c].op
                  /\ calls[c].key # Unkeyed \/ calls[c].op = "initial"
                  /\ calls[d].key = calls[c].key /\ calls[d].job = calls[c].job
                  => calls[d].answer = calls[c].answer

\* However calls repeat one another, die half-way or overtake jobs that have reserved a
\* number, artifacts keep their numbers and head, and every answer is what was asked for
\* (createInitialRevision, createDerivedRevision, copyRevisionToArtifact).
RevisionsAreCounted == NumbersAreKept /\ RepeatsAgree
=============================================================================
