---------------------------- MODULE ProjectMemory ----------------------------
(***************************************************************************)
(* The project memories of one key: versions, candidates and deletions.    *)
(*                                                                         *)
(* Requests are transactions at READ COMMITTED: a statement sees the rows  *)
(* committed when it starts, waits for the locks on them, and then sees    *)
(* their current columns, but no row inserted in between.                  *)
(***************************************************************************)
EXTENDS Integers, FiniteSets, FiniteSetsExt

CONSTANTS
    MaxLogicals,     \* bound: logical memories of the key
    MaxVersions,     \* bound: versions of each
    Candidates,      \* candidates extraction may propose
    Sources,         \* their source messages
    CandidateSource, \* the message each candidate is taken from
    MemoryRequests,  \* API requests; each performs one operation
    MaxExtractions   \* attemptCount at which a failed extraction is left alone

ASSUME ProjectMemoryAssumption ==
    /\ MaxLogicals \in Nat /\ MaxVersions \in Nat \ {0} /\ MaxExtractions \in Nat \ {0}
    /\ CandidateSource \in [Candidates -> Sources]

Logicals == 1..MaxLogicals
Rows == Logicals \X (1..MaxVersions)

VARIABLES
    rowStatus,        \* memories.status of a logical memory's version, none: no row
    takenFrom,        \* source_message_ids of a logical memory
    candidateStatus,  \* none before extraction
    acceptedAs,       \* rows inserted for a candidate
    revoked,          \* tombstones
    suppressed,       \* project source suppressions
    operation,        \* of each request
    subject,          \* the row it edits or deletes, the candidate it accepts
    offered,          \* source messages of the memory it creates
    rowLocks,         \* rows its transaction has seen and locked
    phase,            \* how far it is
    outcome,          \* its answer
    extraction,       \* status of the conversation's extraction job
    attemptCount,
    eligible          \* messages its worker found unsuppressed

rowVars == <<rowStatus, takenFrom, acceptedAs, revoked, suppressed>>
requestVars == <<operation, subject, offered, rowLocks, phase, outcome>>
extractionVars == <<extraction, attemptCount, eligible>>
projectMemoryVars == <<rowVars, candidateStatus, requestVars, extractionVars>>

CandidateStatuses == {"none", "proposed", "accepted", "rejected"}
ExtractionStatuses == {"none", "queued", "processing", "failed", "succeeded"}
Outcomes == {"pending", "done", "conflict", "sourceRevoked", "duplicate", "adoptionFailed"}

ProjectMemoryTypeOK ==
    /\ rowStatus \in [Rows -> {"none", "active", "superseded", "deleted"}]
    /\ takenFrom \in [Logicals -> SUBSET Sources]
    /\ candidateStatus \in [Candidates -> CandidateStatuses]
    /\ acceptedAs \in [Candidates -> SUBSET Rows]
    /\ revoked \subseteq Logicals
    /\ suppressed \subseteq Sources
    /\ operation \in [MemoryRequests -> {"none", "create", "update", "delete", "accept"}]
    /\ subject \in [MemoryRequests -> Rows \cup Candidates \cup {<<>>}]
    /\ offered \in [MemoryRequests -> SUBSET Sources]
    /\ rowLocks \in [MemoryRequests -> SUBSET Rows]
    /\ phase \in [MemoryRequests -> {"idle", "waiting", "locked", "sourced"}]
    /\ outcome \in [MemoryRequests -> Outcomes]
    /\ extraction \in ExtractionStatuses
    /\ attemptCount \in 0..MaxExtractions
    /\ eligible \subseteq Sources

Existing == {r \in Rows : rowStatus[r] # "none"}
VersionsOf(l) == {r \in Existing : r[1] = l}
ActiveIn(rs) == {r \in rs : rowStatus[r] = "active"}

\* A random UUID: an id no row has.
NewLogical == LET free == {l \in Logicals : VersionsOf(l) = {}} IN {l \in free : l = Min(free)}

\* nextMemoryVersion, over the rows the transaction has seen.
NextVersion(rs, l) == IF rs \cap VersionsOf(l) = {} THEN 1
                      ELSE Max({r[2] : r \in rs \cap VersionsOf(l)}) + 1

ProjectMemoryInit ==
    /\ rowStatus = [r \in Rows |-> "none"]
    /\ takenFrom = [l \in Logicals |-> {}]
    /\ candidateStatus = [c \in Candidates |-> "none"]
    /\ acceptedAs = [c \in Candidates |-> {}]
    /\ revoked = {}
    /\ suppressed = {}
    /\ operation = [q \in MemoryRequests |-> "none"]
    /\ subject = [q \in MemoryRequests |-> <<>>]
    /\ offered = [q \in MemoryRequests |-> {}]
    /\ rowLocks = [q \in MemoryRequests |-> {}]
    /\ phase = [q \in MemoryRequests |-> "idle"]
    /\ outcome = [q \in MemoryRequests |-> "pending"]
    /\ extraction = "none"
    /\ attemptCount = 0
    /\ eligible = {}

-----------------------------------------------------------------------------
(* Requests: the statements that lock. *)

Holding(q) == phase[q] \in {"locked", "sourced"}
LockedByOthers(q) == UNION {rowLocks[p] : p \in {r \in MemoryRequests \ {q} : Holding(r)}}

\* The source messages a request locks and checks.
SourcesOf(q) ==
    CASE operation[q] = "accept" -> {CandidateSource[subject[q]]}
      [] operation[q] \in {"update", "delete"} -> takenFrom[subject[q][1]]
      [] OTHER -> offered[q]

Open(q, op, s, sources) ==
    /\ phase[q] = "idle"
    /\ outcome[q] = "pending"
    /\ operation' = [operation EXCEPT ![q] = op]
    /\ subject' = [subject EXCEPT ![q] = s]
    /\ offered' = [offered EXCEPT ![q] = sources]
    /\ rowLocks' = [rowLocks EXCEPT ![q] = Existing]
    /\ phase' = [phase EXCEPT ![q] = "waiting"]
    /\ UNCHANGED <<rowVars, candidateStatus, outcome, extractionVars>>

\* validateProjectMemorySources: messages of users in the project.
ValidSources == SUBSET Sources
RequestCreate(q) == \E ss \in ValidSources : Open(q, "create", <<>>, ss)

\* The user saw the row when it was the current version.
RequestUpdate(q) == \E r \in ActiveIn(Rows) : Open(q, "update", r, {})
RequestDelete(q) == \E r \in ActiveIn(Rows) : Open(q, "delete", r, {})

\* getCandidateForUser: a candidate that is decided is returned as it is.
Undecided == {c \in Candidates : candidateStatus[c] = "proposed"}
RequestAccept(q) == \E c \in Undecided : Open(q, "accept", c, {})

CandidateFree(q) ==
    operation[q] = "accept" =>
        \A p \in MemoryRequests \ {q} :
            ~(Holding(p) /\ operation[p] = "accept" /\ subject[p] = subject[q])

\* FOR UPDATE. Creation and acceptance lock the rows of the key they saw when the statement
\* started; edits and deletions lock their row and then all versions of it.
LockRows(q) ==
    /\ phase[q] = "waiting"
    /\ CandidateFree(q)
    /\ LET rs == IF operation[q] \in {"update", "delete"}
                 THEN VersionsOf(subject[q][1]) ELSE rowLocks[q]
       IN  /\ rs \cap LockedByOthers(q) = {}
           /\ rowLocks' = [rowLocks EXCEPT ![q] = rs]
    /\ phase' = [phase EXCEPT ![q] = "locked"]
    /\ UNCHANGED <<rowVars, candidateStatus, operation, subject, offered, outcome, extractionVars>>

LockSources(q) ==
    /\ phase[q] = "locked"
    /\ \A p \in MemoryRequests \ {q} :
          phase[p] = "sourced" => SourcesOf(p) \cap SourcesOf(q) = {}
    /\ phase' = [phase EXCEPT ![q] = "sourced"]
    /\ UNCHANGED <<rowVars, candidateStatus, operation, subject, offered, rowLocks, outcome,
                   extractionVars>>

\* The transaction ends and its locks are free.
Answer(q, o) ==
    /\ phase' = [phase EXCEPT ![q] = "idle"]
    /\ rowLocks' = [rowLocks EXCEPT ![q] = {}]
    /\ outcome' = [outcome EXCEPT ![q] = o]
    /\ UNCHANGED <<operation, subject, offered, extractionVars>>

Refuse(q, o) == Answer(q, o) /\ UNCHANGED <<rowVars, candidateStatus>>

-----------------------------------------------------------------------------
(* Requests: what the transaction decides and writes. *)

\* memories_project_active_key_unique and memories_logical_version_unique. The index is
\* checked row by row, so a head superseded later in the transaction still counts.
Insertable(row) == ActiveIn(Rows) = {} /\ rowStatus[row] = "none"

\* createProjectMemory.
Create(q) ==
    /\ phase[q] = "sourced"
    /\ operation[q] = "create"
    /\ \E l \in NewLogical :
       IF ActiveIn(rowLocks[q]) # {} THEN Refuse(q, "conflict")
       ELSE IF offered[q] \cap suppressed # {} THEN Refuse(q, "sourceRevoked")
       ELSE IF ~Insertable(<<l, 1>>) THEN Refuse(q, "duplicate")
       ELSE /\ rowStatus' = [rowStatus EXCEPT ![<<l, 1>>] = "active"]
            /\ takenFrom' = [takenFrom EXCEPT ![l] = offered[q]]
            /\ UNCHANGED <<acceptedAs, revoked, suppressed, candidateStatus>>
            /\ Answer(q, "done")

\* updateProjectMemory: the version the user saw must be the head; it is superseded first.
Update(q) ==
    /\ phase[q] = "sourced"
    /\ operation[q] = "update"
    /\ LET l == subject[q][1]
           next == <<l, NextVersion(rowLocks[q], l)>>
       IN IF ActiveIn(rowLocks[q]) # {subject[q]} THEN Refuse(q, "conflict")
          ELSE IF takenFrom[l] \cap suppressed # {} THEN Refuse(q, "sourceRevoked")
          ELSE /\ next \in Rows
               /\ rowStatus' = [rowStatus EXCEPT ![subject[q]] = "superseded", ![next] = "active"]
               /\ UNCHANGED <<takenFrom, acceptedAs, revoked, suppressed, candidateStatus>>
               /\ Answer(q, "done")

\* deleteProjectMemory; its ledger is the subject of MemoryRevocation.
Delete(q) ==
    /\ phase[q] = "sourced"
    /\ operation[q] = "delete"
    /\ LET l == subject[q][1] IN
       IF l \in revoked THEN Refuse(q, "done")
       ELSE IF ActiveIn(rowLocks[q]) # {subject[q]} THEN Refuse(q, "conflict")
       ELSE /\ rowStatus' = [rowStatus EXCEPT ![subject[q]] = "deleted"]
            /\ revoked' = revoked \cup {l}
            /\ suppressed' = suppressed \cup takenFrom[l]
            /\ UNCHANGED <<takenFrom, acceptedAs, candidateStatus>>
            /\ Answer(q, "done")

\* Mutant: the tombstones are not consulted.
LogicalForAny(q) ==
    LET known == {r[1] : r \in rowLocks[q]}
    IN  IF known # {} THEN known ELSE NewLogical

\* The logical memory an accepted candidate continues: that of the head, else one that is
\* not revoked, else a new one.
LogicalFor(q) ==
    LET head == {r[1] : r \in ActiveIn(rowLocks[q])}
        open == {r[1] : r \in rowLocks[q]} \ revoked
    IN  IF head # {} THEN head ELSE IF open # {} THEN open ELSE NewLogical

InsertAccepted(q, c, l, adopting) ==
    LET row == <<l, NextVersion(rowLocks[q], l)>> IN
    /\ row \in Rows
    /\ IF ~Insertable(row)
       THEN Refuse(q, IF adopting THEN "adoptionFailed" ELSE "duplicate")
       ELSE /\ rowStatus' = [rowStatus EXCEPT ![row] = "active"]
            /\ takenFrom' = [takenFrom EXCEPT ![l] = @ \cup {CandidateSource[c]}]
            /\ acceptedAs' = [acceptedAs EXCEPT ![c] = @ \cup {row}]
            /\ candidateStatus' = [candidateStatus EXCEPT ![c] = "accepted"]
            /\ UNCHANGED <<revoked, suppressed>>
            /\ Answer(q, "done")

\* Mutant: the candidate is not judged again under its lock.
AcceptAsRead(q) ==
    /\ phase[q] = "sourced"
    /\ operation[q] = "accept"
    /\ CandidateSource[subject[q]] \notin suppressed
    /\ \E l \in LogicalFor(q) : InsertAccepted(q, subject[q], l, FALSE)

\* acceptMemoryCandidate: the candidate's value differs from the head's or not, and the user
\* may say how to resolve a conflict.
Accept(q) ==
    /\ phase[q] = "sourced"
    /\ operation[q] = "accept"
    /\ LET c == subject[q]
           head == ActiveIn(rowLocks[q])
       IN IF candidateStatus[c] # "proposed" THEN Refuse(q, "done")
          ELSE IF CandidateSource[c] \in suppressed THEN Refuse(q, "sourceRevoked")
          ELSE \/ /\ head # {}
                  /\ Refuse(q, "conflict")
               \/ /\ head # {}       \* keep_existing
                  /\ candidateStatus' = [candidateStatus EXCEPT ![c] = "rejected"]
                  /\ UNCHANGED rowVars
                  /\ Answer(q, "done")
               \/ \E l \in LogicalFor(q) : InsertAccepted(q, c, l, head # {})

\* rejectMemoryCandidate: one UPDATE ... WHERE status = 'proposed'.
Reject(c) ==
    /\ candidateStatus[c] = "proposed"
    /\ \A p \in MemoryRequests :
          ~(Holding(p) /\ operation[p] = "accept" /\ subject[p] = c)
    /\ candidateStatus' = [candidateStatus EXCEPT ![c] = "rejected"]
    /\ UNCHANGED <<rowVars, requestVars, extractionVars>>

-----------------------------------------------------------------------------
(* Extraction of candidates, by a generation worker. *)

\* createMemoryExtractionJob.
EnqueueExtraction ==
    /\ extraction = "none"
    /\ extraction' = "queued"
    /\ UNCHANGED <<rowVars, candidateStatus, requestVars, attemptCount, eligible>>

\* The claim, and the messages and suppressions read without a lock.
ClaimExtraction ==
    /\ \/ extraction = "queued"
       \/ extraction = "failed" /\ attemptCount < MaxExtractions
    /\ extraction' = "processing"
    /\ attemptCount' = attemptCount + 1
    /\ eligible' = Sources \ suppressed
    /\ UNCHANGED <<rowVars, candidateStatus, requestVars>>

\* deterministicMemoryExtractor: a candidate cites the one message it was found in.
Extracted == {c \in Candidates : CandidateSource[c] \in eligible}

\* onConflictDoNothing: a candidate that was proposed before stays as it is.
Propose(c) ==
    /\ extraction = "processing"
    /\ c \in Extracted
    /\ candidateStatus[c] = "none"
    /\ candidateStatus' = [candidateStatus EXCEPT ![c] = "proposed"]
    /\ UNCHANGED <<rowVars, requestVars, extractionVars>>

\* A worker that dies instead leaves the job in processing.
EndExtraction ==
    /\ extraction = "processing"
    /\ extraction' \in {"succeeded", "failed"}
    /\ eligible' = {}
    /\ UNCHANGED <<rowVars, candidateStatus, requestVars, attemptCount>>

ProjectMemoryNext ==
    \/ \E q \in MemoryRequests :
          \/ RequestCreate(q) \/ RequestUpdate(q) \/ RequestDelete(q) \/ RequestAccept(q)
          \/ LockRows(q) \/ LockSources(q)
          \/ Create(q) \/ Update(q) \/ Delete(q) \/ Accept(q)
    \/ \E c \in Candidates : Reject(c) \/ Propose(c)
    \/ EnqueueExtraction \/ ClaimExtraction \/ EndExtraction

ProjectMemorySpec == ProjectMemoryInit /\ [][ProjectMemoryNext]_projectMemoryVars

-----------------------------------------------------------------------------
(* Properties. *)

\* No row becomes active under a revoked logical id or from a suppressed message, although
\* candidates are extracted, and requests begin, without a lock (createProjectMemory,
\* updateProjectMemory, acceptMemoryCandidate against deleteProjectMemory).
NothingRevivesRevoked ==
    [][\A r \in Rows : rowStatus[r] # "active" /\ rowStatus'[r] = "active" =>
          /\ r[1] \notin revoked'
          /\ takenFrom'[r[1]] \cap suppressed' = {}]_projectMemoryVars

\* A candidate is decided once, and never becomes a second row, although requests judge it
\* first on an unlocked read and may be overtaken by another acceptance or a rejection.
DecidedOnce ==
    [][\A c \in Candidates : candidateStatus[c] \in {"accepted", "rejected"} =>
          /\ candidateStatus'[c] = candidateStatus[c]
          /\ acceptedAs'[c] = acceptedAs[c]]_projectMemoryVars

\* A user who asks to adopt a conflicting candidate is not refused because of the very
\* version the adoption replaces (docs/history/phase4-design.md:232).
AdoptionReplacesHead == \A q \in MemoryRequests : outcome[q] # "adoptionFailed"
=============================================================================
