---------------------------- MODULE Progress_proofs ----------------------------
(***************************************************************************)
(* Proofs about what happens to a job after its analysis.  Of              *)
(* RenderPublication: for any sets of edits, creations and render workers, *)
(* any number of output formats and any bounds.  Of StatusWatch: for any   *)
(* jobs, any number of watches and any bounds.                             *)
(***************************************************************************)
EXTENDS RenderPublication, StatusWatch, FiniteSetTheorems, TLAPS

-----------------------------------------------------------------------------
(* Publication: the inductive invariant *)

BeforeRecord == {"claimed", "cleared", "validating", "reserved"}
Recorded     == {"writing", "putting", "readback"}
Attempting   == Stage \ {"idle", "cleaning"}
WithNumber   == {"reserved", "validated", "committing"} \cup Recorded

\* The ledger row of the attempt a worker makes or cleans.
AttemptRow(w) == ledger[job[w]][held[w]]

\* What a busy worker holds: a job, the token of its claim (or of the attempt it cleans),
\* the format it comes to next, and from the reservation on a number.
WorkerShape ==
    \A w \in RenderWorkers :
        /\ pc[w] # "idle" => job[w] \in Jobs /\ held[w] \in Fences
        /\ pc[w] \in Attempting => held[w] <= fence[job[w]]
        /\ pc[w] \in {"writing", "putting", "cleaning"} => pos[w] # 0
        /\ pc[w] = "putting" => pos[w] \in Formats
        /\ pc[w] \in WithNumber => number[w] # 0

\* No two workers make the same attempt.
AttemptsApart ==
    \A w, v \in RenderWorkers :
        w # v /\ pc[w] \in Attempting /\ pc[v] \in Attempting /\ job[w] = job[v]
            => held[w] # held[v]

\* How far the ledger is with the attempt of a worker. Only the worker that makes an attempt
\* records and validates it, and a cleaner has taken it before it deletes.
RowFits(w) ==
    /\ pc[w] \in BeforeRecord => AttemptRow(w) = "none"
    /\ pc[w] \in Recorded => AttemptRow(w) \in {"writing", "deleting", "deleted"}
    /\ pc[w] = "cleaning" => AttemptRow(w) \in {"deleting", "deleted"}
LedgerFollowsWorkers ==
    /\ \A j \in Jobs, f \in Fences : f > fence[j] => ledger[j][f] = "none"
    /\ \A w \in RenderWorkers : RowFits(w)

\* What was read back stays until a cleaner takes the attempt, and what is validated or
\* published stays for good.
AttemptsComplete ==
    /\ \A w \in RenderWorkers :
          pc[w] = "readback" /\ AttemptRow(w) = "writing" => KeysOf(job[w], held[w]) \subseteq objects
    /\ \A j \in Jobs, f \in Fences :
          ledger[j][f] \in {"validated", "published"} => KeysOf(j, f) \subseteq objects

\* An undecided publication holds a running job whose manifest names a validated attempt.
CommitFindsRow ==
    \A j \in Jobs : commit[j] # None =>
        /\ status[j] \in RenderRunning
        /\ manifest[j] \in Fences
        /\ ledger[j][manifest[j]] = "validated"
        /\ reserved[j] # 0

\* A lease is on a running job only.
OwnerRuns == \A j \in Jobs : owner[j] # None => status[j] \in RenderRunning

\* A revision is what its job reserved, and jobs with a revision are the succeeded ones.
RevisionsMatchJobs ==
    /\ \A r \in revisions :
          /\ ledger[r.job][r.attempt] = "published"
          /\ r.artifact = ArtifactOf[r.job]
          /\ r.number = reserved[r.job] /\ reserved[r.job] # 0
          /\ status[r.job] = "succeeded"
    /\ \A r, q \in revisions : r.job = q.job => r = q
    /\ \A j \in Jobs : status[j] = "succeeded" => \E r \in revisions : r.job = j

\* Numbers are counted off the artifact, each for one edit; the first is taken.
Reserving == {j \in Edits : reserved[j] # 0}
NumbersCounted ==
    /\ nextNumber[Base] = Cardinality(Reserving) + 2
    /\ \A j \in Reserving : 1 < reserved[j] /\ reserved[j] < nextNumber[Base]
    /\ \A j, k \in Reserving : j # k => reserved[j] # reserved[k]
    /\ \A j \in Creations : reserved[j] \in {0, 1}

Inv == /\ TypeOK
       /\ WorkerShape
       /\ AttemptsApart
       /\ LedgerFollowsWorkers
       /\ LedgerCoversStore
       /\ AttemptsComplete
       /\ CommitFindsRow
       /\ OwnerRuns
       /\ RevisionsMatchJobs
       /\ NumbersCounted

-----------------------------------------------------------------------------
(* Lemmas about the operators of the specification *)

USE FormatsAssumption, RenderBounds, JobKinds
USE DEF Jobs, Fences

\* The maximum of a finite set of numbers is in it and bounds it.
LEMMA MaxIs ==
    ASSUME NEW S \in SUBSET Int, NEW n \in S, \A m \in S : m <= n
    PROVE  Max(S) = n
<1>1. n \in S /\ \A y \in S : n >= y
  OBVIOUS
<1>2. Max(S) \in S /\ \A y \in S : Max(S) >= y
  BY <1>1 DEF Max
<1>3. Max(S) <= n /\ n <= Max(S) /\ Max(S) \in Int /\ n \in Int
  BY <1>1, <1>2
<1> QED
  BY <1>3

\* Marking an attempt changes its row of the ledger and no other.
LEMMA Marked ==
    ASSUME ledger \in [Jobs -> [Fences -> LedgerStatus]],
           NEW j \in Jobs, NEW f \in Fences, NEW state \in LedgerStatus,
           ledger' = [ledger EXCEPT ![j][f] = state]
    PROVE  /\ ledger' \in [Jobs -> [Fences -> LedgerStatus]]
           /\ ledger'[j][f] = state
           /\ \A k \in Jobs, g \in Fences : k # j \/ g # f => ledger'[k][g] = ledger[k][g]
  OBVIOUS

\* The keys of attempts are keys, and tell their attempts apart.
LEMMA KeyFacts ==
    /\ \A j \in Jobs, f \in Fences, k \in Formats : Key(j, f, k) \in Keys
    /\ \A j \in Jobs, f \in Fences, k \in Formats, j2 \in Jobs, f2 \in Fences, k2 \in Formats :
          Key(j, f, k) = Key(j2, f2, k2) => j = j2 /\ f = f2 /\ k = k2
    /\ \A key \in Keys : key[1] \in Jobs /\ key[2] \in Fences
    /\ \A j, f, k : Key(j, f, k)[1] = j /\ Key(j, f, k)[2] = f
  BY DEF Key, Keys

\* The keys of an attempt are keys.
LEMMA KeysOfFacts ==
    \A j \in Jobs, f \in Fences : KeysOf(j, f) \subseteq Keys
  BY DEF Key, Keys, KeysOf

-----------------------------------------------------------------------------
(* Types *)

\* The invariant holds at the start.
LEMMA InitInv == Init => Inv
<1> SUFFICES ASSUME Init PROVE Inv
  OBVIOUS
<1>1. TypeOK
  BY DEF Init, TypeOK, RenderRunning, LedgerStatus, Stage, Keys, Artifacts
<1>2. WorkerShape /\ AttemptsApart
  BY DEF Init, WorkerShape, AttemptsApart, Attempting, WithNumber, Recorded
<1>3. LedgerFollowsWorkers /\ LedgerCoversStore /\ AttemptsComplete
  BY DEF Init, LedgerFollowsWorkers, LedgerCoversStore, AttemptsComplete, BeforeRecord,
     Recorded, RowFits
<1>4. CommitFindsRow /\ OwnerRuns /\ RevisionsMatchJobs
  BY DEF Init, CommitFindsRow, OwnerRuns, RevisionsMatchJobs, RenderRunning
<1>5. NumbersCounted
  <2>1. Reserving = {}
    BY DEF Init, Reserving
  <2> QED
    BY <2>1, FS_EmptySet DEF Init, NumbersCounted, Artifacts
<1> QED
  BY <1>1, <1>2, <1>3, <1>4, <1>5 DEF Inv

\* Every number of the artifact is below its counter, so that the counter is the next number.
LEMMA FreshIsNext == Inv => FreshNumber(Base) = nextNumber[Base]
<1> SUFFICES ASSUME Inv PROVE FreshNumber(Base) = nextNumber[Base]
  OBVIOUS
<1> DEFINE later == {r.number + 1 : r \in {q \in revisions : q.artifact = Base}}
<1>1. nextNumber[Base] \in Nat
  BY DEF Inv, TypeOK, Artifacts
<1>2. ASSUME NEW r \in revisions, r.artifact = Base
      PROVE  r.number + 1 \in Nat /\ r.number + 1 <= nextNumber[Base]
  <2>1. r.job \in Reserving /\ r.number = reserved[r.job]
    BY <1>2 DEF Inv, TypeOK, RevisionsMatchJobs, Reserving, ArtifactOf
  <2>2. reserved[r.job] \in Nat /\ reserved[r.job] < nextNumber[Base]
    BY <2>1 DEF Inv, TypeOK, NumbersCounted, Reserving
  <2> QED
    BY <2>1, <2>2, <1>1
<1>3. {nextNumber[Base]} \cup later \in SUBSET Int
  BY <1>1, <1>2
<1>4. \A m \in {nextNumber[Base]} \cup later : m <= nextNumber[Base]
  BY <1>1, <1>2
<1> HIDE DEF later
<1>5. Max({nextNumber[Base]} \cup later) = nextNumber[Base]
  BY <1>3, <1>4, MaxIs
<1> QED
  BY <1>5 DEF FreshNumber, later

\* The number a job is given: the one it has, the next of its artifact, or the first.
LEMMA GivenNumber ==
    ASSUME Inv, NEW j \in Jobs
    PROVE  /\ Given(j) \in Nat /\ Given(j) # 0
           /\ reserved[j] # 0 => Given(j) = reserved[j]
           /\ reserved[j] = 0 /\ j \in Edits => Given(j) = nextNumber[Base]
           /\ j \in Creations => Given(j) = 1
<1>1. nextNumber[Base] \in Nat /\ nextNumber[Base] > 1
  <2>1. IsFiniteSet(Reserving)
    BY EditsAssumption, FS_Subset DEF Reserving
  <2> QED
    BY <2>1, FS_CardinalityType DEF Inv, NumbersCounted
<1> QED
  BY <1>1, FreshIsNext DEF Inv, TypeOK, NumbersCounted, Given, NewIdentity

USE DEF row, tables, store, worker, At, Goto, Return, Renew, MarkAttempt, OwnsLease, Disrupt

\* Steps keep the types.
LEMMA StepType == Inv /\ [Next]_vars => TypeOK'
<1> SUFFICES ASSUME Inv, [Next]_vars PROVE TypeOK'
  OBVIOUS
<1> USE DEF Inv, TypeOK, WorkerShape, RenderRunning, LedgerStatus, Stage, Attempting,
            WithNumber, Recorded, Formats
<1>1. ASSUME NEW w \in RenderWorkers, Attempt(w) PROVE TypeOK'
  <2>1. CASE ClearManifest(w)
    BY <2>1 DEF ClearManifest
  <2>2. CASE BeginValidating(w)
    BY <2>2 DEF BeginValidating
  <2>3. CASE Reserve(w)
    <3>1. job[w] \in Jobs /\ Given(job[w]) \in Nat
      BY <2>3, GivenNumber DEF Reserve
    <3>2. Given(job[w]) + 1 \in Nat
      BY <3>1
    <3>3. number' \in [RenderWorkers -> Nat] /\ reserved' \in [Jobs -> Nat]
      BY <2>3, <3>1 DEF Reserve
    <3>4. nextNumber' \in [Artifacts -> Nat]
      BY <2>3, <3>2 DEF Reserve
    <3> QED
      BY <2>3, <3>3, <3>4 DEF Reserve
  <2>4. CASE RecordAttempt(w)
    BY <2>4 DEF RecordAttempt
  <2>5. CASE StartPut(w)
    <3>1. pos[w] \in Formats /\ job[w] \in Jobs /\ held[w] \in Fences
      BY <2>5 DEF StartPut
    <3>2. Key(job[w], held[w], pos[w]) \in Keys
      BY <3>1, KeyFacts DEF Formats
    <3> QED
      BY <2>5, <3>2 DEF StartPut
  <2>6. CASE PutStored(w)
    <3>1. pos[w] \in Nat /\ pos[w] <= NumFormats
      BY <2>6 DEF PutStored
    <3>2. pos' \in [RenderWorkers -> 0 .. NumFormats + 1]
      BY <2>6, <3>1 DEF PutStored
    <3> QED
      BY <2>6, <3>2 DEF PutStored
  <2>7. CASE PutFenced(w)
    BY <2>7 DEF PutFenced
  <2>8. CASE ReadBack(w)
    BY <2>8 DEF ReadBack
  <2>9. CASE ReadBackMismatch(w)
    BY <2>9 DEF ReadBackMismatch
  <2>10. CASE ValidateAttempt(w)
    BY <2>10 DEF ValidateAttempt
  <2>11. CASE SendCommit(w)
    BY <2>11 DEF SendCommit
  <2>12. CASE CommitAnswered(w)
    BY <2>12 DEF CommitAnswered
  <2>13. CASE CommitUnanswered(w)
    BY <2>13 DEF CommitUnanswered
  <2>14. CASE AttemptFails(w)
    BY <2>14 DEF AttemptFails
  <2>15. CASE FindSucceeded(w)
    BY <2>15 DEF FindSucceeded
  <2>16. CASE FindUnfinished(w)
    BY <2>16 DEF FindUnfinished
  <2>17. CASE FailRender(w)
    BY <2>17 DEF FailRender
  <2>18. CASE FailRefused(w)
    BY <2>18 DEF FailRefused
  <2> QED
    BY <1>1, <2>1, <2>2, <2>3, <2>4, <2>5, <2>6, <2>7, <2>8, <2>9, <2>10, <2>11, <2>12, <2>13,
       <2>14, <2>15, <2>16, <2>17, <2>18 DEF Attempt
<1>2. ASSUME NEW w \in RenderWorkers, Heartbeat(w) PROVE TypeOK'
  BY <1>2 DEF Heartbeat
<1>3. ASSUME NEW w \in RenderWorkers, Clean(w) PROVE TypeOK'
  <2>1. CASE DeleteCandidate(w)
    BY <2>1 DEF DeleteCandidate
  <2>2. CASE MarkDeleted(w)
    <3>1. ledger[job[w]][held[w]] \in LedgerStatus
      BY <2>2 DEF MarkDeleted
    <3> QED
      BY <2>2, <3>1 DEF MarkDeleted
  <2> QED
    BY <1>3, <2>1, <2>2 DEF Clean
<1>4. ASSUME NEW w \in RenderWorkers, Crash(w) PROVE TypeOK'
  BY <1>4 DEF Crash
<1>5. ASSUME NEW w \in RenderWorkers, NEW j \in Jobs, Claim(w, j) PROVE TypeOK'
  <2>1. fence[j] + 1 \in 0 .. MaxFence
    BY <1>5 DEF Claim
  <2>2. /\ fence' \in [Jobs -> 0 .. MaxFence] /\ held' \in [RenderWorkers -> 0 .. MaxFence]
        /\ job' \in [RenderWorkers -> Jobs \cup {None}]
    BY <1>5, <2>1 DEF Claim
  <2> QED
    BY <1>5, <2>2 DEF Claim
<1>6. ASSUME NEW w \in RenderWorkers, NEW j \in Jobs, NEW f \in Fences, MarkOrphan(w, j, f)
      PROVE TypeOK'
  <2>1. ledger' \in [Jobs -> [Fences -> LedgerStatus]]
    BY <1>6, Marked DEF MarkOrphan
  <2>2. /\ pc' \in [RenderWorkers -> Stage] /\ job' \in [RenderWorkers -> Jobs \cup {None}]
        /\ held' \in [RenderWorkers -> 0 .. MaxFence]
        /\ pos' \in [RenderWorkers -> 0 .. NumFormats + 1]
    <3>1. CASE Referenced(j, f)
      BY <1>6, <3>1 DEF MarkOrphan
    <3>2. CASE ~Referenced(j, f)
      <4>1. /\ pc' = [pc EXCEPT ![w] = "cleaning"] /\ job' = [job EXCEPT ![w] = j]
            /\ held' = [held EXCEPT ![w] = f] /\ pos' = [pos EXCEPT ![w] = 1]
        BY <1>6, <3>2 DEF MarkOrphan
      <4>2. 1 \in 0 .. NumFormats + 1
        OBVIOUS
      <4> QED
        BY <4>1, <4>2
    <3> QED
      BY <3>1, <3>2
  <2> QED
    BY <1>6, <2>1, <2>2 DEF MarkOrphan
<1>7. ASSUME NEW j \in Jobs, Recover(j) PROVE TypeOK'
  BY <1>7 DEF Recover
<1>8. ASSUME NEW j \in Jobs, Requeue(j) PROVE TypeOK'
  BY <1>8 DEF Requeue
<1>9. ASSUME NEW j \in Jobs, CommitTakesEffect(j) PROVE TypeOK'
  <2>1. manifest[j] \in Fences /\ reserved[j] \in Nat /\ ArtifactOf[j] \in Artifacts
    BY <1>9 DEF CommitTakesEffect, CommitFindsRow, ArtifactOf, Artifacts
  <2>2. \A r \in revisions' : r.job \in Jobs /\ r.artifact \in Artifacts
                              /\ r.number \in Nat /\ r.attempt \in Fences
    BY <1>9, <2>1 DEF CommitTakesEffect
  <2>3. head' \in [Artifacts -> Nat] /\ nextNumber' \in [Artifacts -> Nat]
    BY <1>9, <2>1 DEF CommitTakesEffect, HeadAfter
  <2> QED
    BY <1>9, <2>1, <2>2, <2>3 DEF CommitTakesEffect
<1>10. ASSUME NEW j \in Jobs, CommitRollsBack(j) PROVE TypeOK'
  BY <1>10 DEF CommitRollsBack
<1>11. ASSUME NEW j \in Jobs, ExpireOrphan(j) PROVE TypeOK'
  BY <1>11 DEF ExpireOrphan
<1>12. ASSUME NEW j \in Jobs, Stall(j) PROVE TypeOK'
  BY <1>12 DEF Stall
<1>13. ASSUME NEW key \in Keys, PutLands(key) PROVE TypeOK'
  BY <1>13 DEF PutLands
<1>14. ASSUME NEW key \in Keys, PutDropped(key) PROVE TypeOK'
  BY <1>14 DEF PutDropped
<1>15. CASE UNCHANGED vars
  BY <1>15 DEF vars
<1> QED
  BY <1>1, <1>2, <1>3, <1>4, <1>5, <1>6, <1>7, <1>8, <1>9, <1>10, <1>11, <1>12, <1>13, <1>14,
     <1>15 DEF Next, Decide

\* The cleaner takes attempts without a revision only: the ledger calls the others published.
LEMMA OrphanTaken ==
    ASSUME RevisionsMatchJobs,
           NEW w \in RenderWorkers, NEW j \in Jobs, NEW f \in Fences, MarkOrphan(w, j, f)
    PROVE  /\ pc[w] = "idle"
           /\ ledger[j][f] \in Cleanable
           /\ ledger' = [ledger EXCEPT ![j][f] = "deleting"]
           /\ pc' = [pc EXCEPT ![w] = "cleaning"] /\ job' = [job EXCEPT ![w] = j]
           /\ held' = [held EXCEPT ![w] = f] /\ pos' = [pos EXCEPT ![w] = 1]
           /\ UNCHANGED <<row, reserved, manifest, revisions, nextNumber, head, commit, store, number>>
<1>1. ledger[j][f] \in Cleanable
  BY DEF MarkOrphan
<1>2. ~Referenced(j, f)
  BY <1>1 DEF RevisionsMatchJobs, Referenced, Cleanable
<1> QED
  BY <1>1, <1>2 DEF MarkOrphan

\* A worker gets its job, token, number and place from the statements it passes.
LEMMA StepWorkerShape == ASSUME Inv, [Next]_vars PROVE WorkerShape'
<1> USE DEF Inv, TypeOK, WorkerShape, Stage, Attempting, WithNumber, Recorded, Formats
<1>1. CASE UNCHANGED <<pc, job, held, number, pos, fence>>
  BY <1>1
<1>2. ASSUME NEW w \in RenderWorkers, ClearManifest(w) PROVE WorkerShape'
  BY <1>2 DEF ClearManifest
<1>3. ASSUME NEW w \in RenderWorkers, BeginValidating(w) PROVE WorkerShape'
  BY <1>3 DEF BeginValidating
<1>4. ASSUME NEW w \in RenderWorkers, Reserve(w) PROVE WorkerShape'
  <2>1. job[w] \in Jobs /\ Given(job[w]) # 0
    BY <1>4, GivenNumber DEF Reserve
  <2> QED
    BY <1>4, <2>1 DEF Reserve
<1>5. ASSUME NEW w \in RenderWorkers, RecordAttempt(w) PROVE WorkerShape'
  BY <1>5 DEF RecordAttempt
<1>6. ASSUME NEW w \in RenderWorkers, StartPut(w) PROVE WorkerShape'
  BY <1>6 DEF StartPut
<1>7. ASSUME NEW w \in RenderWorkers, PutStored(w) PROVE WorkerShape'
  BY <1>7 DEF PutStored
<1>8. ASSUME NEW w \in RenderWorkers, PutFenced(w) PROVE WorkerShape'
  BY <1>8 DEF PutFenced
<1>9. ASSUME NEW w \in RenderWorkers, ReadBack(w) PROVE WorkerShape'
  BY <1>9 DEF ReadBack
<1>10. ASSUME NEW w \in RenderWorkers, ReadBackMismatch(w) PROVE WorkerShape'
  BY <1>10 DEF ReadBackMismatch
<1>11. ASSUME NEW w \in RenderWorkers, ValidateAttempt(w) PROVE WorkerShape'
  BY <1>11 DEF ValidateAttempt
<1>12. ASSUME NEW w \in RenderWorkers, SendCommit(w) PROVE WorkerShape'
  BY <1>12 DEF SendCommit
<1>13. ASSUME NEW w \in RenderWorkers, CommitAnswered(w) PROVE WorkerShape'
  BY <1>13 DEF CommitAnswered
<1>14. ASSUME NEW w \in RenderWorkers, CommitUnanswered(w) PROVE WorkerShape'
  BY <1>14 DEF CommitUnanswered
<1>15. ASSUME NEW w \in RenderWorkers, AttemptFails(w) PROVE WorkerShape'
  BY <1>15 DEF AttemptFails
<1>16. ASSUME NEW w \in RenderWorkers, FindSucceeded(w) PROVE WorkerShape'
  BY <1>16 DEF FindSucceeded
<1>17. ASSUME NEW w \in RenderWorkers, FindUnfinished(w) PROVE WorkerShape'
  BY <1>17 DEF FindUnfinished
<1>18. ASSUME NEW w \in RenderWorkers, FailRender(w) PROVE WorkerShape'
  BY <1>18 DEF FailRender
<1>19. ASSUME NEW w \in RenderWorkers, FailRefused(w) PROVE WorkerShape'
  BY <1>19 DEF FailRefused
<1>20. ASSUME NEW w \in RenderWorkers, DeleteCandidate(w) PROVE WorkerShape'
  BY <1>20 DEF DeleteCandidate
<1>21. ASSUME NEW w \in RenderWorkers, MarkDeleted(w) PROVE WorkerShape'
  BY <1>21 DEF MarkDeleted
<1>22. ASSUME NEW w \in RenderWorkers, Crash(w) PROVE WorkerShape'
  BY <1>22 DEF Crash
<1>23. ASSUME NEW w \in RenderWorkers, NEW j \in Jobs, Claim(w, j) PROVE WorkerShape'
  BY <1>23 DEF Claim
<1>24. ASSUME NEW w \in RenderWorkers, NEW j \in Jobs, NEW f \in Fences, MarkOrphan(w, j, f)
       PROVE WorkerShape'
  <2>1. /\ pc[w] = "idle"
        /\ pc' = [pc EXCEPT ![w] = "cleaning"] /\ job' = [job EXCEPT ![w] = j]
        /\ held' = [held EXCEPT ![w] = f] /\ pos' = [pos EXCEPT ![w] = 1]
        /\ UNCHANGED <<fence, number>>
    BY <1>24, OrphanTaken
  <2> QED
    BY <2>1
<1> QED
  BY <1>1, <1>2, <1>3, <1>4, <1>5, <1>6, <1>7, <1>8, <1>9, <1>10, <1>11, <1>12, <1>13, <1>14,
     <1>15, <1>16, <1>17, <1>18, <1>19, <1>20, <1>21, <1>22, <1>23, <1>24
     DEF vars, Next, Attempt, Clean, Decide, Heartbeat, Recover, Requeue, CommitTakesEffect,
         CommitRollsBack, ExpireOrphan, Stall, PutLands, PutDropped

\* A claim raises the token above those of all attempts at its job.
LEMMA StepAttemptsApart ==
    ASSUME TypeOK, WorkerShape, AttemptsApart, RevisionsMatchJobs, [Next]_vars
    PROVE  AttemptsApart'
<1> USE DEF TypeOK, WorkerShape, AttemptsApart, Stage, Attempting
<1>1. CASE UNCHANGED <<pc, job, held, fence>>
  BY <1>1
<1>2. ASSUME NEW w \in RenderWorkers, ClearManifest(w) PROVE AttemptsApart'
  BY <1>2 DEF ClearManifest
<1>3. ASSUME NEW w \in RenderWorkers, BeginValidating(w) PROVE AttemptsApart'
  BY <1>3 DEF BeginValidating
<1>4. ASSUME NEW w \in RenderWorkers, Reserve(w) PROVE AttemptsApart'
  BY <1>4 DEF Reserve
<1>5. ASSUME NEW w \in RenderWorkers, RecordAttempt(w) PROVE AttemptsApart'
  BY <1>5 DEF RecordAttempt
<1>6. ASSUME NEW w \in RenderWorkers, StartPut(w) PROVE AttemptsApart'
  BY <1>6 DEF StartPut
<1>7. ASSUME NEW w \in RenderWorkers, PutStored(w) PROVE AttemptsApart'
  BY <1>7 DEF PutStored
<1>8. ASSUME NEW w \in RenderWorkers, PutFenced(w) PROVE AttemptsApart'
  BY <1>8 DEF PutFenced
<1>9. ASSUME NEW w \in RenderWorkers, ReadBack(w) PROVE AttemptsApart'
  BY <1>9 DEF ReadBack
<1>10. ASSUME NEW w \in RenderWorkers, ReadBackMismatch(w) PROVE AttemptsApart'
  BY <1>10 DEF ReadBackMismatch
<1>11. ASSUME NEW w \in RenderWorkers, ValidateAttempt(w) PROVE AttemptsApart'
  BY <1>11 DEF ValidateAttempt
<1>12. ASSUME NEW w \in RenderWorkers, SendCommit(w) PROVE AttemptsApart'
  BY <1>12 DEF SendCommit
<1>13. ASSUME NEW w \in RenderWorkers, CommitAnswered(w) PROVE AttemptsApart'
  BY <1>13 DEF CommitAnswered
<1>14. ASSUME NEW w \in RenderWorkers, CommitUnanswered(w) PROVE AttemptsApart'
  BY <1>14 DEF CommitUnanswered
<1>15. ASSUME NEW w \in RenderWorkers, AttemptFails(w) PROVE AttemptsApart'
  BY <1>15 DEF AttemptFails
<1>16. ASSUME NEW w \in RenderWorkers, FindSucceeded(w) PROVE AttemptsApart'
  BY <1>16 DEF FindSucceeded
<1>17. ASSUME NEW w \in RenderWorkers, FindUnfinished(w) PROVE AttemptsApart'
  BY <1>17 DEF FindUnfinished
<1>18. ASSUME NEW w \in RenderWorkers, FailRender(w) PROVE AttemptsApart'
  BY <1>18 DEF FailRender
<1>19. ASSUME NEW w \in RenderWorkers, FailRefused(w) PROVE AttemptsApart'
  BY <1>19 DEF FailRefused
<1>20. ASSUME NEW w \in RenderWorkers, DeleteCandidate(w) PROVE AttemptsApart'
  BY <1>20 DEF DeleteCandidate
<1>21. ASSUME NEW w \in RenderWorkers, MarkDeleted(w) PROVE AttemptsApart'
  BY <1>21 DEF MarkDeleted
<1>22. ASSUME NEW w \in RenderWorkers, Crash(w) PROVE AttemptsApart'
  BY <1>22 DEF Crash
<1>23. ASSUME NEW w \in RenderWorkers, NEW j \in Jobs, Claim(w, j) PROVE AttemptsApart'
  BY <1>23 DEF Claim
<1>24. ASSUME NEW w \in RenderWorkers, NEW j \in Jobs, NEW f \in Fences, MarkOrphan(w, j, f)
       PROVE AttemptsApart'
  <2>1. /\ pc[w] = "idle"
        /\ pc' = [pc EXCEPT ![w] = "cleaning"] /\ job' = [job EXCEPT ![w] = j]
        /\ held' = [held EXCEPT ![w] = f] /\ pos' = [pos EXCEPT ![w] = 1]
        /\ UNCHANGED <<fence, number>>
    BY <1>24, OrphanTaken
  <2> QED
    BY <2>1
<1> QED
  BY <1>1, <1>2, <1>3, <1>4, <1>5, <1>6, <1>7, <1>8, <1>9, <1>10, <1>11, <1>12, <1>13, <1>14,
     <1>15, <1>16, <1>17, <1>18, <1>19, <1>20, <1>21, <1>22, <1>23, <1>24
     DEF vars, Next, Attempt, Clean, Decide, Heartbeat, Recover, Requeue, CommitTakesEffect,
         CommitRollsBack, ExpireOrphan, Stall, PutLands, PutDropped

\* Marking an attempt that has a row, or may have one, disturbs no worker at another attempt.
LEMMA RowWritten ==
    ASSUME ledger \in [Jobs -> [Fences -> LedgerStatus]], fence \in [Jobs -> 0 .. MaxFence],
           WorkerShape, LedgerFollowsWorkers,
           NEW j \in Jobs, NEW f \in Fences, NEW state \in LedgerStatus,
           f <= fence[j] \/ ledger[j][f] # "none",
           ledger' = [ledger EXCEPT ![j][f] = state], UNCHANGED fence
    PROVE  /\ \A k \in Jobs, g \in Fences : (g > fence[k] => ledger[k][g] = "none")'
           /\ \A v \in RenderWorkers :
                 /\ UNCHANGED <<pc[v], job[v], held[v]>>
                 /\ pc[v] # "idle" => job[v] # j \/ held[v] # f
                 => RowFits(v)'
<1>1. /\ ledger'[j][f] = state
      /\ \A k \in Jobs, g \in Fences : k # j \/ g # f => ledger'[k][g] = ledger[k][g]
  BY Marked
<1>2. ASSUME NEW k \in Jobs, NEW g \in Fences, g > fence'[k] PROVE ledger'[k][g] = "none"
  <2>1. ledger[k][g] = "none" /\ fence[k] \in Int /\ g > fence[k]
    BY <1>2 DEF LedgerFollowsWorkers
  <2>2. k # j \/ g # f
    BY <2>1
  <2> QED
    BY <1>1, <2>1, <2>2
<1>3. ASSUME NEW v \in RenderWorkers, UNCHANGED <<pc[v], job[v], held[v]>>,
             pc[v] # "idle" => job[v] # j \/ held[v] # f
      PROVE  RowFits(v)'
  <2>1. CASE pc[v] = "idle"
    BY <1>3, <2>1 DEF RowFits, BeforeRecord, Recorded
  <2>2. CASE pc[v] # "idle"
    <3>1. job[v] \in Jobs /\ held[v] \in Fences /\ RowFits(v)
      BY <2>2 DEF WorkerShape, LedgerFollowsWorkers
    <3>2. ledger'[job[v]][held[v]] = ledger[job[v]][held[v]]
      BY <1>1, <1>3, <2>2, <3>1
    <3> QED
      BY <1>3, <3>1, <3>2 DEF RowFits, AttemptRow
  <2> QED
    BY <2>1, <2>2
<1> QED
  BY <1>2, <1>3

\* Each row of the ledger is written by the worker of its attempt, its publication or a cleaner.
LEMMA StepLedgerFollowsWorkers ==
    ASSUME TypeOK, WorkerShape, AttemptsApart, LedgerFollowsWorkers, RevisionsMatchJobs,
           CommitFindsRow, [Next]_vars
    PROVE  LedgerFollowsWorkers'
<1> USE DEF TypeOK, WorkerShape, AttemptsApart, LedgerFollowsWorkers, RowFits, AttemptRow,
            Stage, Attempting, Recorded, BeforeRecord, LedgerStatus
<1>1. CASE UNCHANGED <<pc, job, held, ledger, fence>>
  BY <1>1
<1>2. ASSUME NEW w \in RenderWorkers, ClearManifest(w) PROVE LedgerFollowsWorkers'
  BY <1>2 DEF ClearManifest
<1>3. ASSUME NEW w \in RenderWorkers, BeginValidating(w) PROVE LedgerFollowsWorkers'
  BY <1>3 DEF BeginValidating
<1>4. ASSUME NEW w \in RenderWorkers, Reserve(w) PROVE LedgerFollowsWorkers'
  <2>1. pc[w] = "validating" /\ pc' = [pc EXCEPT ![w] = "reserved"] /\ UNCHANGED <<job, held, ledger, fence>>
    BY <1>4 DEF Reserve
  <2> QED
    BY <2>1
<1>5. ASSUME NEW w \in RenderWorkers, RecordAttempt(w) PROVE LedgerFollowsWorkers'
  <2>1. job[w] \in Jobs /\ held[w] \in Fences /\ held[w] <= fence[job[w]] /\ AttemptRow(w) = "none"
    BY <1>5 DEF RecordAttempt, AttemptIs
  <2>2. /\ pc[w] = "reserved" /\ pc' = [pc EXCEPT ![w] = "writing"] /\ UNCHANGED <<job, held, fence>>
        /\ ledger' = [ledger EXCEPT ![job[w]][held[w]] = "writing"]
    BY <1>5 DEF RecordAttempt
  <2> HIDE DEF RowFits, LedgerFollowsWorkers, WorkerShape
  <2>3. /\ \A k \in Jobs, g \in Fences : (g > fence[k] => ledger[k][g] = "none")'
        /\ \A v \in RenderWorkers :
              /\ UNCHANGED <<pc[v], job[v], held[v]>>
              /\ pc[v] # "idle" => job[v] # job[w] \/ held[v] # held[w]
              => RowFits(v)'
    BY <2>1, <2>2, RowWritten
  <2>4. ASSUME NEW v \in RenderWorkers PROVE RowFits(v)'
    <3>1. CASE v = w
      <4>1. pc'[v] = "writing" /\ ledger'[job'[v]][held'[v]] = "writing"
        BY <2>1, <2>2, <3>1
      <4> QED
        BY <4>1 DEF RowFits
    <3>2. CASE v # w
      <4>1. UNCHANGED <<pc[v], job[v], held[v]>>
        BY <2>2, <3>2
      <4>2. CASE pc[v] # "idle" /\ job[v] = job[w] /\ held[v] = held[w]
        <5>1. pc[v] = "cleaning" /\ RowFits(v)
          BY <2>2, <3>2, <4>2 DEF LedgerFollowsWorkers
        <5> QED
          BY <2>1, <4>2, <5>1 DEF RowFits
      <4> QED
        BY <2>3, <4>1, <4>2
    <3> QED
      BY <3>1, <3>2
  <2> QED
    BY <2>3, <2>4 DEF LedgerFollowsWorkers
<1>6. ASSUME NEW w \in RenderWorkers, StartPut(w) PROVE LedgerFollowsWorkers'
  BY <1>6 DEF StartPut
<1>7. ASSUME NEW w \in RenderWorkers, PutStored(w) PROVE LedgerFollowsWorkers'
  BY <1>7 DEF PutStored
<1>8. ASSUME NEW w \in RenderWorkers, PutFenced(w) PROVE LedgerFollowsWorkers'
  BY <1>8 DEF PutFenced
<1>9. ASSUME NEW w \in RenderWorkers, ReadBack(w) PROVE LedgerFollowsWorkers'
  BY <1>9 DEF ReadBack
<1>10. ASSUME NEW w \in RenderWorkers, ReadBackMismatch(w) PROVE LedgerFollowsWorkers'
  BY <1>10 DEF ReadBackMismatch
<1>11. ASSUME NEW w \in RenderWorkers, ValidateAttempt(w) PROVE LedgerFollowsWorkers'
  <2>1. job[w] \in Jobs /\ held[w] \in Fences /\ held[w] <= fence[job[w]] /\ AttemptRow(w) = "writing"
    BY <1>11 DEF ValidateAttempt, AttemptIs
  <2>2. /\ pc[w] = "readback" /\ pc' = [pc EXCEPT ![w] = "validated"] /\ UNCHANGED <<job, held, fence>>
        /\ ledger' = [ledger EXCEPT ![job[w]][held[w]] = "validated"]
    BY <1>11 DEF ValidateAttempt
  <2> HIDE DEF RowFits, LedgerFollowsWorkers, WorkerShape
  <2>3. /\ \A k \in Jobs, g \in Fences : (g > fence[k] => ledger[k][g] = "none")'
        /\ \A v \in RenderWorkers :
              /\ UNCHANGED <<pc[v], job[v], held[v]>>
              /\ pc[v] # "idle" => job[v] # job[w] \/ held[v] # held[w]
              => RowFits(v)'
    BY <2>1, <2>2, RowWritten
  <2>4. ASSUME NEW v \in RenderWorkers PROVE RowFits(v)'
    <3>1. CASE v = w
      <4>1. pc'[v] = "validated" /\ ledger'[job'[v]][held'[v]] = "validated"
        BY <2>1, <2>2, <3>1
      <4> QED
        BY <4>1 DEF RowFits
    <3>2. CASE v # w
      <4>1. UNCHANGED <<pc[v], job[v], held[v]>>
        BY <2>2, <3>2
      <4>2. CASE pc[v] # "idle" /\ job[v] = job[w] /\ held[v] = held[w]
        <5>1. pc[v] = "cleaning" /\ RowFits(v)
          BY <2>2, <3>2, <4>2 DEF LedgerFollowsWorkers
        <5> QED
          BY <2>1, <4>2, <5>1 DEF RowFits
      <4> QED
        BY <2>3, <4>1, <4>2
    <3> QED
      BY <3>1, <3>2
  <2> QED
    BY <2>3, <2>4 DEF LedgerFollowsWorkers
<1>12. ASSUME NEW w \in RenderWorkers, SendCommit(w) PROVE LedgerFollowsWorkers'
  BY <1>12 DEF SendCommit
<1>13. ASSUME NEW w \in RenderWorkers, CommitAnswered(w) PROVE LedgerFollowsWorkers'
  BY <1>13 DEF CommitAnswered
<1>14. ASSUME NEW w \in RenderWorkers, CommitUnanswered(w) PROVE LedgerFollowsWorkers'
  BY <1>14 DEF CommitUnanswered
<1>15. ASSUME NEW w \in RenderWorkers, AttemptFails(w) PROVE LedgerFollowsWorkers'
  BY <1>15 DEF AttemptFails
<1>16. ASSUME NEW w \in RenderWorkers, FindSucceeded(w) PROVE LedgerFollowsWorkers'
  BY <1>16 DEF FindSucceeded
<1>17. ASSUME NEW w \in RenderWorkers, FindUnfinished(w) PROVE LedgerFollowsWorkers'
  BY <1>17 DEF FindUnfinished
<1>18. ASSUME NEW w \in RenderWorkers, FailRender(w) PROVE LedgerFollowsWorkers'
  BY <1>18 DEF FailRender
<1>19. ASSUME NEW w \in RenderWorkers, FailRefused(w) PROVE LedgerFollowsWorkers'
  BY <1>19 DEF FailRefused
<1>20. ASSUME NEW w \in RenderWorkers, DeleteCandidate(w) PROVE LedgerFollowsWorkers'
  BY <1>20 DEF DeleteCandidate
<1>21. ASSUME NEW w \in RenderWorkers, MarkDeleted(w) PROVE LedgerFollowsWorkers'
  BY <1>21 DEF MarkDeleted
<1>22. ASSUME NEW w \in RenderWorkers, Crash(w) PROVE LedgerFollowsWorkers'
  BY <1>22 DEF Crash
<1>23. ASSUME NEW w \in RenderWorkers, NEW j \in Jobs, Claim(w, j) PROVE LedgerFollowsWorkers'
  BY <1>23 DEF Claim
<1>24. ASSUME NEW w \in RenderWorkers, NEW j \in Jobs, NEW f \in Fences, MarkOrphan(w, j, f)
       PROVE LedgerFollowsWorkers'
  <2>1. /\ ledger[j][f] \in Cleanable /\ ledger' = [ledger EXCEPT ![j][f] = "deleting"]
        /\ pc[w] = "idle" /\ pc' = [pc EXCEPT ![w] = "cleaning"]
        /\ job' = [job EXCEPT ![w] = j] /\ held' = [held EXCEPT ![w] = f] /\ UNCHANGED fence
    <3> HIDE DEF TypeOK, WorkerShape, AttemptsApart, LedgerFollowsWorkers, At, Goto, Return,
             MarkAttempt, OwnsLease, tables, store, worker
    <3> QED
      BY <1>24, OrphanTaken
  <2>2. ledger[j][f] # "none"
    BY <2>1 DEF Cleanable
  <2>3. ledger'[j][f] = "deleting"
    BY <2>1, Marked
  <2>9. /\ ledger \in [Jobs -> [Fences -> LedgerStatus]] /\ fence \in [Jobs -> 0 .. MaxFence]
        /\ "deleting" \in LedgerStatus
    OBVIOUS
  <2> HIDE DEF RowFits, LedgerFollowsWorkers, WorkerShape, TypeOK, AttemptsApart, LedgerStatus, Jobs, Fences
  <2>4. /\ \A k \in Jobs, g \in Fences : (g > fence[k] => ledger[k][g] = "none")'
        /\ \A v \in RenderWorkers :
              /\ UNCHANGED <<pc[v], job[v], held[v]>>
              /\ pc[v] # "idle" => job[v] # j \/ held[v] # f
              => RowFits(v)'
    BY <2>1, <2>2, <2>9, RowWritten
  <2>5. ASSUME NEW v \in RenderWorkers PROVE RowFits(v)'
    <3>1. CASE v = w
      <4>1. pc'[v] = "cleaning" /\ ledger'[job'[v]][held'[v]] = "deleting"
        BY <2>1, <2>3, <3>1 DEF TypeOK
      <4> QED
        BY <4>1 DEF RowFits
    <3>2. CASE v # w
      <4>1. UNCHANGED <<pc[v], job[v], held[v]>>
        BY <2>1, <3>2
      <4>2. CASE pc[v] # "idle" /\ job[v] = j /\ held[v] = f
        <5>1. RowFits(v) /\ ledger'[job'[v]][held'[v]] = "deleting"
          BY <2>3, <4>1, <4>2 DEF LedgerFollowsWorkers
        <5> QED
          BY <2>2, <4>1, <4>2, <5>1 DEF RowFits
      <4> QED
        BY <2>4, <4>1, <4>2
    <3> QED
      BY <3>1, <3>2
  <2> QED
    BY <2>4, <2>5 DEF LedgerFollowsWorkers
<1>25. ASSUME NEW j \in Jobs, CommitTakesEffect(j) PROVE LedgerFollowsWorkers'
  <2>1. manifest[j] \in Fences /\ ledger[j][manifest[j]] = "validated"
    BY <1>25 DEF CommitTakesEffect, CommitFindsRow
  <2>2. UNCHANGED <<pc, job, held, fence>> /\ ledger' = [ledger EXCEPT ![j][manifest[j]] = "published"]
    BY <1>25 DEF CommitTakesEffect
  <2>9. /\ ledger \in [Jobs -> [Fences -> LedgerStatus]] /\ fence \in [Jobs -> 0 .. MaxFence]
        /\ "published" \in LedgerStatus
    OBVIOUS
  <2> HIDE DEF RowFits, LedgerFollowsWorkers, WorkerShape, TypeOK, AttemptsApart, LedgerStatus, Jobs, Fences
  <2>3. /\ \A k \in Jobs, g \in Fences : (g > fence[k] => ledger[k][g] = "none")'
        /\ \A v \in RenderWorkers :
              /\ UNCHANGED <<pc[v], job[v], held[v]>>
              /\ pc[v] # "idle" => job[v] # j \/ held[v] # manifest[j]
              => RowFits(v)'
    BY <2>1, <2>2, <2>9, RowWritten
  <2>4. ASSUME NEW v \in RenderWorkers PROVE RowFits(v)'
    <3>1. CASE pc[v] # "idle" /\ job[v] = j /\ held[v] = manifest[j]
      <4>1. RowFits(v)
        BY DEF LedgerFollowsWorkers
      <4> QED
        BY <2>1, <2>2, <3>1, <4>1 DEF RowFits
    <3> QED
      BY <2>2, <2>3, <3>1
  <2> QED
    BY <2>3, <2>4 DEF LedgerFollowsWorkers
<1> QED
  BY <1>1, <1>2, <1>3, <1>4, <1>5, <1>6, <1>7, <1>8, <1>9, <1>10, <1>11, <1>12, <1>13, <1>14,
     <1>15, <1>16, <1>17, <1>18, <1>19, <1>20, <1>21, <1>22, <1>23, <1>24, <1>25
     DEF vars, Next, Attempt, Clean, Decide, Heartbeat, Recover, Requeue, CommitRollsBack,
         ExpireOrphan, Stall, PutLands, PutDropped

\* A row that is written again is not lost.
LEMMA RowsStay ==
    ASSUME ledger \in [Jobs -> [Fences -> LedgerStatus]],
           NEW j \in Jobs, NEW f \in Fences, NEW state \in LedgerStatus \ {"none"},
           ledger' = [ledger EXCEPT ![j][f] = state]
    PROVE  \A k \in Jobs, g \in Fences : ledger[k][g] # "none" => ledger'[k][g] # "none"
  BY Marked

\* Where every row stays, the ledger covers what the store has and gets no new keys of.
LEMMA StillCovered ==
    ASSUME objects \subseteq Keys, inflight \subseteq Keys, LedgerCoversStore,
           objects' \cup inflight' \subseteq objects \cup inflight,
           \A k \in Jobs, g \in Fences : ledger[k][g] # "none" => ledger'[k][g] # "none"
    PROVE  LedgerCoversStore'
  BY KeyFacts DEF LedgerCoversStore

\* An object is announced in the ledger before it is sent, and rows are never removed.
LEMMA StepLedgerCoversStore ==
    ASSUME TypeOK, WorkerShape, LedgerFollowsWorkers, CommitFindsRow, RevisionsMatchJobs,
           LedgerCoversStore, [Next]_vars
    PROVE  LedgerCoversStore'
<1>1. CASE UNCHANGED <<ledger, objects, inflight>>
  BY <1>1 DEF LedgerCoversStore
<1>2. ASSUME NEW w \in RenderWorkers, RecordAttempt(w) PROVE LedgerCoversStore'
  <2>1. job[w] \in Jobs /\ held[w] \in Fences
    BY <1>2 DEF RecordAttempt, WorkerShape
  <2>2. ledger' = [ledger EXCEPT ![job[w]][held[w]] = "writing"] /\ UNCHANGED <<objects, inflight>>
    BY <1>2 DEF RecordAttempt, WorkerShape
  <2>3. \A k \in Jobs, g \in Fences : ledger[k][g] # "none" => ledger'[k][g] # "none"
    BY <2>1, <2>2, RowsStay DEF TypeOK, LedgerStatus
  <2> QED
    BY <2>2, <2>3, StillCovered DEF TypeOK
<1>3. ASSUME NEW w \in RenderWorkers, StartPut(w) PROVE LedgerCoversStore'
  <2>1. job[w] \in Jobs /\ held[w] \in Fences /\ RowFits(w) /\ pc[w] = "writing"
    BY <1>3 DEF StartPut, WorkerShape, LedgerFollowsWorkers
  <2>2. ledger[job[w]][held[w]] # "none"
    BY <2>1 DEF RowFits, AttemptRow, Recorded
  <2>3. /\ objects' = objects /\ ledger' = ledger
        /\ inflight' = inflight \cup {Key(job[w], held[w], pos[w])}
    BY <1>3 DEF StartPut
  <2>4. Key(job[w], held[w], pos[w])[1] = job[w] /\ Key(job[w], held[w], pos[w])[2] = held[w]
    BY KeyFacts
  <2> QED
    BY <2>2, <2>3, <2>4 DEF LedgerCoversStore
<1>4. ASSUME NEW w \in RenderWorkers, PutFenced(w) PROVE LedgerCoversStore'
  BY <1>4, StillCovered DEF PutFenced, TypeOK
<1>5. ASSUME NEW w \in RenderWorkers, ValidateAttempt(w) PROVE LedgerCoversStore'
  <2>1. job[w] \in Jobs /\ held[w] \in Fences
    BY <1>5 DEF ValidateAttempt, WorkerShape
  <2>2. ledger' = [ledger EXCEPT ![job[w]][held[w]] = "validated"] /\ UNCHANGED <<objects, inflight>>
    BY <1>5 DEF ValidateAttempt, WorkerShape
  <2>3. \A k \in Jobs, g \in Fences : ledger[k][g] # "none" => ledger'[k][g] # "none"
    BY <2>1, <2>2, RowsStay DEF TypeOK, LedgerStatus
  <2> QED
    BY <2>2, <2>3, StillCovered DEF TypeOK
<1>6. ASSUME NEW w \in RenderWorkers, DeleteCandidate(w) PROVE LedgerCoversStore'
  BY <1>6, StillCovered DEF DeleteCandidate, TypeOK
<1>7. ASSUME NEW w \in RenderWorkers, MarkDeleted(w) PROVE LedgerCoversStore'
  <2>1. \A k \in Jobs, g \in Fences : ledger[k][g] # "none" => ledger'[k][g] # "none"
    BY <1>7 DEF MarkDeleted, TypeOK
  <2> QED
    BY <1>7, <2>1, StillCovered DEF MarkDeleted, TypeOK
<1>8. ASSUME NEW w \in RenderWorkers, NEW j \in Jobs, NEW f \in Fences, MarkOrphan(w, j, f)
      PROVE LedgerCoversStore'
  <2>1. j \in Jobs /\ f \in Fences
    BY <1>8, OrphanTaken DEF RevisionsMatchJobs
  <2>2. ledger' = [ledger EXCEPT ![j][f] = "deleting"] /\ UNCHANGED <<objects, inflight>>
    BY <1>8, OrphanTaken DEF RevisionsMatchJobs
  <2>3. \A k \in Jobs, g \in Fences : ledger[k][g] # "none" => ledger'[k][g] # "none"
    BY <2>1, <2>2, RowsStay DEF TypeOK, LedgerStatus
  <2> QED
    BY <2>2, <2>3, StillCovered DEF TypeOK
<1>9. ASSUME NEW j \in Jobs, CommitTakesEffect(j) PROVE LedgerCoversStore'
  <2>1. manifest[j] \in Fences
    BY <1>9 DEF CommitTakesEffect, CommitFindsRow
  <2>2. ledger' = [ledger EXCEPT ![j][manifest[j]] = "published"] /\ UNCHANGED <<objects, inflight>>
    BY <1>9 DEF CommitTakesEffect, CommitFindsRow
  <2>3. \A k \in Jobs, g \in Fences : ledger[k][g] # "none" => ledger'[k][g] # "none"
    BY <2>1, <2>2, RowsStay DEF TypeOK, LedgerStatus
  <2> QED
    BY <2>2, <2>3, StillCovered DEF TypeOK
<1>10. ASSUME NEW key \in Keys, PutLands(key) PROVE LedgerCoversStore'
  BY <1>10, StillCovered DEF PutLands, TypeOK
<1>11. ASSUME NEW key \in Keys, PutDropped(key) PROVE LedgerCoversStore'
  BY <1>11, StillCovered DEF PutDropped, TypeOK
<1> QED
  BY <1>1, <1>2, <1>3, <1>4, <1>5, <1>6, <1>7, <1>8, <1>9, <1>10, <1>11
     DEF vars, Next, Attempt, Clean, Decide, ClearManifest, BeginValidating, Reserve, PutStored,
         ReadBack, ReadBackMismatch, SendCommit, CommitAnswered, CommitUnanswered, AttemptFails,
         FindSucceeded, FindUnfinished, FailRender, FailRefused, Heartbeat, Crash, Claim,
         Recover, Requeue, CommitRollsBack, ExpireOrphan, Stall

\* Deleting the keys of one attempt leaves those of the others.
LEMMA OthersStay ==
    ASSUME NEW j \in Jobs, NEW f \in Fences, NEW k \in Formats, NEW j2 \in Jobs, NEW f2 \in Fences,
           j # j2 \/ f # f2, objects \ {Key(j, f, k)} \subseteq objects', KeysOf(j2, f2) \subseteq objects
    PROVE  KeysOf(j2, f2) \subseteq objects'
  BY KeyFacts DEF KeysOf

\* Where no object goes, no row changes and no worker reads back, attempts stay complete.
LEMMA StillComplete ==
    ASSUME AttemptsComplete, objects \subseteq objects', UNCHANGED ledger,
           \A w \in RenderWorkers : pc'[w] = "readback" =>
                pc[w] = "readback" /\ UNCHANGED <<job[w], held[w]>>
    PROVE  AttemptsComplete'
  BY DEF AttemptsComplete, AttemptRow, KeysOf

\* Nobody deletes an object of an attempt that is validated, or that its worker has read back.
LEMMA StepAttemptsComplete ==
    ASSUME TypeOK, WorkerShape, AttemptsApart, LedgerFollowsWorkers, CommitFindsRow,
           RevisionsMatchJobs, AttemptsComplete, [Next]_vars
    PROVE  AttemptsComplete'
<1>1. CASE UNCHANGED <<pc, job, held, ledger, objects>>
  BY <1>1 DEF AttemptsComplete, AttemptRow, KeysOf
<1>2. ASSUME NEW w \in RenderWorkers, ClearManifest(w) PROVE AttemptsComplete'
  BY <1>2, StillComplete DEF ClearManifest, TypeOK
<1>3. ASSUME NEW w \in RenderWorkers, BeginValidating(w) PROVE AttemptsComplete'
  BY <1>3, StillComplete DEF BeginValidating, TypeOK
<1>4. ASSUME NEW w \in RenderWorkers, Reserve(w) PROVE AttemptsComplete'
  BY <1>4, StillComplete DEF Reserve, TypeOK
<1>5. ASSUME NEW w \in RenderWorkers, RecordAttempt(w) PROVE AttemptsComplete'
  <2>1. job[w] \in Jobs /\ held[w] \in Fences /\ RowFits(w) /\ pc[w] = "reserved"
    BY <1>5 DEF RecordAttempt, WorkerShape, LedgerFollowsWorkers
  <2>2. /\ pc' = [pc EXCEPT ![w] = "writing"] /\ UNCHANGED <<job, held, objects>>
        /\ ledger' = [ledger EXCEPT ![job[w]][held[w]] = "writing"]
    BY <1>5 DEF RecordAttempt
  <2>3. /\ ledger'[job[w]][held[w]] = "writing" /\ ledger[job[w]][held[w]] = "none"
        /\ \A k \in Jobs, g \in Fences : k # job[w] \/ g # held[w] => ledger'[k][g] = ledger[k][g]
    BY <2>1, <2>2, Marked DEF TypeOK, LedgerStatus, RowFits, AttemptRow, BeforeRecord
  <2>4. ASSUME NEW v \in RenderWorkers, pc'[v] = "readback", AttemptRow(v)' = "writing"
        PROVE  KeysOf(job'[v], held'[v]) \subseteq objects'
    <3>1. v # w /\ pc[v] = "readback" /\ job[v] \in Jobs /\ held[v] \in Fences /\ RowFits(v)
      BY <2>2, <2>4 DEF TypeOK, WorkerShape, LedgerFollowsWorkers
    <3>2. AttemptRow(v) = "writing"
      BY <2>2, <2>3, <2>4, <3>1 DEF AttemptRow, RowFits, Recorded
    <3> QED
      BY <2>2, <3>1, <3>2 DEF AttemptsComplete
  <2>5. ASSUME NEW k \in Jobs, NEW g \in Fences, ledger'[k][g] \in {"validated", "published"}
        PROVE  KeysOf(k, g) \subseteq objects'
    BY <2>2, <2>3, <2>5 DEF AttemptsComplete
  <2> QED
    BY <2>2, <2>4, <2>5 DEF AttemptsComplete, KeysOf
<1>6. ASSUME NEW w \in RenderWorkers, StartPut(w) PROVE AttemptsComplete'
  BY <1>6, StillComplete DEF StartPut, TypeOK
<1>7. ASSUME NEW w \in RenderWorkers, PutStored(w) PROVE AttemptsComplete'
  BY <1>7, StillComplete DEF PutStored, TypeOK
<1>8. ASSUME NEW w \in RenderWorkers, PutFenced(w) PROVE AttemptsComplete'
  <2>1. job[w] \in Jobs /\ held[w] \in Fences /\ RowFits(w) /\ pc[w] = "putting" /\ pos[w] \in Formats
    BY <1>8 DEF PutFenced, WorkerShape, LedgerFollowsWorkers, TypeOK, Formats
  <2>2. /\ UNCHANGED <<job, held, ledger>> /\ \A v \in RenderWorkers : v # w => pc'[v] = pc[v]
        /\ pc'[w] # "readback"
        /\ objects \ {Key(job[w], held[w], pos[w])} \subseteq objects'
    BY <1>8 DEF PutFenced, TypeOK
  <2>3. ledger[job[w]][held[w]] \in {"writing", "deleting", "deleted"}
    BY <2>1 DEF RowFits, AttemptRow, Recorded
  <2>4. ASSUME NEW v \in RenderWorkers, pc'[v] = "readback", AttemptRow(v)' = "writing"
        PROVE  KeysOf(job[v], held[v]) \subseteq objects'
    <3>1. v # w /\ pc[v] = "readback" /\ AttemptRow(v) = "writing"
      BY <2>2, <2>4 DEF AttemptRow
    <3>2. job[v] \in Jobs /\ held[v] \in Fences /\ KeysOf(job[v], held[v]) \subseteq objects
      BY <3>1 DEF WorkerShape, AttemptsComplete
    <3>3. job[v] # job[w] \/ held[v] # held[w]
      BY <2>1, <3>1 DEF AttemptsApart, Attempting, Stage
    <3> QED
      BY <2>1, <2>2, <3>2, <3>3, OthersStay
  <2>5. ASSUME NEW k \in Jobs, NEW g \in Fences, ledger[k][g] \in {"validated", "published"}
        PROVE  KeysOf(k, g) \subseteq objects'
    <3>1. KeysOf(k, g) \subseteq objects
      BY <2>5 DEF AttemptsComplete
    <3> QED
      BY <2>1, <2>2, <2>3, <2>5, <3>1, OthersStay
  <2> QED
    BY <2>2, <2>4, <2>5 DEF AttemptsComplete, KeysOf
<1>9. ASSUME NEW w \in RenderWorkers, ReadBack(w) PROVE AttemptsComplete'
  <2>1. /\ pc' = [pc EXCEPT ![w] = "readback"] /\ UNCHANGED <<job, held, ledger, objects>>
        /\ KeysOf(job[w], held[w]) \subseteq objects
    BY <1>9 DEF ReadBack
  <2> QED
    BY <2>1 DEF AttemptsComplete, AttemptRow, KeysOf, TypeOK
<1>10. ASSUME NEW w \in RenderWorkers, ReadBackMismatch(w) PROVE AttemptsComplete'
  BY <1>10, StillComplete DEF ReadBackMismatch, TypeOK
<1>11. ASSUME NEW w \in RenderWorkers, ValidateAttempt(w) PROVE AttemptsComplete'
  <2>1. /\ job[w] \in Jobs /\ held[w] \in Fences
        /\ KeysOf(job[w], held[w]) \subseteq objects
    BY <1>11 DEF ValidateAttempt, WorkerShape, AttemptsComplete, AttemptIs, AttemptRow
  <2>2. /\ UNCHANGED objects /\ ledger' = [ledger EXCEPT ![job[w]][held[w]] = "validated"]
        /\ \A v \in RenderWorkers : pc'[v] = "readback" =>
              pc[v] = "readback" /\ UNCHANGED <<job[v], held[v]>>
    BY <1>11 DEF ValidateAttempt, TypeOK
  <2>3. /\ ledger'[job[w]][held[w]] = "validated"
        /\ \A k \in Jobs, g \in Fences : k # job[w] \/ g # held[w] => ledger'[k][g] = ledger[k][g]
    BY <2>1, <2>2, Marked DEF TypeOK, LedgerStatus
  <2>4. ASSUME NEW v \in RenderWorkers, pc'[v] = "readback", AttemptRow(v)' = "writing"
        PROVE  KeysOf(job'[v], held'[v]) \subseteq objects'
    <3>1. pc[v] = "readback" /\ UNCHANGED <<job[v], held[v]>> /\ job[v] \in Jobs /\ held[v] \in Fences
      BY <2>2, <2>4 DEF WorkerShape
    <3>2. AttemptRow(v) = "writing"
      BY <2>3, <2>4, <3>1 DEF AttemptRow
    <3> QED
      BY <2>2, <3>1, <3>2 DEF AttemptsComplete
  <2>5. ASSUME NEW k \in Jobs, NEW g \in Fences, ledger'[k][g] \in {"validated", "published"}
        PROVE  KeysOf(k, g) \subseteq objects'
    <3>1. CASE k = job[w] /\ g = held[w]
      BY <2>1, <2>2, <2>3, <2>5, <3>1
    <3>2. CASE k # job[w] \/ g # held[w]
      BY <2>2, <2>3, <2>5, <3>2 DEF AttemptsComplete
    <3> QED
      BY <3>1, <3>2
  <2> QED
    BY <2>2, <2>4, <2>5 DEF AttemptsComplete, KeysOf
<1>12. ASSUME NEW w \in RenderWorkers, SendCommit(w) PROVE AttemptsComplete'
  BY <1>12, StillComplete DEF SendCommit, TypeOK
<1>13. ASSUME NEW w \in RenderWorkers, CommitAnswered(w) PROVE AttemptsComplete'
  BY <1>13, StillComplete DEF CommitAnswered, TypeOK
<1>14. ASSUME NEW w \in RenderWorkers, CommitUnanswered(w) PROVE AttemptsComplete'
  BY <1>14, StillComplete DEF CommitUnanswered, TypeOK
<1>15. ASSUME NEW w \in RenderWorkers, AttemptFails(w) PROVE AttemptsComplete'
  BY <1>15, StillComplete DEF AttemptFails, TypeOK
<1>16. ASSUME NEW w \in RenderWorkers, FindSucceeded(w) PROVE AttemptsComplete'
  BY <1>16, StillComplete DEF FindSucceeded, TypeOK
<1>17. ASSUME NEW w \in RenderWorkers, FindUnfinished(w) PROVE AttemptsComplete'
  BY <1>17, StillComplete DEF FindUnfinished, TypeOK
<1>18. ASSUME NEW w \in RenderWorkers, FailRender(w) PROVE AttemptsComplete'
  BY <1>18, StillComplete DEF FailRender, TypeOK
<1>19. ASSUME NEW w \in RenderWorkers, FailRefused(w) PROVE AttemptsComplete'
  BY <1>19, StillComplete DEF FailRefused, TypeOK
<1>20. ASSUME NEW w \in RenderWorkers, DeleteCandidate(w) PROVE AttemptsComplete'
  <2>1. job[w] \in Jobs /\ held[w] \in Fences /\ RowFits(w) /\ pc[w] = "cleaning" /\ pos[w] \in Formats
    BY <1>20 DEF DeleteCandidate, WorkerShape, LedgerFollowsWorkers, TypeOK, Formats
  <2>2. /\ UNCHANGED <<job, held, ledger>> /\ \A v \in RenderWorkers : v # w => pc'[v] = pc[v]
        /\ pc'[w] # "readback"
        /\ objects \ {Key(job[w], held[w], pos[w])} \subseteq objects'
    BY <1>20 DEF DeleteCandidate, TypeOK
  <2>3. ledger[job[w]][held[w]] \in {"writing", "deleting", "deleted"}
    BY <2>1 DEF RowFits, AttemptRow, Recorded
  <2>4. ASSUME NEW v \in RenderWorkers, pc'[v] = "readback", AttemptRow(v)' = "writing"
        PROVE  KeysOf(job[v], held[v]) \subseteq objects'
    <3>1. v # w /\ pc[v] = "readback" /\ AttemptRow(v) = "writing"
      BY <2>2, <2>4 DEF AttemptRow
    <3>2. job[v] \in Jobs /\ held[v] \in Fences /\ KeysOf(job[v], held[v]) \subseteq objects
      BY <3>1 DEF WorkerShape, AttemptsComplete
    <3>3. job[v] # job[w] \/ held[v] # held[w]
      BY <2>1, <3>1, <2>3 DEF RowFits, AttemptRow
    <3> QED
      BY <2>1, <2>2, <3>2, <3>3, OthersStay
  <2>5. ASSUME NEW k \in Jobs, NEW g \in Fences, ledger[k][g] \in {"validated", "published"}
        PROVE  KeysOf(k, g) \subseteq objects'
    <3>1. KeysOf(k, g) \subseteq objects
      BY <2>5 DEF AttemptsComplete
    <3> QED
      BY <2>1, <2>2, <2>3, <2>5, <3>1, OthersStay
  <2> QED
    BY <2>2, <2>4, <2>5 DEF AttemptsComplete, KeysOf
<1>21. ASSUME NEW w \in RenderWorkers, MarkDeleted(w) PROVE AttemptsComplete'
  <2>1. /\ UNCHANGED objects
        /\ \A v \in RenderWorkers : pc'[v] = "readback" =>
              pc[v] = "readback" /\ UNCHANGED <<job[v], held[v]>>
    BY <1>21 DEF MarkDeleted, TypeOK
  <2>2. \A k \in Jobs, g \in Fences : ledger'[k][g] = ledger[k][g] \/ ledger'[k][g] = "deleted"
    BY <1>21 DEF MarkDeleted, TypeOK
  <2>3. \A v \in RenderWorkers : pc[v] = "readback" => job[v] \in Jobs /\ held[v] \in Fences
    BY DEF WorkerShape
  <2> QED
    BY <2>1, <2>2, <2>3 DEF AttemptsComplete, AttemptRow, KeysOf
<1>22. ASSUME NEW w \in RenderWorkers, Crash(w) PROVE AttemptsComplete'
  BY <1>22, StillComplete DEF Crash, TypeOK
<1>23. ASSUME NEW w \in RenderWorkers, NEW j \in Jobs, Claim(w, j) PROVE AttemptsComplete'
  BY <1>23, StillComplete DEF Claim, TypeOK
<1>24. ASSUME NEW w \in RenderWorkers, NEW j \in Jobs, NEW f \in Fences, MarkOrphan(w, j, f)
       PROVE AttemptsComplete'
  <2>1. /\ j \in Jobs /\ f \in Fences
    BY <1>24 DEF MarkOrphan
  <2>2. /\ UNCHANGED objects /\ ledger' = [ledger EXCEPT ![j][f] = "deleting"]
        /\ \A v \in RenderWorkers : pc'[v] = "readback" =>
              pc[v] = "readback" /\ UNCHANGED <<job[v], held[v]>>
    BY <1>24, OrphanTaken DEF TypeOK
  <2>3. /\ ledger'[j][f] = "deleting"
        /\ \A k \in Jobs, g \in Fences : k # j \/ g # f => ledger'[k][g] = ledger[k][g]
    BY <2>1, <2>2, Marked DEF TypeOK, LedgerStatus
  <2>4. ASSUME NEW v \in RenderWorkers, pc'[v] = "readback", AttemptRow(v)' = "writing"
        PROVE  KeysOf(job'[v], held'[v]) \subseteq objects'
    <3>1. pc[v] = "readback" /\ UNCHANGED <<job[v], held[v]>> /\ job[v] \in Jobs /\ held[v] \in Fences
      BY <2>2, <2>4 DEF WorkerShape
    <3>2. AttemptRow(v) = "writing"
      BY <2>3, <2>4, <3>1 DEF AttemptRow
    <3> QED
      BY <2>2, <3>1, <3>2 DEF AttemptsComplete
  <2>5. ASSUME NEW k \in Jobs, NEW g \in Fences, ledger'[k][g] \in {"validated", "published"}
        PROVE  KeysOf(k, g) \subseteq objects'
    <3>1. CASE k = j /\ g = f
      BY <2>1, <2>2, <2>3, <2>5, <3>1
    <3>2. CASE k # j \/ g # f
      BY <2>2, <2>3, <2>5, <3>2 DEF AttemptsComplete
    <3> QED
      BY <3>1, <3>2
  <2> QED
    BY <2>2, <2>4, <2>5 DEF AttemptsComplete, KeysOf
<1>25. ASSUME NEW j \in Jobs, CommitTakesEffect(j) PROVE AttemptsComplete'
  <2>1. /\ manifest[j] \in Fences /\ KeysOf(j, manifest[j]) \subseteq objects
    BY <1>25 DEF CommitTakesEffect, CommitFindsRow, AttemptsComplete
  <2>2. /\ UNCHANGED objects /\ ledger' = [ledger EXCEPT ![j][manifest[j]] = "published"]
        /\ \A v \in RenderWorkers : pc'[v] = "readback" =>
              pc[v] = "readback" /\ UNCHANGED <<job[v], held[v]>>
    BY <1>25 DEF CommitTakesEffect, TypeOK
  <2>3. /\ ledger'[j][manifest[j]] = "published"
        /\ \A k \in Jobs, g \in Fences : k # j \/ g # manifest[j] => ledger'[k][g] = ledger[k][g]
    BY <2>1, <2>2, Marked DEF TypeOK, LedgerStatus
  <2>4. ASSUME NEW v \in RenderWorkers, pc'[v] = "readback", AttemptRow(v)' = "writing"
        PROVE  KeysOf(job'[v], held'[v]) \subseteq objects'
    <3>1. pc[v] = "readback" /\ UNCHANGED <<job[v], held[v]>> /\ job[v] \in Jobs /\ held[v] \in Fences
      BY <2>2, <2>4 DEF WorkerShape
    <3>2. AttemptRow(v) = "writing"
      BY <2>3, <2>4, <3>1 DEF AttemptRow
    <3> QED
      BY <2>2, <3>1, <3>2 DEF AttemptsComplete
  <2>5. ASSUME NEW k \in Jobs, NEW g \in Fences, ledger'[k][g] \in {"validated", "published"}
        PROVE  KeysOf(k, g) \subseteq objects'
    <3>1. CASE k = j /\ g = manifest[j]
      BY <2>1, <2>2, <2>3, <2>5, <3>1
    <3>2. CASE k # j \/ g # manifest[j]
      BY <2>2, <2>3, <2>5, <3>2 DEF AttemptsComplete
    <3> QED
      BY <3>1, <3>2
  <2> QED
    BY <2>2, <2>4, <2>5 DEF AttemptsComplete, KeysOf
<1>26. ASSUME NEW key \in Keys, PutLands(key) PROVE AttemptsComplete'
  BY <1>26, StillComplete DEF PutLands, TypeOK
<1> QED
  BY <1>1, <1>2, <1>3, <1>4, <1>5, <1>6, <1>7, <1>8, <1>9, <1>10, <1>11, <1>12, <1>13, <1>14,
     <1>15, <1>16, <1>17, <1>18, <1>19, <1>20, <1>21, <1>22, <1>23, <1>24, <1>25, <1>26
     DEF vars, Next, Attempt, Clean, Decide, Heartbeat, Recover, Requeue, CommitRollsBack,
         ExpireOrphan, Stall, PutDropped

\* Until the server decides, the row of the job and the attempt it publishes are locked.
LEMMA StepCommitFindsRow ==
    ASSUME TypeOK, WorkerShape, LedgerFollowsWorkers, CommitFindsRow, RevisionsMatchJobs,
           [Next]_vars
    PROVE  CommitFindsRow'
<1>1. CASE UNCHANGED <<status, commit, manifest, ledger, reserved>>
  BY <1>1 DEF CommitFindsRow
<1>2. ASSUME NEW w \in RenderWorkers, ClearManifest(w) PROVE CommitFindsRow'
  BY <1>2 DEF ClearManifest, CommitFindsRow, Unlocked, TypeOK, WorkerShape, RenderRunning
<1>3. ASSUME NEW w \in RenderWorkers, BeginValidating(w) PROVE CommitFindsRow'
  BY <1>3 DEF BeginValidating, CommitFindsRow, Unlocked, TypeOK, WorkerShape, RenderRunning
<1>4. ASSUME NEW w \in RenderWorkers, Reserve(w) PROVE CommitFindsRow'
  <2>1. job[w] \in Jobs /\ commit[job[w]] = None
    BY <1>4 DEF Reserve, WorkerShape, Unlocked
  <2>2. UNCHANGED <<commit, status, manifest, ledger>> /\ \A k \in Jobs : k # job[w] => reserved'[k] = reserved[k]
    BY <1>4 DEF Reserve, TypeOK
  <2> QED
    BY <2>1, <2>2 DEF CommitFindsRow
<1>5. ASSUME NEW w \in RenderWorkers, RecordAttempt(w) PROVE CommitFindsRow'
  <2>1. job[w] \in Jobs /\ held[w] \in Fences /\ RowFits(w) /\ commit[job[w]] = None
    BY <1>5 DEF RecordAttempt, WorkerShape, LedgerFollowsWorkers, Unlocked
  <2>2. \A k \in Jobs, g \in Fences : k # job[w] => ledger'[k][g] = ledger[k][g]
    BY <1>5, <2>1, Marked DEF RecordAttempt, TypeOK, LedgerStatus
  <2>3. UNCHANGED <<commit, status, reserved>> /\ \A k \in Jobs : k # job[w] => manifest'[k] = manifest[k]
    BY <1>5 DEF RecordAttempt, TypeOK
  <2> QED
    BY <2>1, <2>2, <2>3 DEF CommitFindsRow
<1>6. ASSUME NEW w \in RenderWorkers, ValidateAttempt(w) PROVE CommitFindsRow'
  <2>1. job[w] \in Jobs /\ held[w] \in Fences /\ RowFits(w) /\ commit[job[w]] = None
    BY <1>6 DEF ValidateAttempt, WorkerShape, LedgerFollowsWorkers, Unlocked
  <2>2. \A k \in Jobs, g \in Fences : k # job[w] => ledger'[k][g] = ledger[k][g]
    BY <1>6, <2>1, Marked DEF ValidateAttempt, TypeOK, LedgerStatus
  <2>3. UNCHANGED <<commit, status, reserved>> /\ \A k \in Jobs : k # job[w] => manifest'[k] = manifest[k]
    BY <1>6 DEF ValidateAttempt, TypeOK
  <2> QED
    BY <2>1, <2>2, <2>3 DEF CommitFindsRow
<1>7. ASSUME NEW w \in RenderWorkers, SendCommit(w) PROVE CommitFindsRow'
  <2>1. job[w] \in Jobs /\ held[w] \in Fences /\ number[w] # 0
    BY <1>7 DEF SendCommit, WorkerShape, WithNumber
  <2>2. /\ status[job[w]] \in RenderRunning /\ manifest[job[w]] = held[w]
        /\ ledger[job[w]][held[w]] = "validated" /\ reserved[job[w]] = number[w]
    BY <1>7 DEF SendCommit, Publishable, OwnsRunningLease, AttemptIs
  <2>3. /\ UNCHANGED <<status, reserved, manifest, ledger>>
        /\ \A k \in Jobs : k # job[w] => commit'[k] = commit[k]
    BY <1>7 DEF SendCommit, TypeOK
  <2> QED
    BY <2>1, <2>2, <2>3 DEF CommitFindsRow
<1>8. ASSUME NEW w \in RenderWorkers, FailRender(w) PROVE CommitFindsRow'
  BY <1>8 DEF FailRender, CommitFindsRow, Unlocked, TypeOK, WorkerShape, RenderRunning
<1>9. ASSUME NEW w \in RenderWorkers, MarkDeleted(w) PROVE CommitFindsRow'
  <2>1. \A k \in Jobs, g \in Fences : ledger'[k][g] = ledger[k][g] \/ ledger[k][g] = "deleting"
    BY <1>9 DEF MarkDeleted, TypeOK
  <2> QED
    BY <1>9, <2>1 DEF MarkDeleted, CommitFindsRow
<1>10. ASSUME NEW w \in RenderWorkers, NEW j \in Jobs, NEW f \in Fences, MarkOrphan(w, j, f)
       PROVE CommitFindsRow'
  <2>1. commit[j] = None
    BY <1>10 DEF MarkOrphan, Unlocked
  <2>2. \A k \in Jobs, g \in Fences : k # j => ledger'[k][g] = ledger[k][g]
    BY <1>10, OrphanTaken, Marked DEF TypeOK, LedgerStatus
  <2>3. UNCHANGED <<commit, status, reserved, manifest>>
    BY <1>10, OrphanTaken
  <2> QED
    BY <2>1, <2>2, <2>3 DEF CommitFindsRow
<1>11. ASSUME NEW j \in Jobs, Recover(j) PROVE CommitFindsRow'
  BY <1>11 DEF Recover, CommitFindsRow, Unlocked, TypeOK, RenderRunning
<1>12. ASSUME NEW j \in Jobs, Requeue(j) PROVE CommitFindsRow'
  BY <1>12 DEF Requeue, CommitFindsRow, Unlocked, TypeOK, RenderRunning
<1>13. ASSUME NEW j \in Jobs, CommitTakesEffect(j) PROVE CommitFindsRow'
  <2>1. manifest[j] \in Fences
    BY <1>13 DEF CommitTakesEffect, CommitFindsRow
  <2>2. \A k \in Jobs, g \in Fences : k # j => ledger'[k][g] = ledger[k][g]
    BY <1>13, <2>1, Marked DEF CommitTakesEffect, TypeOK, LedgerStatus
  <2>3. /\ UNCHANGED <<reserved, manifest>> /\ commit'[j] = None
        /\ \A k \in Jobs : k # j => commit'[k] = commit[k] /\ status'[k] = status[k]
    BY <1>13 DEF CommitTakesEffect, TypeOK
  <2> QED
    BY <2>2, <2>3 DEF CommitFindsRow
<1>14. ASSUME NEW j \in Jobs, CommitRollsBack(j) PROVE CommitFindsRow'
  BY <1>14 DEF CommitRollsBack, CommitFindsRow, Unlocked, TypeOK, RenderRunning
<1> QED
  BY <1>1, <1>2, <1>3, <1>4, <1>5, <1>6, <1>7, <1>8, <1>9, <1>10, <1>11, <1>12, <1>13, <1>14
     DEF vars, Next, Attempt, Clean, Decide, StartPut, PutStored, PutFenced, ReadBack,
         ReadBackMismatch, CommitAnswered, CommitUnanswered, AttemptFails, FindSucceeded,
         FindUnfinished, FailRefused, Heartbeat, DeleteCandidate, Crash, Claim, ExpireOrphan,
         Stall, PutLands, PutDropped

\* A status that is not running is written with the lease removed.
LEMMA StepOwnerRuns == ASSUME TypeOK, OwnerRuns, [Next]_vars PROVE OwnerRuns'
<1>1. CASE UNCHANGED <<owner, status>>
  BY <1>1 DEF OwnerRuns
<1>2. ASSUME NEW w \in RenderWorkers, BeginValidating(w) PROVE OwnerRuns'
  BY <1>2 DEF BeginValidating, OwnerRuns, TypeOK, RenderRunning
<1>3. ASSUME NEW w \in RenderWorkers, FailRender(w) PROVE OwnerRuns'
  BY <1>3 DEF FailRender, OwnerRuns, TypeOK, RenderRunning
<1>4. ASSUME NEW w \in RenderWorkers, NEW j \in Jobs, Claim(w, j) PROVE OwnerRuns'
  BY <1>4 DEF Claim, OwnerRuns, TypeOK, RenderRunning
<1>5. ASSUME NEW j \in Jobs, Recover(j) PROVE OwnerRuns'
  BY <1>5 DEF Recover, OwnerRuns, TypeOK, RenderRunning
<1>6. ASSUME NEW j \in Jobs, Requeue(j) PROVE OwnerRuns'
  BY <1>6 DEF Requeue, OwnerRuns, TypeOK, RenderRunning
<1>7. ASSUME NEW j \in Jobs, CommitTakesEffect(j) PROVE OwnerRuns'
  BY <1>7 DEF CommitTakesEffect, OwnerRuns, TypeOK, RenderRunning
<1>8. ASSUME NEW w \in RenderWorkers, Attempt(w), ~BeginValidating(w), ~FailRender(w)
      PROVE  UNCHANGED <<owner, status>>
  BY <1>8 DEF Attempt, ClearManifest, Reserve, RecordAttempt, StartPut, PutStored, PutFenced,
     ReadBack, ReadBackMismatch, ValidateAttempt, SendCommit, CommitAnswered, CommitUnanswered,
     AttemptFails, FindSucceeded, FindUnfinished, FailRefused
<1> QED
  BY <1>1, <1>2, <1>3, <1>4, <1>5, <1>6, <1>7, <1>8
     DEF vars, Next, Clean, Decide, Heartbeat, DeleteCandidate, MarkDeleted, Crash, MarkOrphan,
         CommitRollsBack, ExpireOrphan, Stall, PutLands, PutDropped

\* Where succeeded jobs keep their state and number, and published attempts theirs, revisions
\* go on matching their jobs.
LEMMA StillMatching ==
    ASSUME TypeOK, RevisionsMatchJobs, UNCHANGED revisions,
           \A j \in Jobs : status[j] = "succeeded" <=> status'[j] = "succeeded",
           \A j \in Jobs : status[j] = "succeeded" => reserved'[j] = reserved[j] \/ reserved[j] = 0,
           \A j \in Jobs, f \in Fences : ledger[j][f] = "published" => ledger'[j][f] = "published"
    PROVE  RevisionsMatchJobs'
<1>1. \A r \in revisions : r.job \in Jobs /\ r.attempt \in Fences
  BY DEF TypeOK
<1> QED
  BY <1>1 DEF RevisionsMatchJobs

\* A publication adds the revision of a running job, which thereby has succeeded for good.
LEMMA StepRevisionsMatchJobs ==
    ASSUME TypeOK, WorkerShape, LedgerFollowsWorkers, CommitFindsRow, OwnerRuns,
           RevisionsMatchJobs, [Next]_vars
    PROVE  RevisionsMatchJobs'
<1>1. CASE UNCHANGED <<status, reserved, ledger, revisions>>
  BY <1>1 DEF RevisionsMatchJobs
<1>2. ASSUME NEW w \in RenderWorkers, BeginValidating(w) PROVE RevisionsMatchJobs'
  <2>1. job[w] \in Jobs /\ owner[job[w]] # None
    BY <1>2 DEF BeginValidating, WorkerShape
  <2>2. \A k \in Jobs : status[k] = "succeeded" <=> status'[k] = "succeeded"
    BY <1>2, <2>1 DEF BeginValidating, TypeOK, OwnerRuns, RenderRunning
  <2> QED
    BY <1>2, <2>2, StillMatching DEF BeginValidating
<1>3. ASSUME NEW w \in RenderWorkers, Reserve(w) PROVE RevisionsMatchJobs'
  <2>1. job[w] \in Jobs /\ (reserved[job[w]] # 0 => Given(job[w]) = reserved[job[w]])
    BY <1>3 DEF Reserve, WorkerShape, Given
  <2>2. \A k \in Jobs : reserved'[k] = reserved[k] \/ reserved[k] = 0
    BY <1>3, <2>1 DEF Reserve, TypeOK
  <2> QED
    BY <1>3, <2>2, StillMatching DEF Reserve
<1>4. ASSUME NEW w \in RenderWorkers, RecordAttempt(w) PROVE RevisionsMatchJobs'
  <2>1. /\ job[w] \in Jobs /\ held[w] \in Fences
        /\ ledger[job[w]][held[w]] = "none"
    BY <1>4 DEF RecordAttempt, WorkerShape, LedgerFollowsWorkers, RowFits, AttemptRow,
       BeforeRecord
  <2>2. \A k \in Jobs, g \in Fences : ledger[k][g] = "published" => ledger'[k][g] = "published"
    BY <1>4, <2>1, Marked DEF RecordAttempt, TypeOK, LedgerStatus
  <2> QED
    BY <1>4, <2>2, StillMatching DEF RecordAttempt
<1>5. ASSUME NEW w \in RenderWorkers, ValidateAttempt(w) PROVE RevisionsMatchJobs'
  <2>1. /\ job[w] \in Jobs /\ held[w] \in Fences
        /\ ledger[job[w]][held[w]] = "writing"
    BY <1>5 DEF ValidateAttempt, WorkerShape, AttemptIs
  <2>2. \A k \in Jobs, g \in Fences : ledger[k][g] = "published" => ledger'[k][g] = "published"
    BY <1>5, <2>1, Marked DEF ValidateAttempt, TypeOK, LedgerStatus
  <2> QED
    BY <1>5, <2>2, StillMatching DEF ValidateAttempt
<1>6. ASSUME NEW w \in RenderWorkers, FailRender(w) PROVE RevisionsMatchJobs'
  <2>1. job[w] \in Jobs /\ owner[job[w]] # None
    BY <1>6 DEF FailRender, WorkerShape
  <2>2. \A k \in Jobs : status[k] = "succeeded" <=> status'[k] = "succeeded"
    BY <1>6, <2>1 DEF FailRender, TypeOK, OwnerRuns, RenderRunning
  <2> QED
    BY <1>6, <2>2, StillMatching DEF FailRender
<1>7. ASSUME NEW w \in RenderWorkers, MarkDeleted(w) PROVE RevisionsMatchJobs'
  <2>1. \A k \in Jobs, g \in Fences : ledger[k][g] = "published" => ledger'[k][g] = "published"
    BY <1>7 DEF MarkDeleted, TypeOK
  <2> QED
    BY <1>7, <2>1, StillMatching DEF MarkDeleted
<1>8. ASSUME NEW w \in RenderWorkers, NEW j \in Jobs, NEW f \in Fences, MarkOrphan(w, j, f)
      PROVE RevisionsMatchJobs'
  <2>1. /\ ledger[j][f] # "published" /\ ledger' = [ledger EXCEPT ![j][f] = "deleting"]
        /\ UNCHANGED <<status, reserved, revisions>>
    BY <1>8, OrphanTaken DEF Cleanable
  <2>2. \A k \in Jobs, g \in Fences : ledger[k][g] = "published" => ledger'[k][g] = "published"
    BY <2>1, Marked DEF TypeOK, LedgerStatus
  <2> QED
    BY <2>1, <2>2, StillMatching
<1>9. ASSUME NEW j \in Jobs, Recover(j) PROVE RevisionsMatchJobs'
  <2>1. \A k \in Jobs : status[k] = "succeeded" <=> status'[k] = "succeeded"
    BY <1>9 DEF Recover, TypeOK, RenderRunning
  <2> QED
    BY <1>9, <2>1, StillMatching DEF Recover
<1>10. ASSUME NEW j \in Jobs, Requeue(j) PROVE RevisionsMatchJobs'
  <2>1. \A k \in Jobs : status[k] = "succeeded" <=> status'[k] = "succeeded"
    BY <1>10 DEF Requeue, TypeOK, RenderRunning
  <2> QED
    BY <1>10, <2>1, StillMatching DEF Requeue
<1>11. ASSUME NEW j \in Jobs, CommitTakesEffect(j) PROVE RevisionsMatchJobs'
  <2> DEFINE new == [job |-> j, artifact |-> ArtifactOf[j], number |-> reserved[j], attempt |-> manifest[j]]
  <2>1. /\ status[j] # "succeeded" /\ manifest[j] \in Fences
        /\ ledger[j][manifest[j]] = "validated" /\ reserved[j] # 0
    BY <1>11 DEF CommitTakesEffect, CommitFindsRow, RenderRunning
  <2>2. /\ revisions' = revisions \cup {new} /\ UNCHANGED reserved
        /\ status'[j] = "succeeded" /\ \A k \in Jobs : k # j => status'[k] = status[k]
    BY <1>11 DEF CommitTakesEffect, TypeOK
  <2>3. /\ ledger'[j][manifest[j]] = "published"
        /\ \A k \in Jobs, g \in Fences : ledger[k][g] = "published" => ledger'[k][g] = "published"
    BY <1>11, <2>1, Marked DEF CommitTakesEffect, TypeOK, LedgerStatus
  <2>4. new.job = j /\ new.artifact = ArtifactOf[j] /\ new.number = reserved[j] /\ new.attempt = manifest[j]
    OBVIOUS
  <2> HIDE DEF new
  <2>5. \A r \in revisions : r.job \in Jobs /\ r.attempt \in Fences /\ r.job # j
    BY <2>1 DEF TypeOK, RevisionsMatchJobs
  <2>6. \A r \in revisions' :
          /\ ledger'[r.job][r.attempt] = "published"
          /\ r.artifact = ArtifactOf[r.job]
          /\ r.number = reserved'[r.job] /\ reserved'[r.job] # 0
          /\ status'[r.job] = "succeeded"
    BY <2>1, <2>2, <2>3, <2>4, <2>5 DEF RevisionsMatchJobs
  <2>7. \A r, q \in revisions' : r.job = q.job => r = q
    BY <2>2, <2>4, <2>5 DEF RevisionsMatchJobs
  <2>8. \A k \in Jobs : status'[k] = "succeeded" => \E r \in revisions' : r.job = k
    BY <2>2, <2>4 DEF RevisionsMatchJobs
  <2> QED
    BY <2>6, <2>7, <2>8 DEF RevisionsMatchJobs
<1> QED
  BY <1>1, <1>2, <1>3, <1>4, <1>5, <1>6, <1>7, <1>8, <1>9, <1>10, <1>11
     DEF vars, Next, Attempt, Clean, Decide, ClearManifest, StartPut, PutStored, PutFenced,
         ReadBack, ReadBackMismatch, SendCommit, CommitAnswered, CommitUnanswered, AttemptFails,
         FindSucceeded, FindUnfinished, FailRefused, Heartbeat, DeleteCandidate, Crash, Claim,
         CommitRollsBack, ExpireOrphan, Stall, PutLands, PutDropped

\* A reservation takes the next number of the artifact once for each edit.
LEMMA StepNumbersCounted == ASSUME Inv, [Next]_vars PROVE NumbersCounted'
<1>1. CASE UNCHANGED <<reserved, nextNumber>>
  BY <1>1 DEF Inv, NumbersCounted, Reserving
<1>2. ASSUME NEW w \in RenderWorkers, Reserve(w) PROVE NumbersCounted'
  <2> USE DEF Inv
  <2>1. job[w] \in Jobs /\ nextNumber[Base] \in Nat /\ Base \in Artifacts /\ reserved \in [Jobs -> Nat]
        /\ nextNumber \in [Artifacts -> Nat]
    BY <1>2 DEF Reserve, WorkerShape, TypeOK, Artifacts
  <2> DEFINE j == job[w]
  <2>2. IsFiniteSet(Reserving) /\ Cardinality(Reserving) \in Nat
    BY EditsAssumption, FS_Subset, FS_CardinalityType DEF Reserving
  <2>3. /\ Given(j) \in Nat /\ Given(j) # 0
        /\ reserved[j] # 0 => Given(j) = reserved[j]
        /\ reserved[j] = 0 /\ j \in Edits => Given(j) = nextNumber[Base]
        /\ j \in Creations => Given(j) = 1
    BY <2>1, GivenNumber
  <2>4. /\ reserved' = [reserved EXCEPT ![j] = Given(j)]
        /\ nextNumber' = IF reserved[j] = 0 /\ j \in Edits
                         THEN [nextNumber EXCEPT ![Base] = Given(j) + 1] ELSE nextNumber
    BY <1>2 DEF Reserve, ArtifactOf
  <2>5. CASE reserved[j] # 0
    <3>1. UNCHANGED <<reserved, nextNumber>>
      BY <2>1, <2>3, <2>4, <2>5
    <3> QED
      BY <3>1 DEF NumbersCounted, Reserving
  <2>6. CASE reserved[j] = 0 /\ j \in Edits
    <3>1. /\ reserved'[j] = nextNumber[Base] /\ nextNumber'[Base] = nextNumber[Base] + 1
          /\ \A k \in Jobs : k # j => reserved'[k] = reserved[k]
      BY <2>1, <2>3, <2>4, <2>6
    <3>2. Reserving' = Reserving \cup {j} /\ j \notin Reserving
      BY <2>1, <2>3, <2>6, <3>1 DEF Reserving
    <3>3. Cardinality(Reserving') = Cardinality(Reserving) + 1
      BY <2>2, <3>2, FS_AddElement
    <3>4. nextNumber[Base] = Cardinality(Reserving) + 2
      BY DEF NumbersCounted
    <3>5. nextNumber'[Base] = Cardinality(Reserving') + 2
      BY <2>2, <3>1, <3>3, <3>4
    <3>6. ASSUME NEW k \in Reserving' PROVE 1 < reserved'[k] /\ reserved'[k] < nextNumber'[Base]
      <4>1. CASE k = j
        BY <2>1, <2>2, <3>1, <3>4, <4>1
      <4>2. CASE k # j
        <5>1. k \in Reserving /\ reserved'[k] = reserved[k] /\ reserved[k] \in Nat
          BY <2>1, <3>1, <3>2, <3>6, <4>2 DEF Reserving
        <5> QED
          BY <2>1, <3>1, <5>1 DEF NumbersCounted
      <4> QED
        BY <4>1, <4>2
    <3>7. ASSUME NEW k \in Reserving', NEW m \in Reserving', k # m PROVE reserved'[k] # reserved'[m]
      <4>1. \A e \in Reserving : e \in Jobs /\ reserved[e] \in Nat /\ reserved[e] < nextNumber[Base]
        BY <2>1 DEF NumbersCounted, Reserving
      <4>2. \A e \in Reserving : e # j /\ reserved'[e] = reserved[e] /\ reserved'[e] # reserved'[j]
        BY <2>1, <3>1, <3>2, <4>1
      <4> QED
        BY <3>2, <3>7, <4>2 DEF NumbersCounted
    <3>8. \A k \in Creations : reserved'[k] \in {0, 1}
      BY <2>6, <3>1 DEF NumbersCounted
    <3> QED
      BY <3>5, <3>6, <3>7, <3>8 DEF NumbersCounted
  <2>7. CASE reserved[j] = 0 /\ j \in Creations
    <3>1. /\ UNCHANGED nextNumber /\ reserved'[j] = 1
          /\ \A k \in Jobs : k # j => reserved'[k] = reserved[k]
      BY <2>1, <2>3, <2>4, <2>7
    <3>2. Reserving' = Reserving
      BY <2>7, <3>1 DEF Reserving
    <3>3. \A k \in Reserving : reserved'[k] = reserved[k]
      BY <2>7, <3>1 DEF Reserving
    <3> QED
      BY <3>1, <3>2, <3>3 DEF NumbersCounted
  <2> QED
    BY <2>1, <2>5, <2>6, <2>7
<1>3. ASSUME NEW j \in Jobs, CommitTakesEffect(j) PROVE NumbersCounted'
  <2>1. UNCHANGED reserved /\ nextNumber'[Base] = nextNumber[Base]
    BY <1>3 DEF CommitTakesEffect, TypeOK, Artifacts, ArtifactOf
  <2> QED
    BY <2>1 DEF Inv, NumbersCounted, Reserving
<1>4. ASSUME NEW w \in RenderWorkers, Attempt(w), ~Reserve(w)
      PROVE  UNCHANGED <<reserved, nextNumber>>
  BY <1>4 DEF Attempt, ClearManifest, BeginValidating, RecordAttempt, StartPut, PutStored,
     PutFenced, ReadBack, ReadBackMismatch, ValidateAttempt, SendCommit, CommitAnswered,
     CommitUnanswered, AttemptFails, FindSucceeded, FindUnfinished, FailRender, FailRefused
<1>5. ASSUME NEW w \in RenderWorkers, Heartbeat(w) \/ Clean(w) \/ Crash(w)
      PROVE  UNCHANGED <<reserved, nextNumber>>
  BY <1>5 DEF Heartbeat, Clean, DeleteCandidate, MarkDeleted, Crash
<1> QED
  BY <1>1, <1>2, <1>3, <1>4, <1>5
     DEF vars, Next, Decide, Claim, MarkOrphan, Recover, Requeue, CommitRollsBack, ExpireOrphan,
         Stall, PutLands, PutDropped

-----------------------------------------------------------------------------
(* The theorems *)

\* The invariant holds in every state of the specification.
THEOREM Invariance == Spec => []Inv
<1>1. ASSUME Inv, [Next]_vars PROVE Inv'
  <2>1. /\ TypeOK /\ WorkerShape /\ AttemptsApart /\ LedgerFollowsWorkers /\ LedgerCoversStore
        /\ AttemptsComplete /\ CommitFindsRow /\ OwnerRuns /\ RevisionsMatchJobs
    BY <1>1 DEF Inv
  <2>2. TypeOK' /\ WorkerShape' /\ NumbersCounted'
    BY <1>1, StepType, StepWorkerShape, StepNumbersCounted
  <2>3. AttemptsApart' /\ LedgerFollowsWorkers'
    BY <1>1, <2>1, StepAttemptsApart, StepLedgerFollowsWorkers
  <2>4. LedgerCoversStore' /\ AttemptsComplete'
    BY <1>1, <2>1, StepLedgerCoversStore, StepAttemptsComplete
  <2>5. CommitFindsRow' /\ OwnerRuns' /\ RevisionsMatchJobs'
    BY <1>1, <2>1, StepCommitFindsRow, StepOwnerRuns, StepRevisionsMatchJobs
  <2> QED
    BY <2>2, <2>3, <2>4, <2>5 DEF Inv
<1> QED
  BY InitInv, <1>1, PTL DEF Spec

\* The columns, the object store and the workers' variables keep their types.
THEOREM TypeCorrect == Spec => []TypeOK
<1>1. Inv => TypeOK
  BY DEF Inv
<1> QED
  BY <1>1, Invariance, PTL

\* A published revision names an attempt the ledger calls published, and such an attempt is
\* complete in the store.
LEMMA InvReadable == Inv => PublishedOutputsReadable
  BY DEF Inv, TypeOK, AttemptsComplete, RevisionsMatchJobs, PublishedOutputsReadable

\* The outputs of a published revision can always be read: no cleaner, no fenced worker and no
\* late PUT takes one away, whatever crashes, expires or gets lost.
THEOREM OutputsStayReadable == Spec => []PublishedOutputsReadable
  BY InvReadable, Invariance, PTL

\* Whatever a dead worker leaves in the store, or on its way there, is in the ledger.
THEOREM NothingUnlisted == Spec => []LedgerCoversStore
<1>1. Inv => LedgerCoversStore
  BY DEF Inv
<1> QED
  BY <1>1, Invariance, PTL

\* A job that matches its revisions has one of them when it has succeeded, and none otherwise.
LEMMA InvPublishedOnce == Inv => SucceededIffPublished
<1> SUFFICES ASSUME Inv, NEW j \in Jobs
             PROVE  LET own == {r \in revisions : r.job = j}
                    IN  IF status[j] = "succeeded"
                        THEN Cardinality(own) = 1 /\ \A r \in own : r.number = reserved[j]
                        ELSE own = {}
  BY DEF SucceededIffPublished
<1> DEFINE own == {r \in revisions : r.job = j}
<1> USE DEF Inv, RevisionsMatchJobs
<1>1. CASE status[j] = "succeeded"
  <2>1. PICK r \in revisions : r.job = j
    BY <1>1
  <2>2. own = {r}
    BY <2>1
  <2>3. Cardinality(own) = 1
    BY <2>2, FS_Singleton
  <2>4. r.number = reserved[j]
    BY <2>1
  <2> QED
    BY <1>1, <2>2, <2>3, <2>4
<1>2. CASE status[j] # "succeeded"
  <2>1. own = {}
    BY <1>2
  <2> QED
    BY <1>2, <2>1
<1> QED
  BY <1>1, <1>2

\* A job has succeeded exactly when it has its one revision, under the number it reserved, also
\* when the answer to COMMIT was lost and the worker went on to record a failure.
THEOREM PublishedOnce == Spec => []SucceededIffPublished
  BY InvPublishedOnce, Invariance, PTL

-----------------------------------------------------------------------------
(* Publication implements the catalog *)

\* The catalog and its readable jobs, as the refinement sees them.
Published == {[job |-> r.job, artifact |-> r.artifact, number |-> r.number] : r \in revisions}
Readable == {j \in Jobs : \E r \in revisions : r.job = j /\ KeysOf(j, r.attempt) \subseteq objects}

\* Only a COMMIT that takes effect changes revisions and heads.
LEMMA OnlyCommits ==
    ASSUME [Next]_vars, ~ \E j \in Jobs : CommitTakesEffect(j)
    PROVE  UNCHANGED <<revisions, head>>
<1>1. ASSUME NEW w \in RenderWorkers, Attempt(w) PROVE UNCHANGED <<revisions, head>>
  BY <1>1 DEF Attempt, ClearManifest, BeginValidating, Reserve, RecordAttempt, StartPut,
     PutStored, PutFenced, ReadBack, ReadBackMismatch, ValidateAttempt, SendCommit,
     CommitAnswered, CommitUnanswered, AttemptFails, FindSucceeded, FindUnfinished, FailRender,
     FailRefused
<1>2. ASSUME NEW w \in RenderWorkers, Heartbeat(w) \/ Clean(w) \/ Crash(w)
      PROVE  UNCHANGED <<revisions, head>>
  BY <1>2 DEF Heartbeat, Clean, DeleteCandidate, MarkDeleted, Crash
<1>3. ASSUME NEW j \in Jobs, Decide(j) PROVE UNCHANGED <<revisions, head>>
  BY <1>3 DEF Decide, CommitRollsBack
<1> QED
  BY <1>1, <1>2, <1>3 DEF vars, Next, Claim, MarkOrphan, Recover, Requeue, ExpireOrphan, Stall,
     PutLands, PutDropped

\* A number that is published is one of the artifact's first Cardinality(Edits) + 1, and no other
\* revision of the artifact has it.
LEMMA NumberIsFree ==
    ASSUME Inv, NEW j \in Jobs, commit[j] # None
    PROVE  /\ reserved[j] \in 1 .. Cardinality(Edits) + 1
           /\ \A r \in revisions : r.job # j /\ (r.artifact = ArtifactOf[j] => r.number # reserved[j])
<1> USE DEF Inv
<1>1. reserved[j] \in Nat /\ reserved[j] # 0 /\ status[j] # "succeeded"
  <2>1. reserved[j] # 0 /\ status[j] \in RenderRunning
    BY DEF CommitFindsRow
  <2> QED
    BY <2>1 DEF TypeOK, RenderRunning
<1>2. Cardinality(Reserving) \in Nat /\ Cardinality(Edits) \in Nat /\ Cardinality(Reserving) <= Cardinality(Edits)
  BY EditsAssumption, FS_Subset, FS_CardinalityType DEF Reserving
<1>3. reserved[j] <= Cardinality(Edits) + 1
  <2>1. CASE j \in Edits
    <3>1. reserved[j] < nextNumber[Base] /\ nextNumber[Base] = Cardinality(Reserving) + 2
      BY <1>1, <2>1 DEF NumbersCounted, Reserving
    <3> QED
      BY <1>1, <1>2, <3>1
  <2>2. CASE j \in Creations
    BY <1>1, <1>2, <2>2 DEF NumbersCounted
  <2> QED
    BY <2>1, <2>2
<1>4. ASSUME NEW r \in revisions
      PROVE  r.job # j /\ (r.artifact = ArtifactOf[j] => r.number # reserved[j])
  <2>1. /\ r.job \in Jobs /\ r.job # j /\ r.artifact = ArtifactOf[r.job]
        /\ r.number = reserved[r.job] /\ reserved[r.job] # 0
    BY <1>1, <1>4 DEF TypeOK, RevisionsMatchJobs
  <2>2. ArtifactOf[r.job] = ArtifactOf[j] => r.job \in Reserving /\ j \in Reserving
    BY <1>1, <2>1 DEF ArtifactOf, Reserving
  <2> QED
    BY <2>1, <2>2 DEF NumbersCounted
<1> QED
  BY <1>1, <1>2, <1>3, <1>4

\* A COMMIT that takes effect publishes to the catalog; every other step leaves it alone.
LEMMA StepPublishes ==
    ASSUME Inv, PublishedOutputsReadable, PublishedOutputsReadable', [Next]_vars
    PROVE  [Catalog!Next]_(Catalog!vars)
<1>0. /\ Readable = {j \in Jobs : \E r \in revisions : r.job = j}
      /\ Readable' = {j \in Jobs : \E r \in revisions' : r.job = j}
  BY DEF Readable, PublishedOutputsReadable
<1>1. CASE \E j \in Jobs : CommitTakesEffect(j)
  <2>1. PICK j \in Jobs : CommitTakesEffect(j)
    BY <1>1
  <2>0. PICK n : n = reserved[j]
    OBVIOUS
  <2> DEFINE a == ArtifactOf[j]
             new == [job |-> j, artifact |-> a, number |-> n, attempt |-> manifest[j]]
  <2>2. commit[j] # None /\ revisions' = revisions \cup {new} /\ head' = [head EXCEPT ![a] = HeadAfter(a, n)]
    BY <2>1, <2>0 DEF CommitTakesEffect
  <2>3. /\ n \in 1 .. Cardinality(Edits) + 1
        /\ \A r \in revisions : r.job # j /\ (r.artifact = a => r.number # n)
    BY <2>2, <2>0, NumberIsFree
  <2>4. \A r \in Published : r.job # j /\ (r.artifact = a => r.number # n)
    BY <2>3 DEF Published
  <2>5. Published' = Published \cup {[job |-> j, artifact |-> a, number |-> n]}
    <3>1. new.job = j /\ new.artifact = a /\ new.number = n
      OBVIOUS
    <3> HIDE DEF new, a
    <3> QED
      BY <2>2, <3>1 DEF Published
  <2>6. head' = [head EXCEPT ![a] = IF n > @ THEN n ELSE @]
    <3>1. head[a] \in Nat /\ n \in Nat /\ n > 0
      <4>1. a \in Artifacts /\ Cardinality(Edits) \in Nat
        BY EditsAssumption, FS_CardinalityType DEF ArtifactOf, Artifacts
      <4> QED
        BY <2>3, <4>1 DEF Inv, TypeOK
    <3>2. HeadAfter(a, n) = IF n > head[a] THEN n ELSE head[a]
      BY <3>1 DEF HeadAfter
    <3> QED
      BY <2>2, <3>2
  <2>7. Readable' = Readable \cup {j}
    <3>1. new.job = j
      OBVIOUS
    <3> HIDE DEF new
    <3> QED
      BY <1>0, <2>1, <2>2, <3>1
  <2>8. Catalog!Publish(j, n)
    BY <2>4, <2>5, <2>6, <2>7 DEF Catalog!Publish, Published, Readable
  <2> QED
    BY <2>1, <2>3, <2>8 DEF Catalog!Next
<1>2. CASE ~ \E j \in Jobs : CommitTakesEffect(j)
  <2>1. UNCHANGED <<revisions, head>>
    BY <1>2, OnlyCommits
  <2>2. UNCHANGED <<Published, Readable>>
    BY <1>0, <2>1 DEF Published
  <2> QED
    BY <2>1, <2>2 DEF Catalog!vars, Published, Readable
<1> QED
  BY <1>1, <1>2

\* Publication refines the catalog: revisions appear one at a time, complete, at most one for a
\* job and one for a number, the head only rises, and retries waste no numbers.
THEOREM Refinement == Spec => CatalogSpec
<1>1. Init => Catalog!Init
  BY DEF Init, Catalog!Init, Artifacts
<1>2. Inv /\ PublishedOutputsReadable /\ PublishedOutputsReadable' /\ [Next]_vars => [Catalog!Next]_(Catalog!vars)
  BY StepPublishes
<1> QED
  BY <1>1, <1>2, Invariance, OutputsStayReadable, PTL DEF Spec, CatalogSpec, Catalog!Spec

-----------------------------------------------------------------------------
(* The status watch: the inductive invariant *)

\* What was once read of a job: a version it had, with the status of that version. Only the
\* latest version may be one that has ended.
Seen(j, v, s) == /\ v <= version[j]
                 /\ s = IF v = version[j] THEN jobStatus[j] ELSE "running"

\* The page shows what was once true of its job.
ShownFits == selected # NoJob => Seen(selected, shown.version, shown.status)

\* Before a job has succeeded its revision is there.
RevisionsThere == \A j \in WatchedJobs : jobStatus[j] = "succeeded" => hasRevision[j]

\* A watch never knows less than the page shows of its job, and an answer is at least as new
\* as what the watch knew when it asked.
WatchFits(w) ==
    /\ stage[w] # "none" => watched[w] \in WatchedJobs /\ after[w] <= version[watched[w]]
    /\ stage[w] \in {"revision", "decide"} => after[w] <= answer[w].version
    /\ stage[w] = "got" => after[w] = answer[w].version
    /\ stage[w] \in {"revision", "decide", "got"} =>
          Seen(watched[w], answer[w].version, answer[w].status)
    /\ stage[w] \in {"decide", "got"} /\ answer[w].status = "succeeded" => answer[w].revision
    /\ IsCurrent(w) /\ stage[w] # "ended" => shown.version <= after[w]

StatusWatchInv ==
    /\ StatusWatchTypeOK /\ ShownFits /\ RevisionsThere
    /\ \A w \in Watches : WatchFits(w)

LEMMA StatusWatchStart == StatusWatchInit => StatusWatchInv
<1> SUFFICES ASSUME StatusWatchInit PROVE StatusWatchInv
  OBVIOUS
<1>1. Nothing \in Answers /\ 0 \in Versions /\ 1 \in 1..MaxVersion /\ 0 \in 0..MaxFaults
  BY StatusWatchAssumption DEF Nothing, Answers, Versions, Statuses
<1>2. StatusWatchTypeOK
  <2>1. /\ version \in [WatchedJobs -> 1..MaxVersion]
        /\ jobStatus \in [WatchedJobs -> Statuses]
        /\ hasRevision \in [WatchedJobs -> BOOLEAN]
        /\ shown \in [version : Versions, status : Statuses]
        /\ after \in [Watches -> Versions] /\ answer \in [Watches -> Answers]
    BY <1>1 DEF StatusWatchInit, Statuses
  <2>2. /\ endpoint \in {"holds", "answers", "missing"} /\ listening \in BOOLEAN
        /\ notifications \subseteq WatchedJobs \X Versions
        /\ selected \in WatchedJobs \cup {NoJob} /\ watch \in {0} \cup Watches
        /\ stage \in [Watches -> AtApi \cup AtPage \cup {"none", "ended"}]
        /\ watched \in [Watches -> WatchedJobs \cup {NoJob}]
        /\ fallback \in [Watches -> BOOLEAN] /\ isHeld \in [Watches -> BOOLEAN]
        /\ faults \in 0..MaxFaults
    BY <1>1 DEF StatusWatchInit
  <2> QED
    BY <2>1, <2>2 DEF StatusWatchTypeOK
<1>3. ShownFits /\ RevisionsThere
  BY DEF StatusWatchInit, ShownFits, RevisionsThere
<1>4. \A w \in Watches : WatchFits(w)
  BY StatusWatchAssumption DEF StatusWatchInit, WatchFits, IsCurrent
<1> QED
  BY <1>2, <1>3, <1>4 DEF StatusWatchInv

\* What the numbers of a job are.
LEMMA JobFacts ==
    ASSUME StatusWatchTypeOK, NEW j \in WatchedJobs
    PROVE  /\ version[j] \in Versions /\ version[j] \in Nat /\ version[j] \in 1..MaxVersion
           /\ jobStatus[j] \in Statuses /\ hasRevision[j] \in BOOLEAN
  BY StatusWatchAssumption DEF StatusWatchTypeOK, Versions

LEMMA WatchFacts ==
    ASSUME StatusWatchTypeOK, NEW w \in Watches
    PROVE  /\ answer[w] \in Answers /\ answer[w].version \in Nat /\ answer[w].version \in Versions
           /\ answer[w].status \in Statuses /\ answer[w].revision \in BOOLEAN
           /\ after[w] \in Nat /\ after[w] \in Versions
           /\ stage[w] \in AtApi \cup AtPage \cup {"none", "ended"}
           /\ shown.version \in Nat /\ shown.status \in Statuses
  BY DEF StatusWatchTypeOK, Versions, Answers

-----------------------------------------------------------------------------
(* The status watch: its steps *)

\* Steps that change no job, and do not touch a watch, leave it as it was.
LEMMA WatchKept ==
    ASSUME NEW v \in Watches, WatchFits(v), UNCHANGED <<version, jobStatus>>,
           stage'[v] = stage[v], watched'[v] = watched[v], after'[v] = after[v],
           answer'[v] = answer[v],
           IsCurrent(v)' => IsCurrent(v) /\ shown'.version = shown.version
    PROVE  WatchFits(v)'
  BY DEF WatchFits, Seen

\* A job runs on to its next version, and what was read of it stays true.
LEMMA StepAdvance ==
    ASSUME StatusWatchInv, NEW j \in WatchedJobs, Advance(j)
    PROVE  StatusWatchInv'
<1>1. PICK s \in Statuses : /\ jobStatus' = [jobStatus EXCEPT ![j] = s]
                            /\ hasRevision' = [hasRevision EXCEPT ![j] = s = "succeeded"]
  BY DEF Advance
<1>2. /\ version' = [version EXCEPT ![j] = @ + 1] /\ version[j] < MaxVersion
      /\ jobStatus[j] = "running"
      /\ UNCHANGED <<endpoint, listening, pageVars, watchVars, faults>>
      /\ notifications' = IF listening THEN notifications \cup {<<j, version'[j]>>}
                          ELSE notifications
  BY DEF Advance
<1>3. StatusWatchTypeOK
  BY DEF StatusWatchInv
<1>4. version[j] + 1 \in 1..MaxVersion /\ version[j] + 1 \in Versions
  BY <1>2, <1>3, JobFacts, StatusWatchAssumption DEF Versions
<1>5. /\ version' \in [WatchedJobs -> 1..MaxVersion] /\ version'[j] = version[j] + 1
      /\ \A k \in WatchedJobs : k # j => version'[k] = version[k]
      /\ jobStatus' \in [WatchedJobs -> Statuses] /\ jobStatus'[j] = s
      /\ \A k \in WatchedJobs : k # j => jobStatus'[k] = jobStatus[k]
      /\ hasRevision' \in [WatchedJobs -> BOOLEAN] /\ hasRevision'[j] = (s = "succeeded")
      /\ \A k \in WatchedJobs : k # j => hasRevision'[k] = hasRevision[k]
  BY <1>1, <1>2, <1>3, <1>4 DEF StatusWatchTypeOK
<1>6. StatusWatchTypeOK'
  BY <1>2, <1>3, <1>4, <1>5 DEF StatusWatchTypeOK, pageVars, watchVars
<1>7. \A k \in WatchedJobs, v \in Nat : \A t : Seen(k, v, t) => Seen(k, v, t)'
  BY <1>2, <1>3, <1>5, JobFacts DEF Seen
<1>8. ShownFits'
  <2>1. selected \in WatchedJobs \cup {NoJob} /\ shown.version \in Nat
    BY <1>3 DEF StatusWatchTypeOK, Versions
  <2> QED
    BY <1>2, <1>7, <2>1 DEF StatusWatchInv, ShownFits, pageVars
<1>9. RevisionsThere'
  BY <1>5 DEF StatusWatchInv, RevisionsThere
<1>10. ASSUME NEW w \in Watches
       PROVE  WatchFits(w)'
  <2>1. UNCHANGED <<stage[w], watched[w], after[w], answer[w], shown, selected, watch>>
    BY <1>2 DEF watchVars, pageVars
  <2>2. stage[w] # "none" => watched[w] \in WatchedJobs /\ after[w] <= version[watched[w]]
    BY DEF StatusWatchInv, WatchFits
  <2>3. stage[w] # "none" => after[w] <= version'[watched[w]]
    BY <1>3, <1>5, <2>2, JobFacts, WatchFacts
  <2>4. stage[w] \in {"revision", "decide", "got"} =>
            Seen(watched[w], answer[w].version, answer[w].status)'
    <3>1. PICK k, v, t : k = watched[w] /\ v = answer[w].version /\ t = answer[w].status
      OBVIOUS
    <3>2. stage[w] \in {"revision", "decide", "got"} => Seen(k, v, t) /\ k \in WatchedJobs
      BY <2>2, <3>1 DEF StatusWatchInv, WatchFits
    <3>3. v \in Nat
      BY <1>3, <3>1, WatchFacts
    <3>4. stage[w] \in {"revision", "decide", "got"} => Seen(k, v, t)'
      BY <1>7, <3>2, <3>3
    <3>5. k = watched'[w] /\ v = answer'[w].version /\ t = answer'[w].status
      BY <2>1, <3>1
    <3> QED
      BY <3>4, <3>5 DEF Seen
  <2>5. IsCurrent(w)' <=> IsCurrent(w)
    BY <2>1 DEF IsCurrent
  <2> QED
    BY <2>1, <2>2, <2>3, <2>4, <2>5 DEF StatusWatchInv, WatchFits
<1> QED
  BY <1>6, <1>8, <1>9, <1>10 DEF StatusWatchInv

\* The page shows a version the job had, and its new watch knows as much.
LEMMA StepSelectJob ==
    ASSUME StatusWatchInv, NEW j \in WatchedJobs, SelectJob(j)
    PROVE  StatusWatchInv'
<1>1. PICK v \in 1..version[j] :
        /\ shown' = [version |-> v, status |-> IF v = version[j] THEN jobStatus[j] ELSE "running"]
        /\ after' = [after EXCEPT ![watch + 1] = v]
  BY DEF SelectJob
<1>2. PICK new : new = watch + 1
  OBVIOUS
<1>3. /\ new \in Watches /\ watch' = new /\ selected' = j
      /\ watched' = [watched EXCEPT ![new] = j]
      /\ stage' = [Aborted EXCEPT ![new] = "ask"]
      /\ isHeld' = NoneHeld
      /\ UNCHANGED <<version, jobStatus, hasRevision, endpoint, channelVars, fallback, answer, faults>>
  BY <1>2 DEF SelectJob, jobVars
<1>4. StatusWatchTypeOK
  BY DEF StatusWatchInv
<1>5. v \in Nat /\ v <= version[j] /\ v \in Versions
  BY <1>1, <1>4, JobFacts, StatusWatchAssumption DEF Versions
<1>6. StatusWatchTypeOK'
  <2>1. shown' \in [version : Versions, status : Statuses] /\ after' \in [Watches -> Versions]
    BY <1>1, <1>4, <1>5, JobFacts DEF StatusWatchTypeOK, Statuses
  <2>2. stage' \in [Watches -> AtApi \cup AtPage \cup {"none", "ended"}]
    BY <1>3, <1>4 DEF StatusWatchTypeOK, Aborted, AtPage
  <2>3. isHeld' \in [Watches -> BOOLEAN] /\ watched' \in [Watches -> WatchedJobs \cup {NoJob}]
    BY <1>3, <1>4 DEF StatusWatchTypeOK, NoneHeld
  <2> QED
    BY <1>3, <1>4, <2>1, <2>2, <2>3 DEF StatusWatchTypeOK, channelVars
<1>7. shown'.version = v /\ Seen(j, shown.version, shown.status)'
  BY <1>1, <1>3, <1>5 DEF Seen
<1>8. ShownFits' /\ RevisionsThere'
  BY <1>3, <1>7 DEF StatusWatchInv, ShownFits, RevisionsThere, Seen
<1>9. ASSUME NEW w \in Watches
      PROVE  WatchFits(w)'
  <2>1. CASE w = new
    <3>1. stage'[w] = "ask" /\ watched'[w] = j /\ after'[w] = v
      BY <1>1, <1>2, <1>3, <1>4, <2>1 DEF StatusWatchTypeOK, Aborted
    <3> QED
      BY <1>3, <1>5, <1>7, <3>1 DEF WatchFits
  <2>2. CASE w # new
    <3>1. /\ stage'[w] = (IF stage[w] \in AtApi \cup {"ask", "pause"} THEN "ended" ELSE stage[w])
          /\ watched'[w] = watched[w] /\ after'[w] = after[w] /\ answer'[w] = answer[w]
      BY <1>1, <1>2, <1>3, <1>4, <2>2 DEF StatusWatchTypeOK, Aborted
    <3>2. ~IsCurrent(w)'
      BY <1>3, <2>2 DEF IsCurrent
    <3> QED
      BY <1>3, <3>1, <3>2 DEF StatusWatchInv, WatchFits, Seen, AtApi
  <2> QED
    BY <2>1, <2>2
<1> QED
  BY <1>6, <1>8, <1>9 DEF StatusWatchInv

LEMMA StepDeselect == ASSUME StatusWatchInv, Deselect PROVE StatusWatchInv'
<1>1. /\ selected' = NoJob /\ shown' = [version |-> 0, status |-> "running"]
      /\ stage' = Aborted /\ isHeld' = NoneHeld
      /\ UNCHANGED <<version, jobStatus, hasRevision, endpoint, channelVars, watch, watched, after,
                     fallback, answer, faults>>
  BY DEF Deselect, jobVars
<1>2. StatusWatchTypeOK /\ 0 \in Versions
  BY StatusWatchAssumption DEF StatusWatchInv, Versions
<1>3. StatusWatchTypeOK'
  <2>1. stage' \in [Watches -> AtApi \cup AtPage \cup {"none", "ended"}]
        /\ isHeld' \in [Watches -> BOOLEAN]
    BY <1>1, <1>2 DEF StatusWatchTypeOK, Aborted, NoneHeld
  <2>2. shown' \in [version : Versions, status : Statuses]
    BY <1>1, <1>2 DEF Statuses
  <2> QED
    BY <1>1, <1>2, <2>1, <2>2 DEF StatusWatchTypeOK, channelVars
<1>4. ShownFits' /\ RevisionsThere'
  BY <1>1 DEF StatusWatchInv, ShownFits, RevisionsThere
<1>5. ASSUME NEW w \in Watches
      PROVE  WatchFits(w)'
  <2>1. stage'[w] = (IF stage[w] \in AtApi \cup {"ask", "pause"} THEN "ended" ELSE stage[w])
    BY <1>1 DEF Aborted
  <2>2. stage'[w] # "none" => watched[w] \in WatchedJobs
    BY <2>1 DEF StatusWatchInv, WatchFits, AtApi
  <2>3. shown'.version = 0 /\ after[w] \in Nat
    BY <1>1, <1>2, WatchFacts
  <2> QED
    BY <1>1, <2>1, <2>2, <2>3 DEF StatusWatchInv, WatchFits, Seen, AtApi
<1> QED
  BY <1>3, <1>4, <1>5 DEF StatusWatchInv

\* The listener, notifications and restarts move requests, and read nothing.
Moving == {"read", "pause"}
LEMMA StepAround ==
    ASSUME StatusWatchInv,
           UNCHANGED <<version, jobStatus, hasRevision, endpoint, pageVars, watched, after, fallback,
                       answer>>,
           listening' \in BOOLEAN, notifications' \subseteq WatchedJobs \X Versions,
           isHeld' \in [Watches -> BOOLEAN], faults' \in 0..MaxFaults,
           stage' \in [Watches -> AtApi \cup AtPage \cup {"none", "ended"}],
           \A w \in Watches : stage'[w] = stage[w] \/ (stage'[w] \in Moving /\ stage[w] \in AtApi)
    PROVE  StatusWatchInv'
<1>1. StatusWatchTypeOK'
  BY DEF StatusWatchInv, StatusWatchTypeOK, pageVars
<1>2. ShownFits' /\ RevisionsThere'
  BY DEF StatusWatchInv, ShownFits, RevisionsThere, Seen, pageVars
<1>3. ASSUME NEW w \in Watches
      PROVE  WatchFits(w)'
  <2>1. IsCurrent(w)' <=> IsCurrent(w)
    BY DEF IsCurrent, pageVars
  <2> QED
    BY <2>1 DEF StatusWatchInv, WatchFits, Seen, pageVars, Moving, AtApi
<1> QED
  BY <1>1, <1>2, <1>3 DEF StatusWatchInv

LEMMA StepChannel ==
    ASSUME StatusWatchInv,
           StartListener \/ ListenerBreaks \/ RestartApi \/ \E n \in notifications : Notify(n)
    PROVE  StatusWatchInv'
<1>1. /\ isHeld \in [Watches -> BOOLEAN] /\ notifications \subseteq WatchedJobs \X Versions
      /\ faults \in 0..MaxFaults
      /\ stage \in [Watches -> AtApi \cup AtPage \cup {"none", "ended"}]
  BY DEF StatusWatchInv, StatusWatchTypeOK
<1>2. faults < MaxFaults => faults + 1 \in 0..MaxFaults
  BY <1>1, StatusWatchAssumption
<1>3. ASSUME StartListener
      PROVE  StatusWatchInv'
  BY <1>1, <1>3, StepAround DEF StartListener, watchVars, jobVars
<1>4. ASSUME ListenerBreaks
      PROVE  StatusWatchInv'
  BY <1>1, <1>2, <1>4, StepAround DEF ListenerBreaks, watchVars, jobVars
<1>5. ASSUME RestartApi
      PROVE  StatusWatchInv'
  <2>1. \A w \in Watches : stage'[w] = IF stage[w] \in AtApi THEN "pause" ELSE stage[w]
    BY <1>5 DEF RestartApi
  <2>2. stage' \in [Watches -> AtApi \cup AtPage \cup {"none", "ended"}]
    BY <1>1, <1>5 DEF RestartApi, AtPage
  <2>3. \A w \in Watches :
          stage'[w] = stage[w] \/ (stage'[w] \in Moving /\ stage[w] \in AtApi)
    BY <2>1 DEF Moving
  <2>4. /\ UNCHANGED <<version, jobStatus, hasRevision, endpoint, pageVars, watched, after, fallback,
                       answer>>
        /\ listening' \in BOOLEAN /\ notifications' \subseteq WatchedJobs \X Versions
        /\ isHeld' \in [Watches -> BOOLEAN] /\ faults' \in 0..MaxFaults
    BY <1>2, <1>5 DEF RestartApi, NoneHeld, jobVars
  <2> QED
    BY <2>2, <2>3, <2>4, StepAround
<1>6. ASSUME NEW n \in notifications, Notify(n)
      PROVE  StatusWatchInv'
  <2>1. /\ stage' \in [Watches -> AtApi \cup AtPage \cup {"none", "ended"}]
        /\ \A w \in Watches : stage'[w] = stage[w] \/ (stage'[w] = "read" /\ stage[w] = "held")
    BY <1>1, <1>6 DEF Notify, RequestAt, AtApi
  <2>2. \A w \in Watches :
          stage'[w] = stage[w] \/ (stage'[w] \in Moving /\ stage[w] \in AtApi)
    BY <2>1 DEF Moving, AtApi
  <2>3. /\ UNCHANGED <<version, jobStatus, hasRevision, endpoint, pageVars, watched, after, fallback,
                       answer>>
        /\ listening' \in BOOLEAN /\ notifications' \subseteq WatchedJobs \X Versions
        /\ isHeld' \in [Watches -> BOOLEAN] /\ faults' \in 0..MaxFaults
    BY <1>1, <1>6 DEF Notify, jobVars, StatusWatchInv, StatusWatchTypeOK
  <2> QED
    BY <2>1, <2>2, <2>3, StepAround
<1> QED
  BY <1>3, <1>4, <1>5, <1>6

\* A step of one watch leaves the others and the jobs alone; the current one may change what
\* the page shows.
LEMMA StepWatch ==
    ASSUME StatusWatchInv, NEW w \in Watches,
           UNCHANGED <<version, jobStatus, hasRevision, endpoint, channelVars, selected, watch,
                       watched>>,
           NEW st \in AtApi \cup AtPage \cup {"none", "ended"}, stage' = [stage EXCEPT ![w] = st],
           after' \in [Watches -> Versions], answer' \in [Watches -> Answers],
           fallback' \in [Watches -> BOOLEAN], isHeld' \in [Watches -> BOOLEAN],
           shown' \in [version : Versions, status : Statuses], faults' \in 0..MaxFaults,
           \A v \in Watches : v # w => after'[v] = after[v] /\ answer'[v] = answer[v],
           shown' = shown \/ IsCurrent(w),
           ShownFits', WatchFits(w)'
    PROVE  StatusWatchInv'
<1>1. StatusWatchTypeOK
  BY DEF StatusWatchInv
<1>2. /\ stage' \in [Watches -> AtApi \cup AtPage \cup {"none", "ended"}]
      /\ \A v \in Watches : v # w => stage'[v] = stage[v]
  BY <1>1 DEF StatusWatchTypeOK
<1>3. StatusWatchTypeOK'
  BY <1>1, <1>2 DEF StatusWatchTypeOK, channelVars
<1>4. RevisionsThere'
  BY DEF StatusWatchInv, RevisionsThere
<1>5. ASSUME NEW v \in Watches, v # w
      PROVE  WatchFits(v)'
  <2>1. IsCurrent(v)' => IsCurrent(v) /\ shown'.version = shown.version
    BY <1>5 DEF IsCurrent
  <2>2. WatchFits(v)
    BY DEF StatusWatchInv
  <2> QED
    BY <1>2, <1>5, <2>1, <2>2, WatchKept
<1>6. \A v \in Watches : WatchFits(v)'
  BY <1>5
<1> QED
  BY <1>3, <1>4, <1>6 DEF StatusWatchInv

\* The page goes on showing what it shows.
LEMMA ShownStays ==
    ASSUME StatusWatchInv, UNCHANGED <<version, jobStatus, selected, shown>>
    PROVE  ShownFits'
  BY DEF StatusWatchInv, ShownFits, Seen

\* Types of what a watch keeps.
LEMMA WatchTypes ==
    ASSUME StatusWatchInv
    PROVE  /\ after \in [Watches -> Versions] /\ answer \in [Watches -> Answers]
           /\ fallback \in [Watches -> BOOLEAN] /\ isHeld \in [Watches -> BOOLEAN]
           /\ shown \in [version : Versions, status : Statuses] /\ faults \in 0..MaxFaults
           /\ stage \in [Watches -> AtApi \cup AtPage \cup {"none", "ended"}]
  BY DEF StatusWatchInv, StatusWatchTypeOK

\* Steps that read nothing: asking, pausing, being held, failing.
LEMMA StepMoves ==
    ASSUME StatusWatchInv, NEW w \in Watches,
           UNCHANGED <<version, jobStatus, hasRevision, endpoint, channelVars, pageVars, watched,
                       after, answer>>,
           NEW st \in {"ask", "read", "held", "pause", "ended"}, stage' = [stage EXCEPT ![w] = st],
           stage[w] \notin {"none", "ended"},
           fallback' \in [Watches -> BOOLEAN], isHeld' \in [Watches -> BOOLEAN],
           faults' \in 0..MaxFaults
    PROVE  StatusWatchInv'
<1>1. stage'[w] = st /\ (IsCurrent(w)' <=> IsCurrent(w))
  BY WatchTypes DEF IsCurrent, pageVars
<1>2. WatchFits(w)'
  BY <1>1 DEF StatusWatchInv, WatchFits, Seen, pageVars
<1>3. st \in AtApi \cup AtPage \cup {"none", "ended"}
  BY DEF AtApi, AtPage
<1>4. UNCHANGED <<shown, selected, watch>>
  BY DEF pageVars
<1> QED
  BY <1>2, <1>3, <1>4, WatchTypes, ShownStays, StepWatch

LEMMA StepAsking ==
    ASSUME StatusWatchInv, NEW w \in Watches,
           Hold(w) \/ HoldEnds(w) \/ Ask(w) \/ PauseEnds(w) \/ RequestFails(w)
    PROVE  StatusWatchInv'
<1>1. /\ stage \in [Watches -> AtApi \cup AtPage \cup {"none", "ended"}]
      /\ fallback \in [Watches -> BOOLEAN] /\ isHeld \in [Watches -> BOOLEAN]
      /\ faults \in 0..MaxFaults
  BY WatchTypes
<1>2. CASE Hold(w)
  BY <1>1, <1>2, StepMoves DEF Hold, RequestAt, Move, jobVars
<1>3. CASE HoldEnds(w)
  BY <1>1, <1>3, StepMoves DEF HoldEnds, RequestAt, Move, jobVars
<1>4. CASE PauseEnds(w)
  BY <1>1, <1>4, StepMoves DEF PauseEnds, RequestAt, Move, jobVars
<1>5. CASE Ask(w)
  <2>1. CASE endpoint = "missing" /\ ~fallback[w]
    <3>1. stage' = [stage EXCEPT ![w] = "ask"]
      BY <1>1, <1>5, <2>1 DEF Ask, RequestAt
    <3>2. fallback' \in [Watches -> BOOLEAN] /\ stage[w] = "ask"
          /\ UNCHANGED <<jobVars, channelVars, pageVars, watched, after, isHeld, answer, faults>>
      BY <1>1, <1>5, <2>1 DEF Ask, RequestAt
    <3> QED
      BY <1>1, <3>1, <3>2, StepMoves DEF jobVars
  <2>2. CASE ~(endpoint = "missing" /\ ~fallback[w])
    BY <1>1, <1>5, <2>2, StepMoves DEF Ask, RequestAt, Move, jobVars
  <2> QED
    BY <2>1, <2>2
<1>6. CASE RequestFails(w)
  <2>1. faults' \in 0..MaxFaults /\ isHeld' \in [Watches -> BOOLEAN]
        /\ UNCHANGED <<jobVars, channelVars, pageVars, watched, after, fallback, answer>>
    BY <1>1, <1>6, StatusWatchAssumption DEF RequestFails
  <2>2. stage[w] \notin {"none", "ended"}
    BY <1>6 DEF RequestFails, AtApi
  <2>3. stage' = [stage EXCEPT ![w] = "pause"] \/ stage' = [stage EXCEPT ![w] = "ended"]
    BY <1>6 DEF RequestFails, Move
  <2> QED
    BY <1>1, <2>1, <2>2, <2>3, StepMoves DEF jobVars
<1> QED
  BY <1>2, <1>3, <1>4, <1>5, <1>6

\* The first read of a request sees the job as it is, later ones see it as it has become.
LEMMA StepReadJob ==
    ASSUME StatusWatchInv, NEW w \in Watches, ReadJob(w)
    PROVE  StatusWatchInv'
<1>1. PICK j : j = watched[w]
  OBVIOUS
<1> DEFINE read == [version |-> version[j], status |-> jobStatus[j], revision |-> FALSE]
<1>2. /\ answer' = [answer EXCEPT ![w] = read] /\ stage' = [stage EXCEPT ![w] = "revision"]
      /\ stage[w] = "read"
      /\ UNCHANGED <<jobVars, channelVars, pageVars, watched, after, fallback, isHeld, faults>>
  BY <1>1 DEF ReadJob, RequestAt, Move
<1>3. j \in WatchedJobs /\ after[w] <= version[j]
      /\ (IsCurrent(w) => shown.version <= after[w])
  BY <1>1, <1>2 DEF StatusWatchInv, WatchFits
<1>4. read \in Answers /\ read.version = version[j] /\ read.status = jobStatus[j]
  BY <1>3, JobFacts DEF StatusWatchInv, Answers
<1> HIDE DEF read
<1>5. answer' \in [Watches -> Answers] /\ answer'[w] = read /\ stage'[w] = "revision"
      /\ \A v \in Watches : v # w => answer'[v] = answer[v]
  BY <1>2, <1>4, WatchTypes
<1>6. IsCurrent(w)' <=> IsCurrent(w)
  BY <1>2 DEF IsCurrent, pageVars
<1>7. version[j] \in Nat
  BY <1>3, JobFacts DEF StatusWatchInv
<1>8. WatchFits(w)'
  BY <1>1, <1>2, <1>3, <1>4, <1>5, <1>6, <1>7 DEF WatchFits, Seen, jobVars, pageVars
<1>9. "revision" \in AtApi \cup AtPage \cup {"none", "ended"}
  BY DEF AtApi
<1> QED
  BY <1>2, <1>5, <1>8, <1>9, WatchTypes, ShownStays, StepWatch DEF jobVars, pageVars

LEMMA StepReadRevision ==
    ASSUME StatusWatchInv, NEW w \in Watches, ReadRevision(w)
    PROVE  StatusWatchInv'
<1>1. PICK j : j = watched[w]
  OBVIOUS
<1> DEFINE read == [answer[w] EXCEPT !.revision = hasRevision[j]]
<1>2. /\ answer' = [answer EXCEPT ![w] = read] /\ stage' = [stage EXCEPT ![w] = "decide"]
      /\ stage[w] = "revision"
      /\ UNCHANGED <<jobVars, channelVars, pageVars, watched, after, fallback, isHeld, faults>>
  BY <1>1 DEF ReadRevision, RequestAt, Move
<1>3. /\ j \in WatchedJobs /\ after[w] <= version[j] /\ after[w] <= answer[w].version
      /\ Seen(j, answer[w].version, answer[w].status)
      /\ (IsCurrent(w) => shown.version <= after[w])
      /\ (jobStatus[j] = "succeeded" => hasRevision[j])
  BY <1>1, <1>2 DEF StatusWatchInv, WatchFits, RevisionsThere
<1>4. answer[w] \in Answers /\ hasRevision[j] \in BOOLEAN
  BY <1>3, JobFacts, WatchFacts DEF StatusWatchInv
<1>5. /\ read \in Answers /\ read.version = answer[w].version /\ read.status = answer[w].status
      /\ read.revision = hasRevision[j]
  BY <1>4 DEF Answers
<1>6. read.status = "succeeded" => read.revision
  BY <1>3, <1>5 DEF Seen
<1> HIDE DEF read
<1>7. answer' \in [Watches -> Answers] /\ answer'[w] = read /\ stage'[w] = "decide"
      /\ \A v \in Watches : v # w => answer'[v] = answer[v]
  BY <1>2, <1>5, WatchTypes
<1>8. IsCurrent(w)' <=> IsCurrent(w)
  BY <1>2 DEF IsCurrent, pageVars
<1>9. WatchFits(w)'
  BY <1>1, <1>2, <1>3, <1>5, <1>6, <1>7, <1>8 DEF WatchFits, Seen, jobVars, pageVars
<1>10. "decide" \in AtApi \cup AtPage \cup {"none", "ended"}
  BY DEF AtApi
<1> QED
  BY <1>2, <1>7, <1>9, <1>10, WatchTypes, ShownStays, StepWatch DEF jobVars, pageVars

\* An answer is 204 when it has nothing new; what it has is at least as new as what the watch
\* knew.
LEMMA StepRespond ==
    ASSUME StatusWatchInv, NEW w \in Watches, Respond(w)
    PROVE  StatusWatchInv'
<1>1. PICK a : a = answer[w]
  OBVIOUS
<1>2. /\ stage[w] = "decide" /\ isHeld' = [isHeld EXCEPT ![w] = FALSE]
      /\ UNCHANGED <<version, jobStatus, hasRevision, endpoint, channelVars, selected, watch, shown,
                     watched, fallback, faults>>
  BY DEF Respond, RequestAt, jobVars, pageVars
<1>3. /\ a \in Answers /\ a.version \in Nat /\ a.version \in Versions /\ after[w] \in Nat
      /\ watched[w] \in WatchedJobs /\ after[w] <= version[watched[w]] /\ after[w] <= a.version
      /\ Seen(watched[w], a.version, a.status)
      /\ (a.status = "succeeded" => a.revision)
      /\ (IsCurrent(w) => shown.version <= after[w])
  BY <1>1, <1>2, WatchFacts DEF StatusWatchInv, WatchFits
<1>4. IsCurrent(w)' <=> IsCurrent(w)
  BY <1>2 DEF IsCurrent
<1>5. isHeld' \in [Watches -> BOOLEAN] /\ ShownFits'
  BY <1>2, WatchTypes, ShownStays
<1>6. CASE NothingNew(w) /\ ~fallback[w]
  <2>1. PICK st \in {"ask", "pause"} : stage' = [stage EXCEPT ![w] = st]
    BY <1>6 DEF Respond, Move
  <2>2. answer' = [answer EXCEPT ![w] = Nothing] /\ after' = after
    BY <1>6 DEF Respond
  <2>3. Nothing \in Answers
    BY StatusWatchAssumption DEF Nothing, Answers, Versions, Statuses
  <2>4. /\ answer' \in [Watches -> Answers] /\ stage'[w] = st
        /\ \A v \in Watches : v # w => answer'[v] = answer[v]
    BY <2>1, <2>2, <2>3, WatchTypes
  <2>5. WatchFits(w)'
    BY <1>2, <1>3, <1>4, <2>2, <2>4 DEF WatchFits
  <2>6. st \in AtApi \cup AtPage \cup {"none", "ended"}
    BY DEF AtPage
  <2> QED
    BY <1>2, <1>5, <2>1, <2>2, <2>4, <2>5, <2>6, WatchTypes, StepWatch
<1>7. CASE ~(NothingNew(w) /\ ~fallback[w])
  <2>1. /\ stage' = [stage EXCEPT ![w] = "got"] /\ answer' = answer
        /\ after' = [after EXCEPT ![w] = IF a.version > @ THEN a.version ELSE @]
    BY <1>1, <1>7 DEF Respond, Move
  <2>2. /\ stage'[w] = "got" /\ after' \in [Watches -> Versions]
        /\ after'[w] = IF a.version > after[w] THEN a.version ELSE after[w]
        /\ \A v \in Watches : v # w => after'[v] = after[v]
    BY <1>3, <2>1, WatchTypes
  <2>3. after'[w] = a.version
    BY <1>3, <2>2
  <2>4. Seen(watched[w], a.version, a.status)'
    BY <1>1, <1>2, <1>3, <2>1 DEF Seen
  <2>5. a.version <= version[watched[w]]
    BY <1>3 DEF Seen
  <2>6. IsCurrent(w) => shown.version <= a.version
    <3>1. shown.version \in Nat
      BY WatchFacts DEF StatusWatchInv
    <3> QED
      BY <1>3, <3>1
  <2>7. WatchFits(w)'
    BY <1>1, <1>2, <1>3, <1>4, <2>1, <2>2, <2>3, <2>4, <2>5, <2>6 DEF WatchFits, Seen
  <2>8. "got" \in AtApi \cup AtPage \cup {"none", "ended"}
    BY DEF AtPage
  <2> QED
    BY <1>2, <1>5, <2>1, <2>2, <2>7, <2>8, WatchTypes, StepWatch
<1> QED
  BY <1>6, <1>7

\* What an answer brings to the page is what the job was, or is.
LEMMA StepShow ==
    ASSUME StatusWatchInv, NEW w \in Watches, Show(w)
    PROVE  StatusWatchInv'
<1>1. PICK a : a = answer[w]
  OBVIOUS
<1>2. /\ stage[w] = "got" /\ answer' = [answer EXCEPT ![w] = Nothing]
      /\ UNCHANGED <<version, jobStatus, hasRevision, endpoint, channelVars, selected, watch, watched,
                     after, fallback, isHeld, faults>>
  BY DEF Show, RequestAt, jobVars
<1>3. /\ a.version \in Nat /\ a.version \in Versions /\ a.status \in Statuses /\ after[w] \in Nat
      /\ watched[w] \in WatchedJobs /\ after[w] <= version[watched[w]] /\ after[w] = a.version
      /\ Seen(watched[w], a.version, a.status)
      /\ (IsCurrent(w) => shown.version <= after[w])
  BY <1>1, <1>2, WatchFacts DEF StatusWatchInv, WatchFits
<1>4. PICK st \in {"ended", "refresh", "pause", "ask"} : stage' = [stage EXCEPT ![w] = st]
  BY DEF Show, Move
<1>5. \/ shown' = shown
      \/ IsCurrent(w) /\ shown' = [version |-> a.version, status |-> a.status]
  BY <1>1 DEF Show
<1>6. Nothing \in Answers
  BY StatusWatchAssumption DEF Nothing, Answers, Versions, Statuses
<1>7. /\ answer' \in [Watches -> Answers] /\ stage'[w] = st
      /\ \A v \in Watches : v # w => answer'[v] = answer[v]
  BY <1>2, <1>4, <1>6, WatchTypes
<1>8. IsCurrent(w)' <=> IsCurrent(w)
  BY <1>2 DEF IsCurrent
<1>9. CASE shown' = shown
  <2>1. WatchFits(w)'
    BY <1>2, <1>3, <1>7, <1>8, <1>9 DEF WatchFits
  <2>2. ShownFits'
    BY <1>2, <1>9, ShownStays
  <2>3. st \in AtApi \cup AtPage \cup {"none", "ended"}
    BY DEF AtPage
  <2> QED
    BY <1>2, <1>4, <1>7, <1>9, <2>1, <2>2, <2>3, WatchTypes, StepWatch
<1>10. CASE IsCurrent(w) /\ shown' = [version |-> a.version, status |-> a.status]
  <2>1. /\ shown'.version = a.version /\ shown'.status = a.status
        /\ shown' \in [version : Versions, status : Statuses]
    BY <1>3, <1>10
  <2>2. WatchFits(w)'
    BY <1>2, <1>3, <1>7, <1>8, <2>1 DEF WatchFits
  <2>3. selected = watched[w]
    BY <1>10 DEF IsCurrent
  <2>4. ShownFits'
    BY <1>2, <1>3, <2>1, <2>3 DEF ShownFits, Seen
  <2>5. st \in AtApi \cup AtPage \cup {"none", "ended"}
    BY DEF AtPage
  <2> QED
    BY <1>2, <1>4, <1>7, <1>10, <2>1, <2>2, <2>4, <2>5, WatchTypes, StepWatch
<1> QED
  BY <1>5, <1>9, <1>10

LEMMA StepRefresh ==
    ASSUME StatusWatchInv, NEW w \in Watches, Refresh(w)
    PROVE  StatusWatchInv'
<1>1. PICK j : j = watched[w]
  OBVIOUS
<1>2. /\ stage[w] = "refresh" /\ stage' = [stage EXCEPT ![w] = "ended"]
      /\ shown' = IF IsCurrent(w) THEN [version |-> version[j], status |-> jobStatus[j]] ELSE shown
      /\ UNCHANGED <<version, jobStatus, hasRevision, endpoint, channelVars, selected, watch, watched,
                     after, fallback, isHeld, answer, faults>>
  BY <1>1 DEF Refresh, RequestAt, Move, jobVars
<1>3. j \in WatchedJobs /\ after[w] <= version[j]
  BY <1>1, <1>2 DEF StatusWatchInv, WatchFits
<1>4. version[j] \in Versions /\ version[j] \in Nat /\ jobStatus[j] \in Statuses
  BY <1>3, JobFacts DEF StatusWatchInv
<1>5. stage'[w] = "ended" /\ WatchFits(w)'
  BY <1>1, <1>2, <1>3, WatchTypes DEF WatchFits
<1>6. shown' \in [version : Versions, status : Statuses]
  BY <1>2, <1>4, WatchTypes
<1>7. ShownFits'
  <2>1. CASE IsCurrent(w)
    BY <1>1, <1>2, <1>4, <2>1 DEF IsCurrent, ShownFits, Seen
  <2>2. CASE ~IsCurrent(w)
    BY <1>2, <2>2, ShownStays
  <2> QED
    BY <2>1, <2>2
<1>8. shown' = shown \/ IsCurrent(w)
  BY <1>2
<1>9. "ended" \in AtApi \cup AtPage \cup {"none", "ended"}
  OBVIOUS
<1> QED
  BY <1>2, <1>5, <1>6, <1>7, <1>8, <1>9, WatchTypes, StepWatch

LEMMA StatusWatchStep ==
    StatusWatchInv /\ [StatusWatchNext]_statusWatchVars => StatusWatchInv'
<1> SUFFICES ASSUME StatusWatchInv, [StatusWatchNext]_statusWatchVars
             PROVE  StatusWatchInv'
  OBVIOUS
<1>1. CASE UNCHANGED statusWatchVars
  BY <1>1 DEF statusWatchVars, jobVars, channelVars, pageVars, watchVars, StatusWatchInv,
              StatusWatchTypeOK, ShownFits, RevisionsThere, WatchFits, Seen, IsCurrent
<1>2. ASSUME NEW j \in WatchedJobs, Advance(j) \/ SelectJob(j)
      PROVE  StatusWatchInv'
  BY <1>2, StepAdvance, StepSelectJob
<1>3. ASSUME NEW w \in Watches, WatchStep(w) \/ RequestFails(w)
      PROVE  StatusWatchInv'
  BY <1>3, StepReadJob, StepReadRevision, StepAsking, StepRespond, StepShow, StepRefresh
     DEF WatchStep
<1>4. ASSUME Deselect \/ StartListener \/ ListenerBreaks \/ RestartApi
                \/ \E n \in notifications : Notify(n)
      PROVE  StatusWatchInv'
  BY <1>4, StepDeselect, StepChannel
<1> QED
  BY <1>1, <1>2, <1>3, <1>4 DEF StatusWatchNext

\* The page shows what was once true of its job; a watch knows no less than the page, and
\* every answer is at least as new as what its watch knew when it asked (watchGenerationJob,
\* useGenerationJob and the status routes).
THEOREM StatusWatchInvariance == StatusWatchSpec => []StatusWatchInv
<1>1. StatusWatchInit => StatusWatchInv
  BY StatusWatchStart
<1>2. StatusWatchInv /\ [StatusWatchNext]_statusWatchVars => StatusWatchInv'
  BY StatusWatchStep
<1> QED
  BY <1>1, <1>2, PTL DEF StatusWatchSpec

-----------------------------------------------------------------------------
(* The status watch: what the page shows *)

\* What may change in what the page shows.
ShownGoesOn ==
    shown' # shown =>
        \/ selected' = NoJob \/ watch' # watch
        \/ /\ shown'.version > shown.version
           /\ shown'.version <= version[selected]
           /\ shown'.version = version[selected] => shown'.status = jobStatus[selected]

\* Two states of a job with one version are one state.
LEMMA SeenOnce ==
    ASSUME StatusWatchInv, NEW j \in WatchedJobs, selected = j, NEW v \in Nat, NEW s,
           Seen(j, v, s), shown.version <= v, shown' = [version |-> v, status |-> s]
    PROVE  ShownGoesOn
<1>1. Seen(j, shown.version, shown.status) /\ selected # NoJob
  BY StatusWatchAssumption DEF StatusWatchInv, ShownFits
<1>2. shown \in [version : Versions, status : Statuses] /\ shown.version \in Nat
  BY DEF StatusWatchInv, StatusWatchTypeOK, Versions
<1>3. CASE shown.version = v
  <2>1. shown.status = s
    BY <1>1, <1>3 DEF Seen
  <2>2. shown = [version |-> v, status |-> s]
    BY <1>2, <1>3, <2>1
  <2> QED
    BY <2>2 DEF ShownGoesOn
<1>4. CASE shown.version # v
  BY <1>2, <1>4 DEF ShownGoesOn, Seen
<1> QED
  BY <1>3, <1>4

LEMMA StepGoesOn ==
    ASSUME StatusWatchInv, [StatusWatchNext]_statusWatchVars
    PROVE  ShownGoesOn
<1>1. CASE shown' = shown
  BY <1>1 DEF ShownGoesOn
<1>2. ASSUME NEW j \in WatchedJobs, SelectJob(j)
      PROVE  ShownGoesOn
  <2>1. watch' = watch + 1 /\ watch \in Nat
    BY <1>2, StatusWatchAssumption DEF SelectJob, StatusWatchInv, StatusWatchTypeOK
  <2> QED
    BY <2>1 DEF ShownGoesOn
<1>3. CASE Deselect
  BY <1>3 DEF Deselect, ShownGoesOn
<1>4. ASSUME NEW w \in Watches, Show(w), shown' # shown
      PROVE  ShownGoesOn
  <2>1. /\ stage[w] = "got" /\ IsCurrent(w)
        /\ shown' = [version |-> answer[w].version, status |-> answer[w].status]
    BY <1>4 DEF Show, RequestAt
  <2>2. /\ watched[w] \in WatchedJobs /\ selected = watched[w]
        /\ Seen(watched[w], answer[w].version, answer[w].status)
        /\ shown.version <= answer[w].version /\ answer[w].version \in Nat
    BY <2>1, WatchFacts DEF StatusWatchInv, WatchFits, IsCurrent
  <2> QED
    BY <2>1, <2>2, SeenOnce
<1>5. ASSUME NEW w \in Watches, Refresh(w), shown' # shown
      PROVE  ShownGoesOn
  <2>1. /\ stage[w] = "refresh" /\ IsCurrent(w)
        /\ shown' = [version |-> version[watched[w]], status |-> jobStatus[watched[w]]]
    BY <1>5 DEF Refresh, RequestAt
  <2>2. watched[w] \in WatchedJobs /\ selected = watched[w]
    BY <2>1 DEF StatusWatchInv, WatchFits, IsCurrent
  <2>3. version[watched[w]] \in Nat /\ shown.version <= version[watched[w]]
    BY <2>2, JobFacts, StatusWatchAssumption DEF StatusWatchInv, ShownFits, Seen
  <2>4. Seen(watched[w], version[watched[w]], jobStatus[watched[w]])
    BY <2>3 DEF Seen
  <2> QED
    BY <2>1, <2>2, <2>3, <2>4, SeenOnce
<1>6. ASSUME shown' # shown
      PROVE  \/ \E j \in WatchedJobs : SelectJob(j)
             \/ Deselect
             \/ \E w \in Watches : Show(w) \/ Refresh(w)
  <2>1. ~UNCHANGED pageVars
    BY <1>6 DEF pageVars
  <2>2. StatusWatchNext
    BY <2>1 DEF statusWatchVars
  <2>3. ASSUME NEW w \in Watches, WatchStep(w) \/ RequestFails(w)
        PROVE  Show(w) \/ Refresh(w)
    BY <2>1, <2>3 DEF WatchStep, RequestFails, ReadJob, ReadRevision, Hold, HoldEnds, Respond,
       Ask,
                      PauseEnds
  <2>4. ~ \E j \in WatchedJobs : Advance(j)
    BY <2>1 DEF Advance
  <2>5. ~ \E n \in notifications : Notify(n)
    BY <2>1 DEF Notify
  <2>6. ~(StartListener \/ ListenerBreaks \/ RestartApi)
    BY <2>1 DEF StartListener, ListenerBreaks, RestartApi
  <2> QED
    BY <2>2, <2>3, <2>4, <2>5, <2>6 DEF StatusWatchNext
<1> QED
  BY <1>1, <1>2, <1>3, <1>4, <1>5, <1>6

\* What the page shows of its job is what was true of it and never goes back, however late
\* answers arrive and whatever notifications are lost; what it is told to have succeeded comes
\* with its revision (isCurrent in use-generation-job.ts, readStatus in routes.ts).
THEOREM WatchNeverGoesBack == StatusWatchSpec => ShownNeverGoesBack
<1>1. StatusWatchInv /\ StatusWatchInv' /\ [StatusWatchNext]_statusWatchVars
        => [/\ shown' # shown =>
                 \/ selected' = NoJob \/ watch' # watch
                 \/ /\ shown'.version > shown.version
                    /\ shown'.version <= version[selected]
                    /\ shown'.version = version[selected] =>
                        shown'.status = jobStatus[selected]
            /\ \A w \in Watches :
                 stage'[w] \in {"decide", "got"} /\ answer'[w].status = "succeeded" =>
                     answer'[w].revision]_statusWatchVars
  BY StepGoesOn DEF ShownGoesOn, StatusWatchInv, WatchFits
<1> QED
  BY <1>1, StatusWatchInvariance, PTL DEF StatusWatchSpec, ShownNeverGoesBack
=============================================================================
