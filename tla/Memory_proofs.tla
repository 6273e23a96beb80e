----------------------------- MODULE Memory_proofs -----------------------------
(***************************************************************************)
(* Proofs about the memories of a project: MemoryRevocation, for any       *)
(* processes, memories and sources and any number of restores;             *)
(* ProjectMemory, for any requests, candidates and bounds; and             *)
(* MemoryReads, for any number of messages, versions and moments.          *)
(***************************************************************************)
EXTENDS MemoryRevocation, ProjectMemory, MemoryReads, SequenceTheorems, FiniteSetTheorems, TLAPS

-----------------------------------------------------------------------------
(* Deleted memories: the inductive invariant *)

DeletionStages == {"deleteWait", "deleteReplay", "recoverReplay", "settled", "judging"}
                      \cup TransactionStages

\* What is written to the ledger, and to the checkpoint, is written under the lock.
LockHeld == \A p \in Processes : stage[p] \in LockStages => ledgerLock = p

\* A deletion is asked for a memory that exists, ...
TargetsBorn ==
    \A p \in Processes : stage[p] \in DeletionStages =>
        target[p] \in Memories /\ scope[target[p]] # "unborn"

\* ... and ids are not used twice: what was deleted or logged cannot be created.
GoneAreBorn ==
    \A m \in Logged \cup memoryDb.tombstones \cup backup.tombstones : scope[m] # "unborn"

\* A tombstone comes with all other effects of its deletion.
TombstonesEffective ==
    \A d \in {memoryDb, backup} : \A m \in d.tombstones : Effective(d, m)

\* The checkpoint is a place in the ledger, and all records before it have their tombstone.
RecordsApplied ==
    \A d \in {memoryDb, backup} :
        /\ d.checkpoint <= Len(events)
        /\ \A i \in 1..d.checkpoint : events[i] \in d.tombstones

\* Before the ledger is initialized nobody passes the gate and no deletion is written; from
\* then on every deletion there is, in the database or in the backup, is in the ledger.
LedgerComplete ==
    IF ledgerState = "initialized"
    THEN memoryDb.tombstones \cup backup.tombstones \subseteq Logged
    ELSE /\ memoryDb.tombstones = backup.tombstones
         /\ memoryDb.checkpoint = NoCheckpoint /\ backup.checkpoint = NoCheckpoint
         /\ \A p \in Processes : stage[p] \in {"idle", "importing"}

\* How far the deletion of a process is: its record is the one after the checkpoint, and what
\* it will acknowledge has its tombstone.
DeletionFits(p) ==
    /\ stage[p] \in {"judging", "deleting"} => memoryDb.checkpoint = Len(events)
    /\ stage[p] \in {"logged", "headed"} =>
          /\ memoryDb.checkpoint \in Nat
          /\ Len(events) = memoryDb.checkpoint + 1 /\ events[Len(events)] = target[p]
    /\ stage[p] = "recoverReplay" => target[p] \in Logged
    /\ stage[p] = "settled" => target[p] \in memoryDb.tombstones
DeletionsFit == \A p \in Processes : DeletionFits(p)

\* Behind the gate every acknowledged deletion is in effect; a process that compares has
\* found the others in the ledger.
GateHolds(p) ==
    /\ stage[p] = "ready" => acknowledged \subseteq memoryDb.tombstones
    /\ stage[p] = "journal" =>
          /\ seen[p] <= Len(events)
          /\ \A m \in acknowledged : m \in memoryDb.tombstones
                                     \/ \E i \in 1..seen[p] : events[i] = m
GatesHold == \A p \in Processes : GateHolds(p)

RevocationInv ==
    /\ RevocationTypeOK /\ LockHeld /\ TargetsBorn /\ GoneAreBorn /\ TombstonesEffective
    /\ RecordsApplied /\ LedgerComplete /\ DeletionsFit /\ acknowledged \subseteq Logged
    /\ GatesHold


USE RevocationAssumption
USE DEF Become, ForgetJournal, ledgerVars, gateVars, faultVars

-----------------------------------------------------------------------------
(* Deleted memories: lemmas *)

\* Nothing has been deleted yet.
LEMMA RevocationStart == RevocationInit => RevocationInv
<1> SUFFICES ASSUME RevocationInit PROVE RevocationInv
  OBVIOUS
<1> DEFINE deleted == {m \in Memories : scope[m] = "project"}
<1>1. /\ memoryDb = [live |-> {}, tombstones |-> deleted,
                     projectSuppressed |-> MessagesBehind(deleted), privateSuppressed |-> {},
                     checkpoint |-> NoCheckpoint]
      /\ backup = memoryDb /\ events = <<>> /\ scope \in [Memories -> {"unborn", "project"}]
  BY DEF RevocationInit
<1>2. \A m \in deleted : SourceOf[m] \subseteq MessagesBehind(deleted) /\ scope[m] = "project"
  BY DEF MessagesBehind
<1>3. MessagesBehind(deleted) \subseteq Messages
  BY DEF MessagesBehind
<1> HIDE DEF deleted
<1>4. deleted \subseteq Memories
  BY DEF deleted
<1>5. memoryDb \in Databases
  BY <1>1, <1>3, <1>4 DEF Databases, NoCheckpoint
<1>6. RevocationTypeOK
  BY <1>1, <1>5 DEF RevocationInit, RevocationTypeOK, Journals, Stages, Processes
<1>7. Logged = {}
  BY <1>1 DEF Logged
<1>8. LockHeld /\ TargetsBorn /\ DeletionsFit /\ GatesHold
  BY DEF RevocationInit, LockHeld, TargetsBorn, DeletionsFit, DeletionFits, GatesHold, GateHolds,
         LockStages, ReplayStages, DeletionStages, TransactionStages
<1>9. GoneAreBorn
  BY <1>1, <1>2, <1>7 DEF GoneAreBorn
<1>10. TombstonesEffective
  BY <1>1, <1>2 DEF TombstonesEffective, Effective, SuppressedFor
<1>11. RecordsApplied
  BY <1>1 DEF RecordsApplied, NoCheckpoint
<1>12. LedgerComplete
  BY <1>1 DEF RevocationInit, LedgerComplete
<1> QED
  BY <1>6, <1>7, <1>8, <1>9, <1>10, <1>11, <1>12 DEF RevocationInv, RevocationInit

\* What a logged deletion does to the database: the new tombstone is effective, and those there
\* are stay so.
LEMMA RevokeFacts ==
    ASSUME scope \in [Memories -> {"unborn", "project", "private"}], UNCHANGED scope,
           memoryDb \in Databases, NEW m \in Memories, NEW n \in Nat,
           memoryDb' = [Revoke(memoryDb, m) EXCEPT !.checkpoint = n]
    PROVE  /\ memoryDb' \in Databases
           /\ memoryDb'.tombstones = memoryDb.tombstones \cup {m}
           /\ memoryDb'.checkpoint = n
           /\ Effective(memoryDb, m)'
           /\ \A k \in Memories : Effective(memoryDb, k) => Effective(memoryDb, k)'
<1>1. /\ memoryDb.live \subseteq Memories /\ memoryDb.tombstones \subseteq Memories
      /\ memoryDb.projectSuppressed \subseteq Messages
      /\ memoryDb.privateSuppressed \subseteq Messages
      /\ SourceOf[m] \subseteq Messages
  BY DEF Databases
<1>2. memoryDb = [live |-> memoryDb.live, tombstones |-> memoryDb.tombstones,
                  projectSuppressed |-> memoryDb.projectSuppressed,
                  privateSuppressed |-> memoryDb.privateSuppressed,
                  checkpoint |-> memoryDb.checkpoint]
  BY DEF Databases
<1>3. memoryDb' = [live |-> memoryDb.live \ {m}, tombstones |-> memoryDb.tombstones \cup {m},
                   projectSuppressed |-> IF scope[m] = "private" THEN memoryDb.projectSuppressed
                                         ELSE memoryDb.projectSuppressed \cup SourceOf[m],
                   privateSuppressed |-> IF scope[m] = "private"
                                         THEN memoryDb.privateSuppressed \cup SourceOf[m]
                                         ELSE memoryDb.privateSuppressed,
                   checkpoint |-> n]
  <2>1. CASE scope[m] = "private"
    BY <1>2, <2>1 DEF Revoke
  <2>2. CASE scope[m] # "private"
    BY <1>2, <2>2 DEF Revoke
  <2> QED
    BY <2>1, <2>2
<1>4. /\ memoryDb'.live = memoryDb.live \ {m} /\ memoryDb'.tombstones = memoryDb.tombstones \cup {m}
      /\ memoryDb'.projectSuppressed = (IF scope[m] = "private" THEN memoryDb.projectSuppressed
                                        ELSE memoryDb.projectSuppressed \cup SourceOf[m])
      /\ memoryDb'.privateSuppressed = (IF scope[m] = "private"
                                        THEN memoryDb.privateSuppressed \cup SourceOf[m]
                                        ELSE memoryDb.privateSuppressed)
      /\ memoryDb'.checkpoint = n
  BY <1>3
<1>5. memoryDb' \in Databases
  <2>1. /\ memoryDb'.live \subseteq Memories /\ memoryDb'.tombstones \subseteq Memories
        /\ memoryDb'.projectSuppressed \subseteq Messages
        /\ memoryDb'.privateSuppressed \subseteq Messages
        /\ memoryDb'.checkpoint \in Nat
    BY <1>1, <1>4
  <2>2. memoryDb' = [live |-> memoryDb'.live, tombstones |-> memoryDb'.tombstones,
                     projectSuppressed |-> memoryDb'.projectSuppressed,
                     privateSuppressed |-> memoryDb'.privateSuppressed,
                     checkpoint |-> memoryDb'.checkpoint]
    BY ONLY <1>3, <1>4
  <2> QED
    BY ONLY <2>1, <2>2 DEF Databases
<1> QED
  BY <1>4, <1>5 DEF Effective, SuppressedFor

\* A record that is appended is the last of the ledger.
LEMMA AppendFacts ==
    ASSUME events \in Journals, NEW m \in Memories, events' = Append(events, m)
    PROVE  /\ events' \in Journals
           /\ Len(events) \in Nat /\ Len(events') = Len(events) + 1
           /\ events'[Len(events')] = m
           /\ \A i \in 1..Len(events) : events'[i] = events[i]
           /\ Logged' = Logged \cup {m}
<1>1. /\ events' \in Journals
      /\ Len(events) \in Nat /\ Len(events') = Len(events) + 1
      /\ events'[Len(events')] = m
      /\ \A i \in 1..Len(events) : events'[i] = events[i]
  BY DEF Journals
<1>2. 1..Len(events') = (1..Len(events)) \cup {Len(events')}
  BY <1>1
<1>3. Logged' = Logged \cup {m}
  BY <1>1, <1>2 DEF Logged
<1> QED
  BY <1>1, <1>3

\* The journal has a length, and what is logged are memories.
LEMMA LoggedFacts ==
    ASSUME events \in Journals
    PROVE  /\ Len(events) \in Nat /\ Logged \subseteq Memories
           /\ \A i \in 1..Len(events) : events[i] \in Memories
  BY DEF Journals, Logged

\* The next record of a replay is a record.
LEMMA NextRecord ==
    ASSUME RevocationTypeOK, Applied < Len(events)
    PROVE  /\ Applied \in Nat /\ Applied + 1 \in 1..Len(events)
           /\ events[Applied + 1] \in Memories
<1>1. Applied \in Nat
  BY DEF RevocationTypeOK, Applied, Databases, NoCheckpoint
<1> QED
  BY <1>1, LoggedFacts DEF RevocationTypeOK

\* Ledger, database and processes keep their types.
LEMMA StepRevocationTypes ==
    ASSUME RevocationTypeOK, TargetsBorn, [RevocationNext]_revocationVars
    PROVE  RevocationTypeOK'
<1> USE DEF RevocationTypeOK, Stages, LockStages, ReplayStages, TransactionStages, Processes
<1>1. CASE UNCHANGED <<revocationVars>>
  BY <1>1 DEF revocationVars
<1>2. ASSUME NEW p \in Processes, ReadJournal(p) PROVE RevocationTypeOK'
  <2>1. Len(events) \in Nat
    BY LoggedFacts
  <2> QED
    BY <1>2, <2>1 DEF ReadJournal
<1>3. ASSUME NEW p \in Processes, CompareCheckpoint(p) PROVE RevocationTypeOK'
  BY <1>3 DEF CompareCheckpoint
<1>4. ASSUME NEW p \in Processes, TakeLock(p) PROVE RevocationTypeOK'
  <2>1. AfterLock[stage[p]] \in {"gateReplay", "deleteReplay"}
    BY <1>4 DEF TakeLock, AfterLock
  <2> QED
    BY <1>4, <2>1 DEF TakeLock
<1>5. ASSUME NEW p \in Processes, ReplayHead(p) PROVE RevocationTypeOK'
  <2>1. Len(events) \in Nat
    BY LoggedFacts
  <2> QED
    BY <1>5, <2>1 DEF ReplayHead
<1>6. ASSUME NEW p \in Processes, ReplayRecord(p) PROVE RevocationTypeOK'
  <2>1. Applied \in Nat /\ Applied + 1 \in Nat /\ events[Applied + 1] \in Memories
    BY <1>6, NextRecord DEF ReplayRecord
  <2>2. memoryDb' \in Databases
    BY <1>6, <2>1, RevokeFacts DEF ReplayRecord
  <2> QED
    BY <1>6, <2>2 DEF ReplayRecord
<1>7. ASSUME NEW p \in Processes, ReplayDone(p) PROVE RevocationTypeOK'
  <2>1. AfterReplay[stage[p]] \in {"ready", "judging", "settled", "idle"}
    BY <1>7 DEF ReplayDone, AfterReplay
  <2> QED
    BY <1>7, <2>1 DEF ReplayDone
<1>8. ASSUME NEW p \in Processes, StartImport(p) PROVE RevocationTypeOK'
  BY <1>8 DEF StartImport
<1>9. ASSUME NEW p \in Processes, ImportCreateHead(p) PROVE RevocationTypeOK'
  BY <1>9 DEF ImportCreateHead
<1>10. ASSUME NEW p \in Processes, ImportAdvanceHead(p) PROVE RevocationTypeOK'
  <2>1. Len(events) \in Nat
    BY LoggedFacts
  <2>2. /\ ledgerHead' = Len(events)
        /\ UNCHANGED <<scope, ledgerState, events, memoryDb, faultVars, gateVars, ledgerLock,
                       stage, target, acknowledged>>
    BY <1>10 DEF ImportAdvanceHead
  <2> QED
    BY <2>1, <2>2
<1>11. ASSUME NEW p \in Processes, ImportAppend(p) PROVE RevocationTypeOK'
  <2>1. PICK m \in Drafts : events' = Append(events, m)
    BY <1>11 DEF ImportAppend
  <2>2. m \in Memories
    BY <2>1 DEF Drafts, Databases
  <2>3. events' \in Journals
    BY <2>1, <2>2, AppendFacts
  <2> QED
    BY <1>11, <2>3 DEF ImportAppend
<1>12. ASSUME NEW p \in Processes, ImportMarkInitialized(p) PROVE RevocationTypeOK'
  BY <1>12 DEF ImportMarkInitialized
<1>13. ASSUME NEW p \in Processes, ImportFinish(p) PROVE RevocationTypeOK'
  <2>1. memoryDb' \in Databases
    <3>1. memoryDb' = memoryDb \/ memoryDb' = [memoryDb EXCEPT !.checkpoint = 0]
      BY <1>13 DEF ImportFinish
    <3> QED
      BY <3>1 DEF Databases
  <2> QED
    BY <1>13, <2>1 DEF ImportFinish
<1>14. ASSUME NEW p \in Processes, CreateMemory(p) PROVE RevocationTypeOK'
  <2>1. PICK m \in Memories, s \in {"project", "private"} :
          /\ scope' = [scope EXCEPT ![m] = s]
          /\ memoryDb' = [memoryDb EXCEPT !.live = @ \cup {m}]
    BY <1>14 DEF CreateMemory
  <2>2. memoryDb' \in Databases
    BY <2>1 DEF Databases
  <2> QED
    BY <1>14, <2>1, <2>2 DEF CreateMemory
<1>15. ASSUME NEW p \in Processes, Send(p) PROVE RevocationTypeOK'
  BY <1>15 DEF Send
<1>16. ASSUME NEW p \in Processes, RequestDeletion(p) PROVE RevocationTypeOK'
  BY <1>16 DEF RequestDeletion
<1>17. ASSUME NEW p \in Processes, BeginDeletion(p) PROVE RevocationTypeOK'
  BY <1>17 DEF BeginDeletion
<1>18. ASSUME NEW p \in Processes, FindDeleted(p) PROVE RevocationTypeOK'
  BY <1>18 DEF FindDeleted
<1>19. ASSUME NEW p \in Processes, PersistEvent(p) PROVE RevocationTypeOK'
  <2>1. target[p] \in Memories
    BY <1>19 DEF PersistEvent, TargetsBorn, DeletionStages, TransactionStages
  <2>2. events' \in Journals
    BY <1>19, <2>1, AppendFacts DEF PersistEvent
  <2> QED
    BY <1>19, <2>2 DEF PersistEvent
<1>20. ASSUME NEW p \in Processes, AdvanceHead(p) PROVE RevocationTypeOK'
  <2>1. Len(events) \in Nat
    BY LoggedFacts
  <2> QED
    BY <1>20, <2>1 DEF AdvanceHead
<1>21. ASSUME NEW p \in Processes, CommitDeletion(p) PROVE RevocationTypeOK'
  <2>1. target[p] \in Memories /\ Len(events) \in Nat
    BY <1>21, LoggedFacts DEF CommitDeletion, TargetsBorn, DeletionStages, TransactionStages
  <2>2. memoryDb' \in Databases
    BY <1>21, <2>1, RevokeFacts DEF CommitDeletion
  <2> QED
    BY <1>21, <2>2 DEF CommitDeletion
<1>22. ASSUME NEW p \in Processes, RollBackDeletion(p) PROVE RevocationTypeOK'
  BY <1>22 DEF RollBackDeletion
<1>23. ASSUME NEW p \in Processes, Acknowledge(p) PROVE RevocationTypeOK'
  <2>1. target[p] \in Memories
    BY <1>23 DEF Acknowledge, TargetsBorn, DeletionStages, TransactionStages
  <2> QED
    BY <1>23, <2>1 DEF Acknowledge
<1>24. ASSUME NEW p \in Processes, Abort(p) PROVE RevocationTypeOK'
  BY <1>24 DEF Abort
<1>25. ASSUME TakeBackup PROVE RevocationTypeOK'
  BY <1>25 DEF TakeBackup
<1>26. ASSUME Restore PROVE RevocationTypeOK'
  BY <1>26 DEF Restore
<1> QED
  BY <1>1, <1>2, <1>3, <1>4, <1>5, <1>6, <1>7, <1>8, <1>9, <1>10, <1>11, <1>12, <1>13, <1>14,
     <1>15, <1>16, <1>17, <1>18, <1>19, <1>20, <1>21, <1>22, <1>23, <1>24, <1>25, <1>26
  DEF RevocationNext, RevocationStep, revocationVars

\* A new memory gets an active row and a scope for good.
LEMMA Created ==
    ASSUME RevocationTypeOK, NEW p \in Processes, CreateMemory(p)
    PROVE  \E m \in Memories, s \in {"project", "private"} :
              /\ scope[m] = "unborn" /\ scope' = [scope EXCEPT ![m] = s]
              /\ memoryDb'.live = memoryDb.live \cup {m}
              /\ memoryDb'.tombstones = memoryDb.tombstones
              /\ memoryDb'.projectSuppressed = memoryDb.projectSuppressed
              /\ memoryDb'.privateSuppressed = memoryDb.privateSuppressed
              /\ memoryDb'.checkpoint = memoryDb.checkpoint
  BY DEF CreateMemory, RevocationTypeOK, Databases

\* An import that finds nothing to log starts the checkpoint.
LEMMA Finished ==
    ASSUME RevocationTypeOK, NEW p \in Processes, ImportFinish(p)
    PROVE  /\ memoryDb'.live = memoryDb.live
           /\ memoryDb'.tombstones = memoryDb.tombstones
           /\ memoryDb'.projectSuppressed = memoryDb.projectSuppressed
           /\ memoryDb'.privateSuppressed = memoryDb.privateSuppressed
           /\ memoryDb'.checkpoint = memoryDb.checkpoint \/ (events = <<>> /\ memoryDb'.checkpoint = 0)
  BY DEF ImportFinish, RevocationTypeOK, Databases

\* What a replay and a deletion write.
LEMMA RecordWritten ==
    ASSUME RevocationTypeOK, TargetsBorn, NEW p \in Processes, ReplayRecord(p) \/ CommitDeletion(p)
    PROVE  \E m \in Memories, n \in Nat :
              /\ memoryDb' = [Revoke(memoryDb, m) EXCEPT !.checkpoint = n]
              /\ memoryDb'.tombstones = memoryDb.tombstones \cup {m}
              /\ memoryDb'.checkpoint = n
              /\ Effective(memoryDb, m)'
              /\ \A k \in Memories : Effective(memoryDb, k) => Effective(memoryDb, k)'
              /\ ReplayRecord(p) => m = events[Applied + 1] /\ n = Applied + 1
              /\ CommitDeletion(p) => m = target[p] /\ n = Len(events)
<1>1. CASE ReplayRecord(p)
  <2>1. /\ Applied + 1 \in Nat /\ events[Applied + 1] \in Memories /\ UNCHANGED scope
        /\ memoryDb' = [Revoke(memoryDb, events[Applied + 1]) EXCEPT !.checkpoint = Applied + 1]
        /\ stage[p] \in ReplayStages
    BY <1>1, NextRecord DEF ReplayRecord
  <2>2. ~CommitDeletion(p)
    BY <2>1 DEF CommitDeletion, ReplayStages
  <2> QED
    BY <2>1, <2>2, RevokeFacts DEF RevocationTypeOK
<1>2. CASE CommitDeletion(p)
  <2>1. /\ Len(events) \in Nat /\ target[p] \in Memories /\ UNCHANGED scope
        /\ memoryDb' = [Revoke(memoryDb, target[p]) EXCEPT !.checkpoint = Len(events)]
    BY <1>2, LoggedFacts DEF CommitDeletion, TargetsBorn, DeletionStages, TransactionStages,
                             RevocationTypeOK
  <2>2. ~ReplayRecord(p)
    BY <1>2 DEF ReplayRecord, ReplayStages, CommitDeletion
  <2> QED
    BY <2>1, <2>2, RevokeFacts DEF RevocationTypeOK
<1> QED
  BY <1>1, <1>2

-----------------------------------------------------------------------------
(* Deleted memories: every step keeps every part of the invariant *)

\* Whoever works on the ledger has taken the lock, and gives it back when it ends.
LEMMA StepLockHeld ==
    ASSUME RevocationTypeOK, LockHeld, [RevocationNext]_revocationVars
    PROVE  LockHeld'
<1> USE DEF RevocationTypeOK, LockHeld, Stages, LockStages, ReplayStages, TransactionStages
<1>1. CASE UNCHANGED <<stage, ledgerLock>>
  BY <1>1
<1>2. ASSUME NEW p \in Processes, ReadJournal(p) PROVE LockHeld'
  BY <1>2 DEF ReadJournal
<1>3. ASSUME NEW p \in Processes, CompareCheckpoint(p) PROVE LockHeld'
  BY <1>3 DEF CompareCheckpoint
<1>4. ASSUME NEW p \in Processes, TakeLock(p) PROVE LockHeld'
  <2>1. ledgerLock = Nobody /\ ledgerLock' = p /\ \A q \in Processes : q # p => stage'[q] = stage[q]
    BY <1>4 DEF TakeLock
  <2>2. \A q \in Processes : stage[q] \notin LockStages
    BY <2>1 DEF Processes
  <2> QED
    BY <2>1, <2>2
<1>5. ASSUME NEW p \in Processes, ReplayHead(p) PROVE LockHeld'
  BY <1>5 DEF ReplayHead
<1>6. ASSUME NEW p \in Processes, ReplayRecord(p) PROVE LockHeld'
  BY <1>6 DEF ReplayRecord
<1>7. ASSUME NEW p \in Processes, ReplayDone(p) PROVE LockHeld'
  BY <1>7 DEF ReplayDone, AfterReplay
<1>8. ASSUME NEW p \in Processes, StartImport(p) PROVE LockHeld'
  <2>1. ledgerLock = Nobody /\ ledgerLock' = p /\ \A q \in Processes : q # p => stage'[q] = stage[q]
    BY <1>8 DEF StartImport
  <2>2. \A q \in Processes : stage[q] \notin LockStages
    BY <2>1 DEF Processes
  <2> QED
    BY <2>1, <2>2
<1>9. ASSUME NEW p \in Processes, ImportCreateHead(p) PROVE LockHeld'
  BY <1>9 DEF ImportCreateHead
<1>10. ASSUME NEW p \in Processes, ImportAdvanceHead(p) PROVE LockHeld'
  BY <1>10 DEF ImportAdvanceHead
<1>11. ASSUME NEW p \in Processes, ImportAppend(p) PROVE LockHeld'
  BY <1>11 DEF ImportAppend
<1>12. ASSUME NEW p \in Processes, ImportMarkInitialized(p) PROVE LockHeld'
  BY <1>12 DEF ImportMarkInitialized
<1>13. ASSUME NEW p \in Processes, ImportFinish(p) PROVE LockHeld'
  BY <1>13 DEF ImportFinish
<1>14. ASSUME NEW p \in Processes, CreateMemory(p) PROVE LockHeld'
  BY <1>14 DEF CreateMemory
<1>15. ASSUME NEW p \in Processes, Send(p) PROVE LockHeld'
  BY <1>15 DEF Send
<1>16. ASSUME NEW p \in Processes, RequestDeletion(p) PROVE LockHeld'
  BY <1>16 DEF RequestDeletion
<1>17. ASSUME NEW p \in Processes, BeginDeletion(p) PROVE LockHeld'
  BY <1>17 DEF BeginDeletion
<1>18. ASSUME NEW p \in Processes, FindDeleted(p) PROVE LockHeld'
  BY <1>18 DEF FindDeleted
<1>19. ASSUME NEW p \in Processes, PersistEvent(p) PROVE LockHeld'
  BY <1>19 DEF PersistEvent
<1>20. ASSUME NEW p \in Processes, AdvanceHead(p) PROVE LockHeld'
  BY <1>20 DEF AdvanceHead
<1>21. ASSUME NEW p \in Processes, CommitDeletion(p) PROVE LockHeld'
  BY <1>21 DEF CommitDeletion
<1>22. ASSUME NEW p \in Processes, RollBackDeletion(p) PROVE LockHeld'
  BY <1>22 DEF RollBackDeletion
<1>23. ASSUME NEW p \in Processes, Acknowledge(p) PROVE LockHeld'
  BY <1>23 DEF Acknowledge
<1>24. ASSUME NEW p \in Processes, Abort(p) PROVE LockHeld'
  BY <1>24 DEF Abort
<1>25. ASSUME Restore PROVE LockHeld'
  BY <1>25 DEF Restore
<1> QED
  BY <1>1, <1>2, <1>3, <1>4, <1>5, <1>6, <1>7, <1>8, <1>9, <1>10, <1>11, <1>12, <1>13, <1>14,
     <1>15, <1>16, <1>17, <1>18, <1>19, <1>20, <1>21, <1>22, <1>23, <1>24, <1>25
  DEF RevocationNext, RevocationStep, TakeBackup, revocationVars

\* A deletion keeps its target, and memories are created once.
LEMMA StepTargetsBorn ==
    ASSUME RevocationTypeOK, TargetsBorn, [RevocationNext]_revocationVars
    PROVE  TargetsBorn'
<1> USE DEF RevocationTypeOK, TargetsBorn, DeletionStages, Stages, LockStages, ReplayStages,
            TransactionStages
<1>1. CASE UNCHANGED <<stage, target, scope>>
  BY <1>1
<1>2. ASSUME NEW p \in Processes, ReadJournal(p) PROVE TargetsBorn'
  BY <1>2 DEF ReadJournal
<1>3. ASSUME NEW p \in Processes, CompareCheckpoint(p) PROVE TargetsBorn'
  BY <1>3 DEF CompareCheckpoint
<1>4. ASSUME NEW p \in Processes, TakeLock(p) PROVE TargetsBorn'
  BY <1>4 DEF TakeLock, AfterLock
<1>5. ASSUME NEW p \in Processes, ReplayHead(p) PROVE TargetsBorn'
  BY <1>5 DEF ReplayHead
<1>6. ASSUME NEW p \in Processes, ReplayRecord(p) PROVE TargetsBorn'
  BY <1>6 DEF ReplayRecord
<1>7. ASSUME NEW p \in Processes, ReplayDone(p) PROVE TargetsBorn'
  BY <1>7 DEF ReplayDone, AfterReplay
<1>8. ASSUME NEW p \in Processes, StartImport(p) PROVE TargetsBorn'
  BY <1>8 DEF StartImport
<1>9. ASSUME NEW p \in Processes, ImportCreateHead(p) PROVE TargetsBorn'
  BY <1>9 DEF ImportCreateHead
<1>10. ASSUME NEW p \in Processes, ImportAdvanceHead(p) PROVE TargetsBorn'
  BY <1>10 DEF ImportAdvanceHead
<1>11. ASSUME NEW p \in Processes, ImportAppend(p) PROVE TargetsBorn'
  BY <1>11 DEF ImportAppend
<1>12. ASSUME NEW p \in Processes, ImportMarkInitialized(p) PROVE TargetsBorn'
  BY <1>12 DEF ImportMarkInitialized
<1>13. ASSUME NEW p \in Processes, ImportFinish(p) PROVE TargetsBorn'
  BY <1>13 DEF ImportFinish
<1>14. ASSUME NEW p \in Processes, CreateMemory(p) PROVE TargetsBorn'
  <2>1. PICK m \in Memories, s \in {"project", "private"} :
          scope[m] = "unborn" /\ scope' = [scope EXCEPT ![m] = s]
    BY <1>14, Created
  <2>2. UNCHANGED target /\ stage' = [stage EXCEPT ![p] = "idle"]
    BY <1>14 DEF CreateMemory
  <2> QED
    BY <2>1, <2>2
<1>15. ASSUME NEW p \in Processes, Send(p) PROVE TargetsBorn'
  <2>1. /\ stage' = [stage EXCEPT ![p] = "sending"] /\ UNCHANGED scope
        /\ \A q \in Processes : q # p => target'[q] = target[q]
    BY <1>15 DEF Send
  <2> QED
    BY <2>1
<1>16. ASSUME NEW p \in Processes, RequestDeletion(p) PROVE TargetsBorn'
  <2>1. PICK m \in Memories : scope[m] # "unborn" /\ target' = [target EXCEPT ![p] = m]
    BY <1>16 DEF RequestDeletion
  <2>2. UNCHANGED scope /\ stage' = [stage EXCEPT ![p] = "deleteWait"]
    BY <1>16 DEF RequestDeletion
  <2> QED
    BY <2>1, <2>2
<1>17. ASSUME NEW p \in Processes, BeginDeletion(p) PROVE TargetsBorn'
  BY <1>17 DEF BeginDeletion
<1>18. ASSUME NEW p \in Processes, FindDeleted(p) PROVE TargetsBorn'
  BY <1>18 DEF FindDeleted
<1>19. ASSUME NEW p \in Processes, PersistEvent(p) PROVE TargetsBorn'
  BY <1>19 DEF PersistEvent
<1>20. ASSUME NEW p \in Processes, AdvanceHead(p) PROVE TargetsBorn'
  BY <1>20 DEF AdvanceHead
<1>21. ASSUME NEW p \in Processes, CommitDeletion(p) PROVE TargetsBorn'
  BY <1>21 DEF CommitDeletion
<1>22. ASSUME NEW p \in Processes, RollBackDeletion(p) PROVE TargetsBorn'
  BY <1>22 DEF RollBackDeletion
<1>23. ASSUME NEW p \in Processes, Acknowledge(p) PROVE TargetsBorn'
  BY <1>23 DEF Acknowledge
<1>24. ASSUME NEW p \in Processes, Abort(p) PROVE TargetsBorn'
  BY <1>24 DEF Abort
<1>25. ASSUME Restore PROVE TargetsBorn'
  BY <1>25 DEF Restore
<1> QED
  BY <1>1, <1>2, <1>3, <1>4, <1>5, <1>6, <1>7, <1>8, <1>9, <1>10, <1>11, <1>12, <1>13, <1>14,
     <1>15, <1>16, <1>17, <1>18, <1>19, <1>20, <1>21, <1>22, <1>23, <1>24, <1>25
  DEF RevocationNext, RevocationStep, TakeBackup, revocationVars

\* Only memories that exist are logged or deleted, and ids are not used again.
LEMMA StepGoneAreBorn ==
    ASSUME RevocationTypeOK, TargetsBorn, GoneAreBorn, [RevocationNext]_revocationVars
    PROVE  GoneAreBorn'
<1>1. CASE UNCHANGED <<scope, events, memoryDb, backup>>
  BY <1>1 DEF GoneAreBorn, Logged
<1>2. ASSUME NEW p \in Processes, ReplayRecord(p) PROVE GoneAreBorn'
  <2>1. PICK m \in Memories : memoryDb'.tombstones = memoryDb.tombstones \cup {m}
                            /\ (m \in Logged \/ scope[m] # "unborn")
    <3>1. \A i \in 1..Len(events) : events[i] \in Logged
      BY DEF Logged
    <3>2. CommitDeletion(p) => scope[target[p]] # "unborn"
      BY DEF CommitDeletion, TargetsBorn, DeletionStages, TransactionStages
    <3>3. ReplayRecord(p) => events[Applied + 1] \in Logged
      BY <3>1, NextRecord DEF ReplayRecord
    <3> QED
      BY <1>2, <3>2, <3>3, RecordWritten
  <2>2. UNCHANGED <<scope, events, backup>>
    BY <1>2 DEF ReplayRecord, faultVars
  <2> QED
    BY <2>1, <2>2 DEF GoneAreBorn, Logged
<1>3. ASSUME NEW p \in Processes, ImportAppend(p) PROVE GoneAreBorn'
  <2>1. PICK m \in Memories : m \in memoryDb.tombstones /\ events' = Append(events, m)
    BY <1>3 DEF ImportAppend, Drafts, RevocationTypeOK, Databases
  <2>2. Logged' = Logged \cup {m} /\ UNCHANGED <<scope, memoryDb, backup>>
    BY <1>3, <2>1, AppendFacts DEF ImportAppend, RevocationTypeOK
  <2> QED
    BY <2>1, <2>2 DEF GoneAreBorn
<1>4. ASSUME NEW p \in Processes, ImportFinish(p) PROVE GoneAreBorn'
  <2>1. memoryDb'.tombstones = memoryDb.tombstones /\ UNCHANGED <<scope, events, backup>>
    BY <1>4, Finished DEF ImportFinish
  <2> QED
    BY <2>1 DEF GoneAreBorn, Logged
<1>5. ASSUME NEW p \in Processes, CreateMemory(p) PROVE GoneAreBorn'
  <2>1. PICK m \in Memories, s \in {"project", "private"} :
          /\ scope[m] = "unborn" /\ scope' = [scope EXCEPT ![m] = s]
          /\ memoryDb'.tombstones = memoryDb.tombstones
    BY <1>5, Created
  <2>2. UNCHANGED <<events, backup>>
    BY <1>5 DEF CreateMemory
  <2>3. Logged \cup memoryDb.tombstones \cup backup.tombstones \subseteq Memories
    BY LoggedFacts DEF RevocationTypeOK, Databases
  <2> QED
    BY <2>1, <2>2, <2>3 DEF GoneAreBorn, Logged, RevocationTypeOK
<1>6. ASSUME NEW p \in Processes, PersistEvent(p) PROVE GoneAreBorn'
  <2>1. target[p] \in Memories /\ scope[target[p]] # "unborn"
    BY <1>6 DEF PersistEvent, TargetsBorn, DeletionStages, TransactionStages
  <2>2. Logged' = Logged \cup {target[p]} /\ UNCHANGED <<scope, memoryDb, backup>>
    BY <1>6, <2>1, AppendFacts DEF PersistEvent, RevocationTypeOK
  <2> QED
    BY <2>1, <2>2 DEF GoneAreBorn
<1>7. ASSUME NEW p \in Processes, CommitDeletion(p) PROVE GoneAreBorn'
  <2>1. PICK m \in Memories : memoryDb'.tombstones = memoryDb.tombstones \cup {m}
                            /\ (m \in Logged \/ scope[m] # "unborn")
    <3>1. \A i \in 1..Len(events) : events[i] \in Logged
      BY DEF Logged
    <3>2. CommitDeletion(p) => scope[target[p]] # "unborn"
      BY DEF CommitDeletion, TargetsBorn, DeletionStages, TransactionStages
    <3>3. ReplayRecord(p) => events[Applied + 1] \in Logged
      BY <3>1, NextRecord DEF ReplayRecord
    <3> QED
      BY <1>7, <3>2, <3>3, RecordWritten
  <2>2. UNCHANGED <<scope, events, backup>>
    BY <1>7 DEF CommitDeletion, faultVars
  <2> QED
    BY <2>1, <2>2 DEF GoneAreBorn, Logged
<1>8. ASSUME TakeBackup PROVE GoneAreBorn'
  BY <1>8 DEF TakeBackup, GoneAreBorn, Logged
<1>9. ASSUME Restore PROVE GoneAreBorn'
  BY <1>9 DEF Restore, GoneAreBorn, Logged
<1> QED
  BY <1>1, <1>2, <1>3, <1>4, <1>5, <1>6, <1>7, <1>8, <1>9
  DEF RevocationNext, RevocationStep, ReadJournal, CompareCheckpoint, TakeLock, ReplayHead,
      ReplayDone, StartImport, ImportCreateHead, ImportAdvanceHead, ImportMarkInitialized, Send,
      RequestDeletion, BeginDeletion, FindDeleted, AdvanceHead, RollBackDeletion, Acknowledge,
      Abort, revocationVars

\* A tombstone is written with the other effects, and no row comes back beside it.
LEMMA StepTombstonesEffective ==
    ASSUME RevocationTypeOK, TargetsBorn, GoneAreBorn, TombstonesEffective, [RevocationNext]_revocationVars
    PROVE  TombstonesEffective'
<1>1. CASE UNCHANGED <<scope, memoryDb, backup>>
  BY <1>1 DEF TombstonesEffective, Effective, SuppressedFor
<1>2. ASSUME NEW p \in Processes, ReplayRecord(p) PROVE TombstonesEffective'
  <2>1. PICK m \in Memories : /\ memoryDb'.tombstones = memoryDb.tombstones \cup {m}
                            /\ Effective(memoryDb, m)'
                            /\ \A k \in Memories : Effective(memoryDb, k) => Effective(memoryDb, k)'
    BY <1>2, RecordWritten
  <2>2. UNCHANGED <<scope, backup>>
    BY <1>2 DEF ReplayRecord, faultVars
  <2>3. \A k \in Memories : Effective(backup, k) => Effective(backup, k)'
    BY <2>2 DEF Effective, SuppressedFor
  <2>4. memoryDb.tombstones \subseteq Memories /\ backup.tombstones \subseteq Memories
    BY DEF RevocationTypeOK, Databases
  <2> QED
    BY <2>1, <2>2, <2>3, <2>4 DEF TombstonesEffective
<1>3. ASSUME NEW p \in Processes, ImportFinish(p) PROVE TombstonesEffective'
  <2>1. /\ memoryDb'.live = memoryDb.live /\ memoryDb'.tombstones = memoryDb.tombstones
        /\ memoryDb'.projectSuppressed = memoryDb.projectSuppressed
        /\ memoryDb'.privateSuppressed = memoryDb.privateSuppressed
        /\ UNCHANGED <<scope, backup>>
    BY <1>3, Finished DEF ImportFinish
  <2> QED
    BY <2>1 DEF TombstonesEffective, Effective, SuppressedFor
<1>4. ASSUME NEW p \in Processes, CreateMemory(p) PROVE TombstonesEffective'
  <2>1. PICK m \in Memories, s \in {"project", "private"} :
          /\ scope[m] = "unborn" /\ scope' = [scope EXCEPT ![m] = s]
          /\ memoryDb'.live = memoryDb.live \cup {m}
          /\ memoryDb'.tombstones = memoryDb.tombstones
          /\ memoryDb'.projectSuppressed = memoryDb.projectSuppressed
          /\ memoryDb'.privateSuppressed = memoryDb.privateSuppressed
    BY <1>4, Created
  <2>2. UNCHANGED backup
    BY <1>4 DEF CreateMemory
  <2>3. \A k \in memoryDb.tombstones \cup backup.tombstones : k # m /\ k \in Memories /\ scope'[k] = scope[k]
    BY <2>1 DEF GoneAreBorn, RevocationTypeOK, Databases
  <2> QED
    BY <2>1, <2>2, <2>3 DEF TombstonesEffective, Effective, SuppressedFor
<1>5. ASSUME NEW p \in Processes, CommitDeletion(p) PROVE TombstonesEffective'
  <2>1. PICK m \in Memories : /\ memoryDb'.tombstones = memoryDb.tombstones \cup {m}
                            /\ Effective(memoryDb, m)'
                            /\ \A k \in Memories : Effective(memoryDb, k) => Effective(memoryDb, k)'
    BY <1>5, RecordWritten
  <2>2. UNCHANGED <<scope, backup>>
    BY <1>5 DEF CommitDeletion, faultVars
  <2>3. \A k \in Memories : Effective(backup, k) => Effective(backup, k)'
    BY <2>2 DEF Effective, SuppressedFor
  <2>4. memoryDb.tombstones \subseteq Memories /\ backup.tombstones \subseteq Memories
    BY DEF RevocationTypeOK, Databases
  <2> QED
    BY <2>1, <2>2, <2>3, <2>4 DEF TombstonesEffective
<1>6. ASSUME TakeBackup PROVE TombstonesEffective'
  BY <1>6 DEF TakeBackup, TombstonesEffective, Effective, SuppressedFor
<1>7. ASSUME Restore PROVE TombstonesEffective'
  BY <1>7 DEF Restore, TombstonesEffective, Effective, SuppressedFor
<1> QED
  BY <1>1, <1>2, <1>3, <1>4, <1>5, <1>6, <1>7
  DEF RevocationNext, RevocationStep, ReadJournal, CompareCheckpoint, TakeLock, ReplayHead,
      ReplayDone, StartImport, ImportCreateHead, ImportAdvanceHead, ImportAppend,
      ImportMarkInitialized, Send, RequestDeletion, BeginDeletion, FindDeleted, PersistEvent,
      AdvanceHead, RollBackDeletion, Acknowledge, Abort, revocationVars

\* The checkpoint moves in the transaction that applies its record, one record at a time.
LEMMA StepRecordsApplied ==
    ASSUME RevocationTypeOK, TargetsBorn, RecordsApplied, DeletionsFit, [RevocationNext]_revocationVars
    PROVE  RecordsApplied'
<1>1. CASE UNCHANGED <<events, memoryDb, backup>>
  BY <1>1 DEF RecordsApplied
<1>2. ASSUME NEW p \in Processes, ReplayRecord(p) PROVE RecordsApplied'
  <2>1. /\ Applied \in Nat /\ Applied + 1 \in 1..Len(events) /\ Len(events) \in Nat
        /\ UNCHANGED <<events, backup>>
    BY <1>2, NextRecord, LoggedFacts DEF ReplayRecord, RevocationTypeOK, faultVars
  <2>2. /\ memoryDb'.tombstones = memoryDb.tombstones \cup {events[Applied + 1]}
        /\ memoryDb'.checkpoint = Applied + 1
    BY <1>2, RecordWritten
  <2>3. \A i \in 1..Applied : events[i] \in memoryDb.tombstones
    BY DEF RecordsApplied, Applied
  <2>4. \A i \in 1..(Applied + 1) : i \in 1..Applied \/ i = Applied + 1
    BY <2>1
  <2> QED
    BY <2>1, <2>2, <2>3, <2>4 DEF RecordsApplied
<1>3. ASSUME NEW p \in Processes, ImportAppend(p) PROVE RecordsApplied'
  <2>1. PICK m \in Memories : events' = Append(events, m)
    BY <1>3 DEF ImportAppend, Drafts, RevocationTypeOK, Databases, TargetsBorn, DeletionStages,
       TransactionStages
  <2>2. /\ Len(events) \in Nat /\ Len(events') = Len(events) + 1
        /\ \A i \in 1..Len(events) : events'[i] = events[i]
    BY <2>1, AppendFacts DEF RevocationTypeOK
  <2>3. UNCHANGED <<memoryDb, backup>>
    BY <1>3 DEF ImportAppend, faultVars
  <2>4. memoryDb.checkpoint \in Nat \cup {-1} /\ backup.checkpoint \in Nat \cup {-1}
    BY DEF RevocationTypeOK, Databases, NoCheckpoint
  <2> QED
    BY <2>2, <2>3, <2>4 DEF RecordsApplied
<1>4. ASSUME NEW p \in Processes, ImportFinish(p) PROVE RecordsApplied'
  <2>1. /\ memoryDb'.tombstones = memoryDb.tombstones
        /\ memoryDb'.checkpoint = memoryDb.checkpoint \/ (events = <<>> /\ memoryDb'.checkpoint = 0)
    BY <1>4, Finished
  <2>2. UNCHANGED <<events, backup>> /\ Len(<<>>) = 0
    BY <1>4 DEF ImportFinish, faultVars
  <2> QED
    BY <2>1, <2>2 DEF RecordsApplied
<1>5. ASSUME NEW p \in Processes, CreateMemory(p) PROVE RecordsApplied'
  <2>1. memoryDb'.tombstones = memoryDb.tombstones /\ memoryDb'.checkpoint = memoryDb.checkpoint
    BY <1>5, Created
  <2> QED
    BY <1>5, <2>1 DEF CreateMemory, RecordsApplied, faultVars
<1>6. ASSUME NEW p \in Processes, PersistEvent(p) PROVE RecordsApplied'
  <2>1. PICK m \in Memories : events' = Append(events, m)
    BY <1>6 DEF PersistEvent, Drafts, RevocationTypeOK, Databases, TargetsBorn, DeletionStages,
       TransactionStages
  <2>2. /\ Len(events) \in Nat /\ Len(events') = Len(events) + 1
        /\ \A i \in 1..Len(events) : events'[i] = events[i]
    BY <2>1, AppendFacts DEF RevocationTypeOK
  <2>3. UNCHANGED <<memoryDb, backup>>
    BY <1>6 DEF PersistEvent, faultVars
  <2>4. memoryDb.checkpoint \in Nat \cup {-1} /\ backup.checkpoint \in Nat \cup {-1}
    BY DEF RevocationTypeOK, Databases, NoCheckpoint
  <2> QED
    BY <2>2, <2>3, <2>4 DEF RecordsApplied
<1>7. ASSUME NEW p \in Processes, CommitDeletion(p) PROVE RecordsApplied'
  <2>1. /\ memoryDb.checkpoint \in Nat /\ Len(events) = memoryDb.checkpoint + 1
        /\ events[Len(events)] = target[p] /\ UNCHANGED <<events, backup>>
    BY <1>7 DEF CommitDeletion, DeletionsFit, DeletionFits, faultVars
  <2>2. /\ memoryDb'.tombstones = memoryDb.tombstones \cup {target[p]}
        /\ memoryDb'.checkpoint = Len(events)
    BY <1>7, RecordWritten
  <2>3. \A i \in 1..Len(events) : i \in 1..memoryDb.checkpoint \/ i = Len(events)
    BY <2>1
  <2> QED
    BY <2>1, <2>2, <2>3 DEF RecordsApplied
<1>8. ASSUME TakeBackup PROVE RecordsApplied'
  BY <1>8 DEF TakeBackup, RecordsApplied, ledgerVars
<1>9. ASSUME Restore PROVE RecordsApplied'
  BY <1>9 DEF Restore, RecordsApplied, ledgerVars
<1> QED
  BY <1>1, <1>2, <1>3, <1>4, <1>5, <1>6, <1>7, <1>8, <1>9
  DEF RevocationNext, RevocationStep, ReadJournal, CompareCheckpoint, TakeLock, ReplayHead,
      ReplayDone, StartImport, ImportCreateHead, ImportAdvanceHead, ImportMarkInitialized, Send,
      RequestDeletion, BeginDeletion, FindDeleted, AdvanceHead, RollBackDeletion, Acknowledge,
      Abort, revocationVars

\* Without a restore, deletions and records only get more.
Grows == /\ memoryDb.tombstones \subseteq memoryDb'.tombstones
         /\ Len(events) \in Nat /\ Len(events') \in Nat /\ Len(events) <= Len(events')
         /\ \A i \in 1..Len(events) : events'[i] = events[i]
         /\ Logged \subseteq Logged'

\* Only a restore takes tombstones away, and nothing takes records away.
LEMMA StepGrows ==
    ASSUME RevocationTypeOK, TargetsBorn, ~Restore, [RevocationNext]_revocationVars
    PROVE  Grows
<1>1. CASE UNCHANGED <<events, memoryDb>>
  BY <1>1, LoggedFacts DEF RevocationTypeOK, Grows, Logged
<1>2. ASSUME NEW p \in Processes, ReplayRecord(p) PROVE Grows
  <2>1. memoryDb.tombstones \subseteq memoryDb'.tombstones
    BY <1>2, RecordWritten
  <2> QED
    BY <1>2, <2>1, LoggedFacts DEF ReplayRecord, RevocationTypeOK, Grows, Logged
<1>3. ASSUME NEW p \in Processes, ImportAppend(p) PROVE Grows
  <2>1. PICK m \in Memories : events' = Append(events, m)
    BY <1>3 DEF ImportAppend, Drafts, RevocationTypeOK, Databases, TargetsBorn, DeletionStages,
       TransactionStages
  <2>2. UNCHANGED memoryDb
    BY <1>3 DEF ImportAppend
  <2> QED
    BY <2>1, <2>2, AppendFacts DEF RevocationTypeOK, Grows
<1>4. ASSUME NEW p \in Processes, ImportFinish(p) PROVE Grows
  <2>1. memoryDb'.tombstones = memoryDb.tombstones
    BY <1>4, Finished
  <2> QED
    BY <1>4, <2>1, LoggedFacts DEF ImportFinish, RevocationTypeOK, Grows, Logged
<1>5. ASSUME NEW p \in Processes, CreateMemory(p) PROVE Grows
  <2>1. memoryDb'.tombstones = memoryDb.tombstones
    BY <1>5, Created
  <2> QED
    BY <1>5, <2>1, LoggedFacts DEF CreateMemory, RevocationTypeOK, Grows, Logged
<1>6. ASSUME NEW p \in Processes, PersistEvent(p) PROVE Grows
  <2>1. PICK m \in Memories : events' = Append(events, m)
    BY <1>6 DEF PersistEvent, Drafts, RevocationTypeOK, Databases, TargetsBorn, DeletionStages,
       TransactionStages
  <2>2. UNCHANGED memoryDb
    BY <1>6 DEF PersistEvent
  <2> QED
    BY <2>1, <2>2, AppendFacts DEF RevocationTypeOK, Grows
<1>7. ASSUME NEW p \in Processes, CommitDeletion(p) PROVE Grows
  <2>1. memoryDb.tombstones \subseteq memoryDb'.tombstones
    BY <1>7, RecordWritten
  <2> QED
    BY <1>7, <2>1, LoggedFacts DEF CommitDeletion, RevocationTypeOK, Grows, Logged
<1>8. ASSUME Restore PROVE Grows
  BY <1>8
<1> QED
  BY <1>1, <1>2, <1>3, <1>4, <1>5, <1>6, <1>7, <1>8
  DEF RevocationNext, RevocationStep, ReadJournal, CompareCheckpoint, TakeLock, ReplayHead,
      ReplayDone, StartImport, ImportCreateHead, ImportAdvanceHead, ImportMarkInitialized, Send,
      RequestDeletion, BeginDeletion, FindDeleted, AdvanceHead, RollBackDeletion, Acknowledge,
      Abort, TakeBackup, revocationVars

\* The ledger is initialized with all deletions there are, and gets every later one before the database.
LEMMA StepLedgerComplete ==
    ASSUME RevocationTypeOK, TargetsBorn, DeletionsFit, LedgerComplete, [RevocationNext]_revocationVars
    PROVE  LedgerComplete'
<1>1. CASE UNCHANGED <<ledgerState, events, memoryDb, backup, stage>>
  BY <1>1 DEF LedgerComplete, Logged
<1>2. ASSUME NEW p \in Processes, ReadJournal(p) PROVE LedgerComplete'
  BY <1>2 DEF ReadJournal, LedgerComplete, Logged, RevocationTypeOK, ReplayStages
<1>3. ASSUME NEW p \in Processes, CompareCheckpoint(p) PROVE LedgerComplete'
  BY <1>3 DEF CompareCheckpoint, LedgerComplete, Logged, RevocationTypeOK, ReplayStages
<1>4. ASSUME NEW p \in Processes, TakeLock(p) PROVE LedgerComplete'
  BY <1>4 DEF TakeLock, LedgerComplete, Logged, RevocationTypeOK, ReplayStages, AfterLock
<1>5. ASSUME NEW p \in Processes, ReplayRecord(p) PROVE LedgerComplete'
  <2>1. ledgerState = "initialized" /\ UNCHANGED <<ledgerState, events, backup>>
    BY <1>5 DEF ReplayRecord, faultVars
  <2>2. events[Applied + 1] \in Logged
    BY <1>5, NextRecord DEF ReplayRecord, Logged
  <2>3. memoryDb'.tombstones = memoryDb.tombstones \cup {events[Applied + 1]}
    BY <1>5, RecordWritten
  <2> QED
    BY <2>1, <2>2, <2>3 DEF LedgerComplete, Logged
<1>6. ASSUME NEW p \in Processes, ReplayDone(p) PROVE LedgerComplete'
  BY <1>6 DEF ReplayDone, LedgerComplete, Logged, RevocationTypeOK, ReplayStages, AfterReplay
<1>7. ASSUME NEW p \in Processes, StartImport(p) PROVE LedgerComplete'
  BY <1>7 DEF StartImport, LedgerComplete, Logged, RevocationTypeOK, ReplayStages
<1>8. ASSUME NEW p \in Processes, ImportCreateHead(p) PROVE LedgerComplete'
  BY <1>8 DEF ImportCreateHead, LedgerComplete, Logged, RevocationTypeOK, ReplayStages
<1>9. ASSUME NEW p \in Processes, ImportAppend(p) PROVE LedgerComplete'
  <2>1. Logged \subseteq Logged'
    <3>1. PICK m \in Memories : events' = Append(events, m)
      BY <1>9 DEF ImportAppend, Drafts, RevocationTypeOK, Databases, TargetsBorn,
         DeletionStages, TransactionStages
    <3> QED
      BY <3>1, AppendFacts DEF RevocationTypeOK
  <2>2. UNCHANGED <<ledgerState, memoryDb, backup>> /\ \A q \in Processes : stage'[q] = stage[q] \/ stage[q] = "deleting"
    BY <1>9 DEF ImportAppend, faultVars, RevocationTypeOK
  <2> QED
    BY <2>1, <2>2 DEF LedgerComplete
<1>10. ASSUME NEW p \in Processes, ImportMarkInitialized(p) PROVE LedgerComplete'
  <2>1. memoryDb.tombstones \subseteq Logged /\ UNCHANGED <<events, memoryDb, backup>> /\ ledgerState' = "initialized"
    BY <1>10 DEF ImportMarkInitialized, Drafts
  <2>2. backup.tombstones = memoryDb.tombstones
    BY <1>10 DEF ImportMarkInitialized, LedgerComplete
  <2> QED
    BY <2>1, <2>2 DEF LedgerComplete, Logged
<1>11. ASSUME NEW p \in Processes, ImportFinish(p) PROVE LedgerComplete'
  <2>1. memoryDb'.tombstones = memoryDb.tombstones
    BY <1>11, Finished
  <2> QED
    BY <1>11, <2>1 DEF ImportFinish, LedgerComplete, Logged
<1>12. ASSUME NEW p \in Processes, CreateMemory(p) PROVE LedgerComplete'
  <2>1. memoryDb'.tombstones = memoryDb.tombstones
    BY <1>12, Created
  <2> QED
    BY <1>12, <2>1 DEF CreateMemory, LedgerComplete, Logged
<1>13. ASSUME NEW p \in Processes, Send(p) PROVE LedgerComplete'
  BY <1>13 DEF Send, LedgerComplete, Logged, RevocationTypeOK, ReplayStages
<1>14. ASSUME NEW p \in Processes, RequestDeletion(p) PROVE LedgerComplete'
  BY <1>14 DEF RequestDeletion, LedgerComplete, Logged, RevocationTypeOK, ReplayStages
<1>15. ASSUME NEW p \in Processes, BeginDeletion(p) PROVE LedgerComplete'
  BY <1>15 DEF BeginDeletion, LedgerComplete, Logged, RevocationTypeOK, ReplayStages
<1>16. ASSUME NEW p \in Processes, FindDeleted(p) PROVE LedgerComplete'
  BY <1>16 DEF FindDeleted, LedgerComplete, Logged, RevocationTypeOK, ReplayStages
<1>17. ASSUME NEW p \in Processes, PersistEvent(p) PROVE LedgerComplete'
  <2>1. Logged \subseteq Logged'
    <3>1. PICK m \in Memories : events' = Append(events, m)
      BY <1>17 DEF PersistEvent, Drafts, RevocationTypeOK, Databases, TargetsBorn,
         DeletionStages, TransactionStages
    <3> QED
      BY <3>1, AppendFacts DEF RevocationTypeOK
  <2>2. UNCHANGED <<ledgerState, memoryDb, backup>> /\ \A q \in Processes : stage'[q] = stage[q] \/ stage[q] = "deleting"
    BY <1>17 DEF PersistEvent, faultVars, RevocationTypeOK
  <2> QED
    BY <2>1, <2>2 DEF LedgerComplete
<1>18. ASSUME NEW p \in Processes, AdvanceHead(p) PROVE LedgerComplete'
  BY <1>18 DEF AdvanceHead, LedgerComplete, Logged, RevocationTypeOK, ReplayStages
<1>19. ASSUME NEW p \in Processes, CommitDeletion(p) PROVE LedgerComplete'
  <2>1. ledgerState = "initialized" /\ UNCHANGED <<ledgerState, events, backup>>
    BY <1>19 DEF CommitDeletion, faultVars, LedgerComplete
  <2>2. /\ memoryDb.checkpoint \in Nat /\ Len(events) = memoryDb.checkpoint + 1
        /\ events[Len(events)] = target[p]
    BY <1>19 DEF CommitDeletion, DeletionsFit, DeletionFits
  <2>3. target[p] \in Logged
    BY <2>2 DEF Logged
  <2>4. memoryDb'.tombstones = memoryDb.tombstones \cup {target[p]}
    BY <1>19, RecordWritten
  <2> QED
    BY <2>1, <2>3, <2>4 DEF LedgerComplete, Logged
<1>20. ASSUME NEW p \in Processes, RollBackDeletion(p) PROVE LedgerComplete'
  BY <1>20 DEF RollBackDeletion, LedgerComplete, Logged, RevocationTypeOK, ReplayStages
<1>21. ASSUME NEW p \in Processes, Acknowledge(p) PROVE LedgerComplete'
  BY <1>21 DEF Acknowledge, LedgerComplete, Logged, RevocationTypeOK, ReplayStages
<1>22. ASSUME NEW p \in Processes, Abort(p) PROVE LedgerComplete'
  BY <1>22 DEF Abort, LedgerComplete, Logged, RevocationTypeOK, ReplayStages
<1>23. ASSUME TakeBackup PROVE LedgerComplete'
  BY <1>23 DEF TakeBackup, LedgerComplete, Logged, RevocationTypeOK, ReplayStages
<1>24. ASSUME Restore PROVE LedgerComplete'
  BY <1>24 DEF Restore, LedgerComplete, Logged, RevocationTypeOK, ReplayStages
<1> QED
  BY <1>1, <1>2, <1>3, <1>4, <1>5, <1>6, <1>7, <1>8, <1>9, <1>10, <1>11, <1>12, <1>13, <1>14,
     <1>15, <1>16, <1>17, <1>18, <1>19, <1>20, <1>21, <1>22, <1>23, <1>24
  DEF RevocationNext, RevocationStep, ReplayHead, ImportAdvanceHead, revocationVars

\* Where the checkpoint has reached the last record, every logged deletion has its tombstone.
LEMMA CaughtUp ==
    ASSUME RevocationTypeOK, RecordsApplied, memoryDb.checkpoint = Len(events)
    PROVE  Logged \subseteq memoryDb.tombstones
  BY DEF RecordsApplied, Logged

\* A process that writes to the ledger or moves the checkpoint does so while no other process
\* is at a deletion of its own.
LEMMA OthersFit ==
    ASSUME LockHeld, DeletionsFit, NEW p \in Processes, NEW q \in Processes, q # p,
           UNCHANGED <<stage[q], target[q]>>,
           stage[p] \in LockStages \/ (UNCHANGED events /\ memoryDb'.checkpoint = memoryDb.checkpoint),
           Logged \subseteq Logged', memoryDb.tombstones \subseteq memoryDb'.tombstones
    PROVE  DeletionFits(q)'
<1>1. DeletionFits(q)
  BY DEF DeletionsFit
<1>2. CASE stage[p] \in LockStages
  <2>1. stage[q] \notin LockStages
    BY <1>2 DEF LockHeld
  <2> QED
    BY <2>1 DEF DeletionFits, LockStages, TransactionStages, ReplayStages
<1>3. CASE UNCHANGED events /\ memoryDb'.checkpoint = memoryDb.checkpoint
  BY <1>1, <1>3 DEF DeletionFits
<1> QED
  BY <1>2, <1>3

\* A deletion logs the record after the checkpoint, and acknowledges what has its tombstone.
LEMMA StepDeletionsFit ==
    ASSUME RevocationTypeOK, LockHeld, TargetsBorn, RecordsApplied, LedgerComplete, DeletionsFit,
           Restore \/ Grows, [RevocationNext]_revocationVars
    PROVE  DeletionsFit'
<1>0. CASE Restore
  BY <1>0 DEF Restore, DeletionsFit, DeletionFits
<1>1. CASE UNCHANGED <<events, memoryDb, stage, target>>
  BY <1>1 DEF DeletionsFit, DeletionFits, Logged
<1>2. ASSUME NEW p \in Processes, ReadJournal(p), Grows PROVE DeletionsFit'
  <2>1. ASSUME NEW q \in Processes, q # p PROVE DeletionFits(q)'
    <3>1. UNCHANGED <<stage[q], target[q]>>
      BY <1>2, <2>1 DEF ReadJournal, RevocationTypeOK
    <3>2. UNCHANGED events /\ memoryDb'.checkpoint = memoryDb.checkpoint
      BY <1>2 DEF ReadJournal
    <3>3. Logged \subseteq Logged' /\ memoryDb.tombstones \subseteq memoryDb'.tombstones
      BY <1>2 DEF Grows
    <3> QED
      BY <2>1, <3>1, <3>2, <3>3, OthersFit
  <2>2. DeletionFits(p)'
    BY <1>2 DEF ReadJournal, RevocationTypeOK, DeletionFits
  <2> QED
    BY <2>1, <2>2 DEF DeletionsFit
<1>3. ASSUME NEW p \in Processes, CompareCheckpoint(p), Grows PROVE DeletionsFit'
  <2>1. ASSUME NEW q \in Processes, q # p PROVE DeletionFits(q)'
    <3>1. UNCHANGED <<stage[q], target[q]>>
      BY <1>3, <2>1 DEF CompareCheckpoint, RevocationTypeOK
    <3>2. UNCHANGED events /\ memoryDb'.checkpoint = memoryDb.checkpoint
      BY <1>3 DEF CompareCheckpoint
    <3>3. Logged \subseteq Logged' /\ memoryDb.tombstones \subseteq memoryDb'.tombstones
      BY <1>3 DEF Grows
    <3> QED
      BY <2>1, <3>1, <3>2, <3>3, OthersFit
  <2>2. DeletionFits(p)'
    BY <1>3 DEF CompareCheckpoint, RevocationTypeOK, DeletionFits
  <2> QED
    BY <2>1, <2>2 DEF DeletionsFit
<1>4. ASSUME NEW p \in Processes, TakeLock(p), Grows PROVE DeletionsFit'
  <2>1. ASSUME NEW q \in Processes, q # p PROVE DeletionFits(q)'
    <3>1. UNCHANGED <<stage[q], target[q]>>
      BY <1>4, <2>1 DEF TakeLock, RevocationTypeOK
    <3>2. UNCHANGED events /\ memoryDb'.checkpoint = memoryDb.checkpoint
      BY <1>4 DEF TakeLock
    <3>3. Logged \subseteq Logged' /\ memoryDb.tombstones \subseteq memoryDb'.tombstones
      BY <1>4 DEF Grows
    <3> QED
      BY <2>1, <3>1, <3>2, <3>3, OthersFit
  <2>2. DeletionFits(p)'
    BY <1>4 DEF TakeLock, RevocationTypeOK, DeletionFits, AfterLock
  <2> QED
    BY <2>1, <2>2 DEF DeletionsFit
<1>5. ASSUME NEW p \in Processes, ReplayRecord(p), Grows PROVE DeletionsFit'
  <2>1. ASSUME NEW q \in Processes, q # p PROVE DeletionFits(q)'
    <3>1. UNCHANGED <<stage[q], target[q]>>
      BY <1>5, <2>1 DEF ReplayRecord, RevocationTypeOK
    <3>2. stage[p] \in LockStages
      BY <1>5 DEF ReplayRecord, LockStages, ReplayStages, TransactionStages
    <3>3. Logged \subseteq Logged' /\ memoryDb.tombstones \subseteq memoryDb'.tombstones
      BY <1>5 DEF Grows
    <3> QED
      BY <2>1, <3>1, <3>2, <3>3, OthersFit
  <2>2. DeletionFits(p)'
    <3>1. DeletionFits(p) /\ stage[p] \in ReplayStages /\ UNCHANGED <<stage, target, events>>
      BY <1>5 DEF ReplayRecord, DeletionsFit
    <3> QED
      BY <3>1 DEF ReplayStages, DeletionFits, Logged
  <2> QED
    BY <2>1, <2>2 DEF DeletionsFit
<1>6. ASSUME NEW p \in Processes, ReplayDone(p), Grows PROVE DeletionsFit'
  <2>1. ASSUME NEW q \in Processes, q # p PROVE DeletionFits(q)'
    <3>1. UNCHANGED <<stage[q], target[q]>>
      BY <1>6, <2>1 DEF ReplayDone, RevocationTypeOK
    <3>2. stage[p] \in LockStages
      BY <1>6 DEF ReplayDone, LockStages, ReplayStages, TransactionStages
    <3>3. Logged \subseteq Logged' /\ memoryDb.tombstones \subseteq memoryDb'.tombstones
      BY <1>6 DEF Grows
    <3> QED
      BY <2>1, <3>1, <3>2, <3>3, OthersFit
  <2>2. DeletionFits(p)'
    <3>1. /\ DeletionFits(p) /\ UNCHANGED <<events, memoryDb, target>> /\ stage[p] \in ReplayStages
          /\ memoryDb.checkpoint = Len(events) /\ stage'[p] = AfterReplay[stage[p]]
      BY <1>6 DEF ReplayDone, DeletionsFit, RevocationTypeOK
    <3>2. Logged \subseteq memoryDb.tombstones
      BY <3>1, CaughtUp
    <3>3. /\ stage'[p] \in {"ready", "judging", "settled", "idle"}
          /\ stage'[p] = "settled" => stage[p] = "recoverReplay"
      BY <3>1 DEF AfterReplay, ReplayStages
    <3> QED
      BY <3>1, <3>2, <3>3 DEF DeletionFits
  <2> QED
    BY <2>1, <2>2 DEF DeletionsFit
<1>7. ASSUME NEW p \in Processes, StartImport(p), Grows PROVE DeletionsFit'
  <2>1. ASSUME NEW q \in Processes, q # p PROVE DeletionFits(q)'
    <3>1. UNCHANGED <<stage[q], target[q]>>
      BY <1>7, <2>1 DEF StartImport, RevocationTypeOK
    <3>2. UNCHANGED events /\ memoryDb'.checkpoint = memoryDb.checkpoint
      BY <1>7 DEF StartImport
    <3>3. Logged \subseteq Logged' /\ memoryDb.tombstones \subseteq memoryDb'.tombstones
      BY <1>7 DEF Grows
    <3> QED
      BY <2>1, <3>1, <3>2, <3>3, OthersFit
  <2>2. DeletionFits(p)'
    BY <1>7 DEF StartImport, RevocationTypeOK, DeletionFits
  <2> QED
    BY <2>1, <2>2 DEF DeletionsFit
<1>8. ASSUME NEW p \in Processes, ImportAppend(p), Grows PROVE DeletionsFit'
  <2>1. ASSUME NEW q \in Processes, q # p PROVE DeletionFits(q)'
    <3>1. UNCHANGED <<stage[q], target[q]>>
      BY <1>8, <2>1 DEF ImportAppend, RevocationTypeOK
    <3>2. stage[p] \in LockStages
      BY <1>8 DEF ImportAppend, LockStages, ReplayStages, TransactionStages
    <3>3. Logged \subseteq Logged' /\ memoryDb.tombstones \subseteq memoryDb'.tombstones
      BY <1>8 DEF Grows
    <3> QED
      BY <2>1, <3>1, <3>2, <3>3, OthersFit
  <2>2. DeletionFits(p)'
    BY <1>8 DEF ImportAppend, DeletionFits
  <2> QED
    BY <2>1, <2>2 DEF DeletionsFit
<1>9. ASSUME NEW p \in Processes, ImportFinish(p), Grows PROVE DeletionsFit'
  <2>1. ASSUME NEW q \in Processes, q # p PROVE DeletionFits(q)'
    <3>1. UNCHANGED <<stage[q], target[q]>>
      BY <1>9, <2>1 DEF ImportFinish, RevocationTypeOK
    <3>2. stage[p] \in LockStages
      BY <1>9 DEF ImportFinish, LockStages, ReplayStages, TransactionStages
    <3>3. Logged \subseteq Logged' /\ memoryDb.tombstones \subseteq memoryDb'.tombstones
      BY <1>9 DEF Grows
    <3> QED
      BY <2>1, <3>1, <3>2, <3>3, OthersFit
  <2>2. DeletionFits(p)'
    BY <1>9 DEF ImportFinish, RevocationTypeOK, DeletionFits
  <2> QED
    BY <2>1, <2>2 DEF DeletionsFit
<1>10. ASSUME NEW p \in Processes, CreateMemory(p), Grows PROVE DeletionsFit'
  <2>1. ASSUME NEW q \in Processes, q # p PROVE DeletionFits(q)'
    <3>1. UNCHANGED <<stage[q], target[q]>>
      BY <1>10, <2>1 DEF CreateMemory, RevocationTypeOK
    <3>2. UNCHANGED events /\ memoryDb'.checkpoint = memoryDb.checkpoint
      BY <1>10, Created DEF CreateMemory
    <3>3. Logged \subseteq Logged' /\ memoryDb.tombstones \subseteq memoryDb'.tombstones
      BY <1>10 DEF Grows
    <3> QED
      BY <2>1, <3>1, <3>2, <3>3, OthersFit
  <2>2. DeletionFits(p)'
    BY <1>10 DEF CreateMemory, RevocationTypeOK, DeletionFits
  <2> QED
    BY <2>1, <2>2 DEF DeletionsFit
<1>11. ASSUME NEW p \in Processes, Send(p), Grows PROVE DeletionsFit'
  <2>1. ASSUME NEW q \in Processes, q # p PROVE DeletionFits(q)'
    <3>1. UNCHANGED <<stage[q], target[q]>>
      BY <1>11, <2>1 DEF Send, RevocationTypeOK
    <3>2. UNCHANGED events /\ memoryDb'.checkpoint = memoryDb.checkpoint
      BY <1>11 DEF Send
    <3>3. Logged \subseteq Logged' /\ memoryDb.tombstones \subseteq memoryDb'.tombstones
      BY <1>11 DEF Grows
    <3> QED
      BY <2>1, <3>1, <3>2, <3>3, OthersFit
  <2>2. DeletionFits(p)'
    BY <1>11 DEF Send, RevocationTypeOK, DeletionFits
  <2> QED
    BY <2>1, <2>2 DEF DeletionsFit
<1>12. ASSUME NEW p \in Processes, RequestDeletion(p), Grows PROVE DeletionsFit'
  <2>1. ASSUME NEW q \in Processes, q # p PROVE DeletionFits(q)'
    <3>1. UNCHANGED <<stage[q], target[q]>>
      BY <1>12, <2>1 DEF RequestDeletion, RevocationTypeOK
    <3>2. UNCHANGED events /\ memoryDb'.checkpoint = memoryDb.checkpoint
      BY <1>12 DEF RequestDeletion
    <3>3. Logged \subseteq Logged' /\ memoryDb.tombstones \subseteq memoryDb'.tombstones
      BY <1>12 DEF Grows
    <3> QED
      BY <2>1, <3>1, <3>2, <3>3, OthersFit
  <2>2. DeletionFits(p)'
    BY <1>12 DEF RequestDeletion, RevocationTypeOK, DeletionFits
  <2> QED
    BY <2>1, <2>2 DEF DeletionsFit
<1>13. ASSUME NEW p \in Processes, BeginDeletion(p), Grows PROVE DeletionsFit'
  <2>1. ASSUME NEW q \in Processes, q # p PROVE DeletionFits(q)'
    <3>1. UNCHANGED <<stage[q], target[q]>>
      BY <1>13, <2>1 DEF BeginDeletion, RevocationTypeOK
    <3>2. stage[p] \in LockStages
      BY <1>13 DEF BeginDeletion, LockStages, ReplayStages, TransactionStages
    <3>3. Logged \subseteq Logged' /\ memoryDb.tombstones \subseteq memoryDb'.tombstones
      BY <1>13 DEF Grows
    <3> QED
      BY <2>1, <3>1, <3>2, <3>3, OthersFit
  <2>2. DeletionFits(p)'
    <3>1. DeletionFits(p) /\ stage[p] = "judging" /\ stage'[p] = "deleting" /\ UNCHANGED <<events, memoryDb>>
      BY <1>13 DEF BeginDeletion, DeletionsFit, RevocationTypeOK
    <3> QED
      BY <3>1 DEF DeletionFits
  <2> QED
    BY <2>1, <2>2 DEF DeletionsFit
<1>14. ASSUME NEW p \in Processes, FindDeleted(p), Grows PROVE DeletionsFit'
  <2>1. ASSUME NEW q \in Processes, q # p PROVE DeletionFits(q)'
    <3>1. UNCHANGED <<stage[q], target[q]>>
      BY <1>14, <2>1 DEF FindDeleted, RevocationTypeOK
    <3>2. stage[p] \in LockStages
      BY <1>14 DEF FindDeleted, LockStages, ReplayStages, TransactionStages
    <3>3. Logged \subseteq Logged' /\ memoryDb.tombstones \subseteq memoryDb'.tombstones
      BY <1>14 DEF Grows
    <3> QED
      BY <2>1, <3>1, <3>2, <3>3, OthersFit
  <2>2. DeletionFits(p)'
    <3>1. /\ DeletionFits(p) /\ stage[p] = "judging" /\ stage'[p] = "settled"
          /\ UNCHANGED <<events, memoryDb, target>>
          /\ target[p] \in Logged \/ target[p] \in memoryDb.tombstones
      BY <1>14 DEF FindDeleted, DeletionsFit, RevocationTypeOK
    <3>2. Logged \subseteq memoryDb.tombstones
      BY <3>1, CaughtUp DEF DeletionFits
    <3> QED
      BY <3>1, <3>2 DEF DeletionFits
  <2> QED
    BY <2>1, <2>2 DEF DeletionsFit
<1>15. ASSUME NEW p \in Processes, PersistEvent(p), Grows PROVE DeletionsFit'
  <2>1. ASSUME NEW q \in Processes, q # p PROVE DeletionFits(q)'
    <3>1. UNCHANGED <<stage[q], target[q]>>
      BY <1>15, <2>1 DEF PersistEvent, RevocationTypeOK
    <3>2. stage[p] \in LockStages
      BY <1>15 DEF PersistEvent, LockStages, ReplayStages, TransactionStages
    <3>3. Logged \subseteq Logged' /\ memoryDb.tombstones \subseteq memoryDb'.tombstones
      BY <1>15 DEF Grows
    <3> QED
      BY <2>1, <3>1, <3>2, <3>3, OthersFit
  <2>2. DeletionFits(p)'
    <3>1. /\ DeletionFits(p) /\ stage[p] = "deleting" /\ stage'[p] = "logged" /\ UNCHANGED <<memoryDb, target>>
          /\ target[p] \in Memories /\ events' = Append(events, target[p])
      BY <1>15 DEF PersistEvent, DeletionsFit, RevocationTypeOK, TargetsBorn, DeletionStages,
         TransactionStages
    <3>2. Len(events) \in Nat /\ Len(events') = Len(events) + 1 /\ events'[Len(events')] = target[p]
      BY <3>1, AppendFacts DEF RevocationTypeOK
    <3> QED
      BY <3>1, <3>2 DEF DeletionFits
  <2> QED
    BY <2>1, <2>2 DEF DeletionsFit
<1>16. ASSUME NEW p \in Processes, AdvanceHead(p), Grows PROVE DeletionsFit'
  <2>1. ASSUME NEW q \in Processes, q # p PROVE DeletionFits(q)'
    <3>1. UNCHANGED <<stage[q], target[q]>>
      BY <1>16, <2>1 DEF AdvanceHead, RevocationTypeOK
    <3>2. stage[p] \in LockStages
      BY <1>16 DEF AdvanceHead, LockStages, ReplayStages, TransactionStages
    <3>3. Logged \subseteq Logged' /\ memoryDb.tombstones \subseteq memoryDb'.tombstones
      BY <1>16 DEF Grows
    <3> QED
      BY <2>1, <3>1, <3>2, <3>3, OthersFit
  <2>2. DeletionFits(p)'
    <3>1. /\ DeletionFits(p) /\ stage[p] = "logged" /\ stage'[p] \in {"headed", "recoverReplay"}
          /\ UNCHANGED <<events, memoryDb, target>>
      BY <1>16 DEF AdvanceHead, DeletionsFit, RevocationTypeOK
    <3>2. target[p] \in Logged
      BY <3>1 DEF DeletionFits, Logged
    <3> QED
      BY <3>1, <3>2 DEF DeletionFits, Logged
  <2> QED
    BY <2>1, <2>2 DEF DeletionsFit
<1>17. ASSUME NEW p \in Processes, CommitDeletion(p), Grows PROVE DeletionsFit'
  <2>1. ASSUME NEW q \in Processes, q # p PROVE DeletionFits(q)'
    <3>1. UNCHANGED <<stage[q], target[q]>>
      BY <1>17, <2>1 DEF CommitDeletion, RevocationTypeOK
    <3>2. stage[p] \in LockStages
      BY <1>17 DEF CommitDeletion, LockStages, ReplayStages, TransactionStages
    <3>3. Logged \subseteq Logged' /\ memoryDb.tombstones \subseteq memoryDb'.tombstones
      BY <1>17 DEF Grows
    <3> QED
      BY <2>1, <3>1, <3>2, <3>3, OthersFit
  <2>2. DeletionFits(p)'
    <3>1. /\ DeletionFits(p) /\ stage[p] = "headed" /\ stage'[p] \in {"settled", "recoverReplay"}
          /\ UNCHANGED <<events, target>>
      BY <1>17 DEF CommitDeletion, DeletionsFit, RevocationTypeOK
    <3>2. target[p] \in Logged
      BY <3>1 DEF DeletionFits, Logged
    <3>3. memoryDb'.tombstones = memoryDb.tombstones \cup {target[p]}
      BY <1>17, RecordWritten
    <3> QED
      BY <3>1, <3>2, <3>3 DEF DeletionFits, Logged
  <2> QED
    BY <2>1, <2>2 DEF DeletionsFit
<1>18. ASSUME NEW p \in Processes, RollBackDeletion(p), Grows PROVE DeletionsFit'
  <2>1. ASSUME NEW q \in Processes, q # p PROVE DeletionFits(q)'
    <3>1. UNCHANGED <<stage[q], target[q]>>
      BY <1>18, <2>1 DEF RollBackDeletion, RevocationTypeOK
    <3>2. stage[p] \in LockStages
      BY <1>18 DEF RollBackDeletion, LockStages, ReplayStages, TransactionStages
    <3>3. Logged \subseteq Logged' /\ memoryDb.tombstones \subseteq memoryDb'.tombstones
      BY <1>18 DEF Grows
    <3> QED
      BY <2>1, <3>1, <3>2, <3>3, OthersFit
  <2>2. DeletionFits(p)'
    <3>1. /\ DeletionFits(p) /\ stage[p] = "headed" /\ stage'[p] \in {"headed", "recoverReplay"}
          /\ UNCHANGED <<events, memoryDb, target>>
      BY <1>18 DEF RollBackDeletion, DeletionsFit, RevocationTypeOK
    <3>2. target[p] \in Logged
      BY <3>1 DEF DeletionFits, Logged
    <3> QED
      BY <3>1, <3>2 DEF DeletionFits, Logged
  <2> QED
    BY <2>1, <2>2 DEF DeletionsFit
<1>19. ASSUME NEW p \in Processes, Acknowledge(p), Grows PROVE DeletionsFit'
  <2>1. ASSUME NEW q \in Processes, q # p PROVE DeletionFits(q)'
    <3>1. UNCHANGED <<stage[q], target[q]>>
      BY <1>19, <2>1 DEF Acknowledge, RevocationTypeOK
    <3>2. UNCHANGED events /\ memoryDb'.checkpoint = memoryDb.checkpoint
      BY <1>19 DEF Acknowledge
    <3>3. Logged \subseteq Logged' /\ memoryDb.tombstones \subseteq memoryDb'.tombstones
      BY <1>19 DEF Grows
    <3> QED
      BY <2>1, <3>1, <3>2, <3>3, OthersFit
  <2>2. DeletionFits(p)'
    BY <1>19 DEF Acknowledge, RevocationTypeOK, DeletionFits
  <2> QED
    BY <2>1, <2>2 DEF DeletionsFit
<1>20. ASSUME NEW p \in Processes, Abort(p), Grows PROVE DeletionsFit'
  <2>1. ASSUME NEW q \in Processes, q # p PROVE DeletionFits(q)'
    <3>1. UNCHANGED <<stage[q], target[q]>>
      BY <1>20, <2>1 DEF Abort, RevocationTypeOK
    <3>2. UNCHANGED events /\ memoryDb'.checkpoint = memoryDb.checkpoint
      BY <1>20 DEF Abort
    <3>3. Logged \subseteq Logged' /\ memoryDb.tombstones \subseteq memoryDb'.tombstones
      BY <1>20 DEF Grows
    <3> QED
      BY <2>1, <3>1, <3>2, <3>3, OthersFit
  <2>2. DeletionFits(p)'
    BY <1>20 DEF Abort, RevocationTypeOK, DeletionFits
  <2> QED
    BY <2>1, <2>2 DEF DeletionsFit
<1> QED
  BY <1>0, <1>1, <1>2, <1>3, <1>4, <1>5, <1>6, <1>7, <1>8, <1>9, <1>10, <1>11, <1>12, <1>13,
     <1>14, <1>15, <1>16, <1>17, <1>18, <1>19, <1>20
  DEF RevocationNext, RevocationStep, ReplayHead, ImportCreateHead, ImportAdvanceHead,
      ImportMarkInitialized, TakeBackup, revocationVars

\* What is acknowledged has its tombstone, and what has its tombstone is in the ledger.
LEMMA StepAcknowledged ==
    ASSUME LedgerComplete, DeletionsFit, acknowledged \subseteq Logged, Restore \/ Grows,
           [RevocationNext]_revocationVars
    PROVE  (acknowledged \subseteq Logged)'
<1>1. Logged \subseteq Logged'
  <2>1. CASE Restore
    BY <2>1 DEF Restore, Logged
  <2> QED
    BY <2>1 DEF Grows
<1>2. CASE \E p \in Processes : Acknowledge(p)
  <2>1. PICK p \in Processes : Acknowledge(p)
    BY <1>2
  <2>2. target[p] \in memoryDb.tombstones /\ acknowledged' = acknowledged \cup {target[p]}
    BY <2>1 DEF Acknowledge, DeletionsFit, DeletionFits
  <2>3. memoryDb.tombstones \subseteq Logged
    BY <2>1 DEF Acknowledge, LedgerComplete
  <2> QED
    BY <1>1, <2>2, <2>3
<1>3. CASE ~ \E p \in Processes : Acknowledge(p)
  <2>1. UNCHANGED acknowledged
    BY <1>3 DEF RevocationNext, RevocationStep, revocationVars, ReadJournal, CompareCheckpoint,
                TakeLock, ReplayHead, ReplayRecord, ReplayDone, StartImport, ImportCreateHead,
                ImportAdvanceHead, ImportAppend, ImportMarkInitialized, ImportFinish, CreateMemory,
                Send, RequestDeletion, BeginDeletion, FindDeleted, PersistEvent, AdvanceHead,
                CommitDeletion, RollBackDeletion, Abort, TakeBackup, Restore
  <2> QED
    BY <1>1, <2>1
<1> QED
  BY <1>2, <1>3

\* A process that stands still at the gate loses nothing by what the others do.
LEMMA OthersWait ==
    ASSUME Grows, GatesHold, NEW q \in Processes, UNCHANGED <<stage[q], seen[q]>>,
           acknowledged' \subseteq acknowledged \cup memoryDb.tombstones,
           RevocationTypeOK
    PROVE  GateHolds(q)'
<1>1. GateHolds(q) /\ seen[q] \in Nat
  BY DEF GatesHold, RevocationTypeOK
<1>2. CASE stage[q] = "ready"
  BY <1>1, <1>2 DEF GateHolds, Grows
<1>3. CASE stage[q] = "journal"
  <2>1. seen[q] <= Len(events) /\ seen'[q] <= Len(events')
    BY <1>1, <1>3 DEF GateHolds, Grows
  <2>2. \A i \in 1..seen[q] : events'[i] = events[i]
    BY <1>1, <2>1 DEF Grows
  <2>3. ASSUME NEW m \in acknowledged'
        PROVE  m \in memoryDb'.tombstones \/ \E i \in 1..seen'[q] : events'[i] = m
    BY <1>1, <1>3, <2>2, <2>3 DEF GateHolds, Grows
  <2> QED
    BY <1>3, <2>1, <2>3 DEF GateHolds
<1>4. CASE stage[q] \notin {"ready", "journal"}
  BY <1>4 DEF GateHolds
<1> QED
  BY <1>2, <1>3, <1>4

\* Who passes the gate has found every acknowledged deletion in effect, and stays right about it.
LEMMA StepGates ==
    ASSUME RevocationTypeOK, RecordsApplied, DeletionsFit, acknowledged \subseteq Logged, GatesHold,
           Restore \/ Grows, [RevocationNext]_revocationVars
    PROVE  GatesHold'
<1>0. CASE Restore
  BY <1>0 DEF Restore, GatesHold, GateHolds
<1>1. CASE UNCHANGED <<events, memoryDb, stage, seen, acknowledged>>
  BY <1>1 DEF GatesHold, GateHolds
<1>2. ASSUME NEW p \in Processes, ReadJournal(p), Grows PROVE GatesHold'
  <2>1. ASSUME NEW q \in Processes, q # p PROVE GateHolds(q)'
    <3>1. UNCHANGED <<stage[q], seen[q]>> /\ acknowledged' \subseteq acknowledged \cup memoryDb.tombstones
      BY <1>2, <2>1 DEF ReadJournal, RevocationTypeOK
    <3> QED
      BY <1>2, <3>1, OthersWait
  <2>2. GateHolds(p)'
    <3>1. /\ stage'[p] = "journal" /\ seen'[p] = Len(events) /\ UNCHANGED <<events, memoryDb, acknowledged>>
          /\ Len(events) \in Nat
      BY <1>2, LoggedFacts DEF ReadJournal, RevocationTypeOK
    <3>2. \A m \in acknowledged : \E i \in 1..Len(events) : events[i] = m
      BY DEF Logged
    <3> QED
      BY <3>1, <3>2 DEF GateHolds
  <2> QED
    BY <2>1, <2>2 DEF GatesHold
<1>3. ASSUME NEW p \in Processes, CompareCheckpoint(p), Grows PROVE GatesHold'
  <2>1. ASSUME NEW q \in Processes, q # p PROVE GateHolds(q)'
    <3>1. UNCHANGED <<stage[q], seen[q]>> /\ acknowledged' \subseteq acknowledged \cup memoryDb.tombstones
      BY <1>3, <2>1 DEF CompareCheckpoint, RevocationTypeOK
    <3> QED
      BY <1>3, <3>1, OthersWait
  <2>2. GateHolds(p)'
    <3>1. /\ stage[p] = "journal" /\ GateHolds(p) /\ UNCHANGED <<events, memoryDb, acknowledged>>
          /\ stage'[p] = (IF CheckpointMatches(p) THEN "ready" ELSE "gateWait")
      BY <1>3 DEF CompareCheckpoint, RevocationTypeOK, GatesHold
    <3>2. CASE CheckpointMatches(p)
      <4>1. \A i \in 1..seen[p] : events[i] \in memoryDb.tombstones
        BY <3>2 DEF CheckpointMatches, RecordsApplied
      <4> QED
        BY <3>1, <3>2, <4>1 DEF GateHolds
    <3>3. CASE ~CheckpointMatches(p)
      BY <3>1, <3>3 DEF GateHolds
    <3> QED
      BY <3>2, <3>3
  <2> QED
    BY <2>1, <2>2 DEF GatesHold
<1>4. ASSUME NEW p \in Processes, TakeLock(p), Grows PROVE GatesHold'
  <2>1. ASSUME NEW q \in Processes, q # p PROVE GateHolds(q)'
    <3>1. UNCHANGED <<stage[q], seen[q]>> /\ acknowledged' \subseteq acknowledged \cup memoryDb.tombstones
      BY <1>4, <2>1 DEF TakeLock, RevocationTypeOK
    <3> QED
      BY <1>4, <3>1, OthersWait
  <2>2. GateHolds(p)'
    <3>1. stage'[p] \notin {"ready", "journal"}
      BY <1>4 DEF TakeLock, RevocationTypeOK, ReplayStages, TransactionStages, AfterLock
    <3> QED
      BY <3>1 DEF GateHolds
  <2> QED
    BY <2>1, <2>2 DEF GatesHold
<1>5. ASSUME NEW p \in Processes, ReplayRecord(p), Grows PROVE GatesHold'
  <2>1. ASSUME NEW q \in Processes, q # p PROVE GateHolds(q)'
    <3>1. UNCHANGED <<stage[q], seen[q]>> /\ acknowledged' \subseteq acknowledged \cup memoryDb.tombstones
      BY <1>5, <2>1 DEF ReplayRecord, RevocationTypeOK
    <3> QED
      BY <1>5, <3>1, OthersWait
  <2>2. GateHolds(p)'
    <3>1. stage'[p] \notin {"ready", "journal"}
      BY <1>5 DEF ReplayRecord, RevocationTypeOK, ReplayStages, TransactionStages
    <3> QED
      BY <3>1 DEF GateHolds
  <2> QED
    BY <2>1, <2>2 DEF GatesHold
<1>6. ASSUME NEW p \in Processes, ReplayDone(p), Grows PROVE GatesHold'
  <2>1. ASSUME NEW q \in Processes, q # p PROVE GateHolds(q)'
    <3>1. UNCHANGED <<stage[q], seen[q]>> /\ acknowledged' \subseteq acknowledged \cup memoryDb.tombstones
      BY <1>6, <2>1 DEF ReplayDone, RevocationTypeOK
    <3> QED
      BY <1>6, <3>1, OthersWait
  <2>2. GateHolds(p)'
    <3>1. /\ UNCHANGED <<events, memoryDb, acknowledged>>
          /\ memoryDb.checkpoint = Len(events) /\ stage'[p] = AfterReplay[stage[p]]
          /\ stage[p] \in ReplayStages
      BY <1>6 DEF ReplayDone, RevocationTypeOK
    <3>2. stage'[p] # "journal"
      BY <3>1 DEF AfterReplay, ReplayStages
    <3>3. Logged \subseteq memoryDb.tombstones
      BY <3>1, CaughtUp
    <3> QED
      BY <3>1, <3>2, <3>3 DEF GateHolds
  <2> QED
    BY <2>1, <2>2 DEF GatesHold
<1>7. ASSUME NEW p \in Processes, StartImport(p), Grows PROVE GatesHold'
  <2>1. ASSUME NEW q \in Processes, q # p PROVE GateHolds(q)'
    <3>1. UNCHANGED <<stage[q], seen[q]>> /\ acknowledged' \subseteq acknowledged \cup memoryDb.tombstones
      BY <1>7, <2>1 DEF StartImport, RevocationTypeOK
    <3> QED
      BY <1>7, <3>1, OthersWait
  <2>2. GateHolds(p)'
    <3>1. stage'[p] \notin {"ready", "journal"}
      BY <1>7 DEF StartImport, RevocationTypeOK, ReplayStages, TransactionStages
    <3> QED
      BY <3>1 DEF GateHolds
  <2> QED
    BY <2>1, <2>2 DEF GatesHold
<1>8. ASSUME NEW p \in Processes, ImportAppend(p), Grows PROVE GatesHold'
  <2>1. ASSUME NEW q \in Processes, q # p PROVE GateHolds(q)'
    <3>1. UNCHANGED <<stage[q], seen[q]>> /\ acknowledged' \subseteq acknowledged \cup memoryDb.tombstones
      BY <1>8, <2>1 DEF ImportAppend, RevocationTypeOK
    <3> QED
      BY <1>8, <3>1, OthersWait
  <2>2. GateHolds(p)'
    <3>1. stage'[p] \notin {"ready", "journal"}
      BY <1>8 DEF ImportAppend, RevocationTypeOK, ReplayStages, TransactionStages
    <3> QED
      BY <3>1 DEF GateHolds
  <2> QED
    BY <2>1, <2>2 DEF GatesHold
<1>9. ASSUME NEW p \in Processes, ImportFinish(p), Grows PROVE GatesHold'
  <2>1. ASSUME NEW q \in Processes, q # p PROVE GateHolds(q)'
    <3>1. UNCHANGED <<stage[q], seen[q]>> /\ acknowledged' \subseteq acknowledged \cup memoryDb.tombstones
      BY <1>9, <2>1 DEF ImportFinish, RevocationTypeOK
    <3> QED
      BY <1>9, <3>1, OthersWait
  <2>2. GateHolds(p)'
    <3>1. stage'[p] \notin {"ready", "journal"}
      BY <1>9 DEF ImportFinish, RevocationTypeOK, ReplayStages, TransactionStages
    <3> QED
      BY <3>1 DEF GateHolds
  <2> QED
    BY <2>1, <2>2 DEF GatesHold
<1>10. ASSUME NEW p \in Processes, CreateMemory(p), Grows PROVE GatesHold'
  <2>1. ASSUME NEW q \in Processes, q # p PROVE GateHolds(q)'
    <3>1. UNCHANGED <<stage[q], seen[q]>> /\ acknowledged' \subseteq acknowledged \cup memoryDb.tombstones
      BY <1>10, <2>1 DEF CreateMemory, RevocationTypeOK
    <3> QED
      BY <1>10, <3>1, OthersWait
  <2>2. GateHolds(p)'
    <3>1. stage'[p] \notin {"ready", "journal"}
      BY <1>10 DEF CreateMemory, RevocationTypeOK, ReplayStages, TransactionStages
    <3> QED
      BY <3>1 DEF GateHolds
  <2> QED
    BY <2>1, <2>2 DEF GatesHold
<1>11. ASSUME NEW p \in Processes, Send(p), Grows PROVE GatesHold'
  <2>1. ASSUME NEW q \in Processes, q # p PROVE GateHolds(q)'
    <3>1. UNCHANGED <<stage[q], seen[q]>> /\ acknowledged' \subseteq acknowledged \cup memoryDb.tombstones
      BY <1>11, <2>1 DEF Send, RevocationTypeOK
    <3> QED
      BY <1>11, <3>1, OthersWait
  <2>2. GateHolds(p)'
    <3>1. stage'[p] \notin {"ready", "journal"}
      BY <1>11 DEF Send, RevocationTypeOK, ReplayStages, TransactionStages
    <3> QED
      BY <3>1 DEF GateHolds
  <2> QED
    BY <2>1, <2>2 DEF GatesHold
<1>12. ASSUME NEW p \in Processes, RequestDeletion(p), Grows PROVE GatesHold'
  <2>1. ASSUME NEW q \in Processes, q # p PROVE GateHolds(q)'
    <3>1. UNCHANGED <<stage[q], seen[q]>> /\ acknowledged' \subseteq acknowledged \cup memoryDb.tombstones
      BY <1>12, <2>1 DEF RequestDeletion, RevocationTypeOK
    <3> QED
      BY <1>12, <3>1, OthersWait
  <2>2. GateHolds(p)'
    <3>1. stage'[p] \notin {"ready", "journal"}
      BY <1>12 DEF RequestDeletion, RevocationTypeOK, ReplayStages, TransactionStages
    <3> QED
      BY <3>1 DEF GateHolds
  <2> QED
    BY <2>1, <2>2 DEF GatesHold
<1>13. ASSUME NEW p \in Processes, BeginDeletion(p), Grows PROVE GatesHold'
  <2>1. ASSUME NEW q \in Processes, q # p PROVE GateHolds(q)'
    <3>1. UNCHANGED <<stage[q], seen[q]>> /\ acknowledged' \subseteq acknowledged \cup memoryDb.tombstones
      BY <1>13, <2>1 DEF BeginDeletion, RevocationTypeOK
    <3> QED
      BY <1>13, <3>1, OthersWait
  <2>2. GateHolds(p)'
    <3>1. stage'[p] \notin {"ready", "journal"}
      BY <1>13 DEF BeginDeletion, RevocationTypeOK, ReplayStages, TransactionStages
    <3> QED
      BY <3>1 DEF GateHolds
  <2> QED
    BY <2>1, <2>2 DEF GatesHold
<1>14. ASSUME NEW p \in Processes, FindDeleted(p), Grows PROVE GatesHold'
  <2>1. ASSUME NEW q \in Processes, q # p PROVE GateHolds(q)'
    <3>1. UNCHANGED <<stage[q], seen[q]>> /\ acknowledged' \subseteq acknowledged \cup memoryDb.tombstones
      BY <1>14, <2>1 DEF FindDeleted, RevocationTypeOK
    <3> QED
      BY <1>14, <3>1, OthersWait
  <2>2. GateHolds(p)'
    <3>1. stage'[p] \notin {"ready", "journal"}
      BY <1>14 DEF FindDeleted, RevocationTypeOK, ReplayStages, TransactionStages
    <3> QED
      BY <3>1 DEF GateHolds
  <2> QED
    BY <2>1, <2>2 DEF GatesHold
<1>15. ASSUME NEW p \in Processes, PersistEvent(p), Grows PROVE GatesHold'
  <2>1. ASSUME NEW q \in Processes, q # p PROVE GateHolds(q)'
    <3>1. UNCHANGED <<stage[q], seen[q]>> /\ acknowledged' \subseteq acknowledged \cup memoryDb.tombstones
      BY <1>15, <2>1 DEF PersistEvent, RevocationTypeOK
    <3> QED
      BY <1>15, <3>1, OthersWait
  <2>2. GateHolds(p)'
    <3>1. stage'[p] \notin {"ready", "journal"}
      BY <1>15 DEF PersistEvent, RevocationTypeOK, ReplayStages, TransactionStages
    <3> QED
      BY <3>1 DEF GateHolds
  <2> QED
    BY <2>1, <2>2 DEF GatesHold
<1>16. ASSUME NEW p \in Processes, AdvanceHead(p), Grows PROVE GatesHold'
  <2>1. ASSUME NEW q \in Processes, q # p PROVE GateHolds(q)'
    <3>1. UNCHANGED <<stage[q], seen[q]>> /\ acknowledged' \subseteq acknowledged \cup memoryDb.tombstones
      BY <1>16, <2>1 DEF AdvanceHead, RevocationTypeOK
    <3> QED
      BY <1>16, <3>1, OthersWait
  <2>2. GateHolds(p)'
    <3>1. stage'[p] \notin {"ready", "journal"}
      BY <1>16 DEF AdvanceHead, RevocationTypeOK, ReplayStages, TransactionStages
    <3> QED
      BY <3>1 DEF GateHolds
  <2> QED
    BY <2>1, <2>2 DEF GatesHold
<1>17. ASSUME NEW p \in Processes, CommitDeletion(p), Grows PROVE GatesHold'
  <2>1. ASSUME NEW q \in Processes, q # p PROVE GateHolds(q)'
    <3>1. UNCHANGED <<stage[q], seen[q]>> /\ acknowledged' \subseteq acknowledged \cup memoryDb.tombstones
      BY <1>17, <2>1 DEF CommitDeletion, RevocationTypeOK
    <3> QED
      BY <1>17, <3>1, OthersWait
  <2>2. GateHolds(p)'
    <3>1. stage'[p] \notin {"ready", "journal"}
      BY <1>17 DEF CommitDeletion, RevocationTypeOK, ReplayStages, TransactionStages
    <3> QED
      BY <3>1 DEF GateHolds
  <2> QED
    BY <2>1, <2>2 DEF GatesHold
<1>18. ASSUME NEW p \in Processes, RollBackDeletion(p), Grows PROVE GatesHold'
  <2>1. ASSUME NEW q \in Processes, q # p PROVE GateHolds(q)'
    <3>1. UNCHANGED <<stage[q], seen[q]>> /\ acknowledged' \subseteq acknowledged \cup memoryDb.tombstones
      BY <1>18, <2>1 DEF RollBackDeletion, RevocationTypeOK
    <3> QED
      BY <1>18, <3>1, OthersWait
  <2>2. GateHolds(p)'
    <3>1. stage'[p] \notin {"ready", "journal"}
      BY <1>18 DEF RollBackDeletion, RevocationTypeOK, ReplayStages, TransactionStages
    <3> QED
      BY <3>1 DEF GateHolds
  <2> QED
    BY <2>1, <2>2 DEF GatesHold
<1>19. ASSUME NEW p \in Processes, Acknowledge(p), Grows PROVE GatesHold'
  <2>1. ASSUME NEW q \in Processes, q # p PROVE GateHolds(q)'
    <3>1. UNCHANGED <<stage[q], seen[q]>> /\ acknowledged' \subseteq acknowledged \cup memoryDb.tombstones
      BY <1>19, <2>1 DEF Acknowledge, RevocationTypeOK, DeletionsFit, DeletionFits
    <3> QED
      BY <1>19, <3>1, OthersWait
  <2>2. GateHolds(p)'
    <3>1. stage'[p] \notin {"ready", "journal"}
      BY <1>19 DEF Acknowledge, RevocationTypeOK, ReplayStages, TransactionStages
    <3> QED
      BY <3>1 DEF GateHolds
  <2> QED
    BY <2>1, <2>2 DEF GatesHold
<1>20. ASSUME NEW p \in Processes, Abort(p), Grows PROVE GatesHold'
  <2>1. ASSUME NEW q \in Processes, q # p PROVE GateHolds(q)'
    <3>1. UNCHANGED <<stage[q], seen[q]>> /\ acknowledged' \subseteq acknowledged \cup memoryDb.tombstones
      BY <1>20, <2>1 DEF Abort, RevocationTypeOK
    <3> QED
      BY <1>20, <3>1, OthersWait
  <2>2. GateHolds(p)'
    <3>1. stage'[p] \notin {"ready", "journal"}
      BY <1>20 DEF Abort, RevocationTypeOK, ReplayStages, TransactionStages
    <3> QED
      BY <3>1 DEF GateHolds
  <2> QED
    BY <2>1, <2>2 DEF GatesHold
<1> QED
  BY <1>0, <1>1, <1>2, <1>3, <1>4, <1>5, <1>6, <1>7, <1>8, <1>9, <1>10, <1>11, <1>12, <1>13,
     <1>14, <1>15, <1>16, <1>17, <1>18, <1>19, <1>20
  DEF RevocationNext, RevocationStep, ReplayHead, ImportCreateHead, ImportAdvanceHead,
      ImportMarkInitialized, TakeBackup, revocationVars

-----------------------------------------------------------------------------
(* Deleted memories: the theorems *)

\* The invariant holds in every state of the specification.
THEOREM RevocationInvariance == RevocationSpec => []RevocationInv
<1>1. ASSUME RevocationInv, [RevocationNext]_revocationVars PROVE RevocationInv'
  <2>1. Restore \/ Grows
    BY <1>1, StepGrows DEF RevocationInv
  <2>2. RevocationTypeOK' /\ LockHeld' /\ TargetsBorn' /\ GoneAreBorn'
    BY <1>1, StepRevocationTypes, StepLockHeld, StepTargetsBorn, StepGoneAreBorn DEF RevocationInv
  <2>3. TombstonesEffective' /\ RecordsApplied' /\ LedgerComplete'
    BY <1>1, StepTombstonesEffective, StepRecordsApplied, StepLedgerComplete DEF RevocationInv
  <2>4. DeletionsFit' /\ (acknowledged \subseteq Logged)' /\ GatesHold'
    BY <1>1, <2>1, StepDeletionsFit, StepAcknowledged, StepGates DEF RevocationInv
  <2> QED
    BY <2>2, <2>3, <2>4 DEF RevocationInv
<1> QED
  BY RevocationStart, <1>1, PTL DEF RevocationSpec

\* Ledger, database, backup and processes keep their types.
THEOREM RevocationTypeCorrect == RevocationSpec => []RevocationTypeOK
<1>1. RevocationInv => RevocationTypeOK
  BY DEF RevocationInv
<1> QED
  BY <1>1, RevocationInvariance, PTL

\* The checkpoint is never ahead of the ledger and every record up to it is in effect, in the
\* database and in its backup, wherever a request, an import or a restore breaks off.
THEOREM CheckpointTruthful == RevocationSpec => []CheckpointIsTruthful
<1>1. RevocationInv => CheckpointIsTruthful
  BY DEF RevocationInv, RecordsApplied, TombstonesEffective, CheckpointIsTruthful
<1> QED
  BY <1>1, RevocationInvariance, PTL

\* Once a deletion was reported as done, no model request carries the memory, nor one of its
\* scope made of the same message: not after a crash and not after a restore.
THEOREM RevokedStaysUnsent == RevocationSpec => RevokedNeverSentAgain
<1>1. ASSUME RevocationInv, [RevocationNext]_revocationVars,
             NEW p \in Processes, stage[p] = "ready", stage'[p] = "sending", NEW m \in acknowledged
      PROVE  /\ target'[p] # m
             /\ scope[m] = scope[target'[p]] => SourceOf[m] \cap SourceOf[target'[p]] = {}
  <2>1. Send(p)
    <3> USE DEF RevocationTypeOK
    <3>1. stage' # stage
      BY <1>1
    <3>2. \A q \in Processes : RevocationStep(q) => q = p
      BY <1>1 DEF RevocationInv, RevocationStep, ReadJournal, CompareCheckpoint,
                  TakeLock, ReplayHead, ReplayRecord, ReplayDone, StartImport, ImportCreateHead,
                  ImportAdvanceHead, ImportAppend, ImportMarkInitialized, ImportFinish, CreateMemory,
                  Send, RequestDeletion, BeginDeletion, FindDeleted, PersistEvent, AdvanceHead,
                  CommitDeletion, RollBackDeletion, Acknowledge, Abort
    <3>3. ~Restore /\ ~TakeBackup /\ ~UNCHANGED revocationVars
      BY <1>1, <3>1 DEF Restore, TakeBackup, revocationVars
    <3>4. RevocationStep(p)
      BY <1>1, <3>2, <3>3 DEF RevocationNext
    <3> QED
      BY <1>1, <3>4 DEF RevocationInv, RevocationStep, ReadJournal, CompareCheckpoint,
                  TakeLock, ReplayHead, ReplayRecord, ReplayDone, StartImport, ImportCreateHead,
                  ImportAdvanceHead, ImportAppend, ImportMarkInitialized, ImportFinish, CreateMemory,
                  RequestDeletion, BeginDeletion, FindDeleted, PersistEvent, AdvanceHead,
                  CommitDeletion, RollBackDeletion, Acknowledge, Abort, ReplayStages, AfterLock
  <2>2. target'[p] \in Memories /\ Admissible(target'[p])
    BY <1>1, <2>1 DEF Send, RevocationInv, RevocationTypeOK
  <2>3. m \in memoryDb.tombstones
    BY <1>1 DEF RevocationInv, GatesHold, GateHolds
  <2>4. Effective(memoryDb, m)
    BY <1>1, <2>3 DEF RevocationInv, TombstonesEffective
  <2> QED
    BY <2>2, <2>3, <2>4 DEF Admissible, Effective, SuppressedFor
<1>2. ASSUME RevocationInv, [RevocationNext]_revocationVars
      PROVE  [\A p \in Processes : stage[p] = "ready" /\ stage'[p] = "sending" =>
                \A m \in acknowledged :
                    /\ target'[p] # m
                    /\ scope[m] = scope[target'[p]]
                          => SourceOf[m] \cap SourceOf[target'[p]] = {}]_revocationVars
  BY <1>1, <1>2
<1> QED
  BY <1>2, RevocationInvariance, PTL DEF RevocationSpec, RevokedNeverSentAgain
-----------------------------------------------------------------------------
(* Project memories: the inductive invariant *)

\* One version is active at most: the index over the rows of a key says so.
OneActive == \A r, s \in ActiveIn(Rows) : r = s

\* A memory that is not revoked has an active version, one that is revoked has none.
AliveOrRevoked ==
    \A l \in Logicals :
        /\ l \in revoked => VersionsOf(l) # {} /\ \A r \in ActiveIn(Rows) : r[1] # l
        /\ l \notin revoked /\ VersionsOf(l) # {} => \E r \in ActiveIn(Rows) : r[1] = l
        /\ VersionsOf(l) = {} => takenFrom[l] = {}

\* Rows are never removed, so that what a transaction saw and locked is still there.
SeenRowsExist ==
    \A q \in MemoryRequests :
        /\ rowLocks[q] \subseteq Existing
        /\ operation[q] \in {"update", "delete"} => subject[q] \in Rows
        /\ operation[q] = "accept" => subject[q] \in Candidates

\* An extraction job is counted when it is claimed.
NotYetCounted == extraction \in {"none", "queued"} => attemptCount = 0

ProjectMemoryInv ==
    ProjectMemoryTypeOK /\ NotYetCounted /\ OneActive /\ AliveOrRevoked /\ SeenRowsExist


\* What a request may write to the rows: nothing, ...
Kept == UNCHANGED <<rowStatus, takenFrom, revoked, suppressed>>

\* ... the first version of a new logical memory, while no version is active, ...
Inserted(r, ss) ==
    /\ VersionsOf(r[1]) = {} /\ ActiveIn(Rows) = {} /\ ss \cap suppressed = {}
    /\ rowStatus' = [rowStatus EXCEPT ![r] = "active"]
    /\ takenFrom' = [takenFrom EXCEPT ![r[1]] = ss]
    /\ UNCHANGED <<revoked, suppressed>>

\* ... a next version in place of the active one, ...
Superseded(r, s) ==
    /\ r[1] = s[1] /\ rowStatus[r] = "active" /\ takenFrom[r[1]] \cap suppressed = {}
    /\ rowStatus' = [rowStatus EXCEPT ![r] = "superseded", ![s] = "active"]
    /\ UNCHANGED <<takenFrom, revoked, suppressed>>

\* ... or the deletion of the active version.
Deleted(r) ==
    /\ rowStatus[r] = "active"
    /\ rowStatus' = [rowStatus EXCEPT ![r] = "deleted"]
    /\ revoked' = revoked \cup {r[1]}
    /\ suppressed' = suppressed \cup takenFrom[r[1]]
    /\ UNCHANGED takenFrom


USE ProjectMemoryAssumption
USE DEF Answer, Refuse, Open, rowVars, requestVars, extractionVars

\* There are no rows and no requests yet.
LEMMA ProjectMemoryStart == ProjectMemoryInit => ProjectMemoryInv
<1> SUFFICES ASSUME ProjectMemoryInit PROVE ProjectMemoryInv
  OBVIOUS
<1>1. ProjectMemoryTypeOK
  BY DEF ProjectMemoryInit, ProjectMemoryTypeOK, CandidateStatuses, ExtractionStatuses, Outcomes
<1>2. Existing = {} /\ ActiveIn(Rows) = {} /\ \A l \in Logicals : VersionsOf(l) = {}
  BY DEF ProjectMemoryInit, Existing, ActiveIn, VersionsOf
<1> QED
  BY <1>1, <1>2 DEF ProjectMemoryInv, ProjectMemoryInit, NotYetCounted, OneActive,
     AliveOrRevoked, SeenRowsExist

\* A logical id that is chosen as a new one has no rows.
LEMMA NewHasNoRows == \A l \in NewLogical : l \in Logicals /\ VersionsOf(l) = {}
  BY DEF NewLogical

\* A candidate that is inserted starts a logical memory: while no version is active, all
\* memories that have one are revoked.
LEMMA AcceptedIsNew ==
    ASSUME ProjectMemoryTypeOK, OneActive, AliveOrRevoked, SeenRowsExist,
           NEW q \in MemoryRequests, NEW l \in LogicalFor(q), ActiveIn(Rows) = {}
    PROVE  l \in Logicals /\ VersionsOf(l) = {}
<1>1. rowLocks[q] \subseteq Existing /\ Existing \subseteq Rows
  BY DEF SeenRowsExist, Existing
<1>2. ActiveIn(rowLocks[q]) = {}
  BY <1>1 DEF ActiveIn
<1>3. \A r \in rowLocks[q] : r[1] \in Logicals /\ VersionsOf(r[1]) # {}
  BY <1>1 DEF VersionsOf, Rows
<1>4. \A r \in rowLocks[q] : r[1] \in revoked
  BY <1>3 DEF AliveOrRevoked
<1>5. LogicalFor(q) = NewLogical
  BY <1>2, <1>4 DEF LogicalFor
<1> QED
  BY <1>5, NewHasNoRows

\* A creation inserts a new logical memory: it is refused beside an active version.
LEMMA CreateWrites ==
    ASSUME ProjectMemoryTypeOK, NEW q \in MemoryRequests, Create(q)
    PROVE  Kept \/ \E r \in Rows, ss \in SUBSET Sources : Inserted(r, ss)
<1>1. PICK l \in NewLogical :
        \/ Kept
        \/ /\ offered[q] \cap suppressed = {} /\ Insertable(<<l, 1>>)
           /\ rowStatus' = [rowStatus EXCEPT ![<<l, 1>>] = "active"]
           /\ takenFrom' = [takenFrom EXCEPT ![l] = offered[q]]
           /\ UNCHANGED <<revoked, suppressed>>
  BY DEF Create, Kept
<1>2. l \in Logicals /\ VersionsOf(l) = {} /\ <<l, 1>> \in Rows /\ <<l, 1>>[1] = l
      /\ offered[q] \in SUBSET Sources
  BY NewHasNoRows DEF Rows, ProjectMemoryTypeOK
<1> QED
  BY <1>1, <1>2 DEF Inserted, Insertable

\* An edit replaces the version its user saw, if that is the active one under the lock.
LEMMA UpdateWrites ==
    ASSUME ProjectMemoryTypeOK, SeenRowsExist, NEW q \in MemoryRequests, Update(q)
    PROVE  Kept \/ \E r, s \in Rows : Superseded(r, s)
<1> DEFINE r == subject[q]
           s == <<r[1], NextVersion(rowLocks[q], r[1])>>
<1>1. \/ Kept
      \/ /\ ActiveIn(rowLocks[q]) = {r} /\ takenFrom[r[1]] \cap suppressed = {} /\ s \in Rows
         /\ rowStatus' = [rowStatus EXCEPT ![r] = "superseded", ![s] = "active"]
         /\ UNCHANGED <<takenFrom, revoked, suppressed>>
  BY DEF Update, Kept
<1>2. r \in Rows /\ s[1] = r[1]
  BY DEF Update, SeenRowsExist
<1> HIDE DEF s
<1>3. ActiveIn(rowLocks[q]) = {r} => rowStatus[r] = "active"
  BY DEF ActiveIn
<1> QED
  BY <1>1, <1>2, <1>3 DEF Superseded

\* A deletion deletes the version its user saw, and revokes it with its messages.
LEMMA DeleteWrites ==
    ASSUME ProjectMemoryTypeOK, SeenRowsExist, NEW q \in MemoryRequests, Delete(q)
    PROVE  Kept \/ \E r \in Rows : Deleted(r)
<1> DEFINE r == subject[q]
<1>1. \/ Kept
      \/ /\ ActiveIn(rowLocks[q]) = {r}
         /\ rowStatus' = [rowStatus EXCEPT ![r] = "deleted"]
         /\ revoked' = revoked \cup {r[1]}
         /\ suppressed' = suppressed \cup takenFrom[r[1]]
         /\ UNCHANGED takenFrom
  BY DEF Delete, Kept
<1>2. r \in Rows
  BY DEF Delete, SeenRowsExist
<1>3. ActiveIn(rowLocks[q]) = {r} => rowStatus[r] = "active"
  BY DEF ActiveIn
<1> QED
  BY <1>1, <1>2, <1>3 DEF Deleted

\* An acceptance inserts a new logical memory: the insertion is refused beside an active version.
LEMMA AcceptWrites ==
    ASSUME ProjectMemoryTypeOK, OneActive, AliveOrRevoked, SeenRowsExist,
           NEW q \in MemoryRequests, Accept(q)
    PROVE  Kept \/ \E r \in Rows, ss \in SUBSET Sources : Inserted(r, ss)
<1> DEFINE c == subject[q]
<1>1. \/ Kept
      \/ /\ CandidateSource[c] \notin suppressed
         /\ \E l \in LogicalFor(q), adopting \in BOOLEAN : InsertAccepted(q, c, l, adopting)
  BY DEF Accept, Kept
<1>2. c \in Candidates /\ CandidateSource[c] \in Sources
  BY DEF Accept, SeenRowsExist
<1>3. ASSUME CandidateSource[c] \notin suppressed,
             NEW l \in LogicalFor(q), NEW adopting \in BOOLEAN, InsertAccepted(q, c, l, adopting)
      PROVE  Kept \/ \E r \in Rows, ss \in SUBSET Sources : Inserted(r, ss)
  <2> DEFINE r == <<l, NextVersion(rowLocks[q], l)>>
  <2>1. \/ Kept
        \/ /\ ActiveIn(Rows) = {} /\ r \in Rows /\ r[1] = l
           /\ rowStatus' = [rowStatus EXCEPT ![r] = "active"]
           /\ takenFrom' = [takenFrom EXCEPT ![l] = @ \cup {CandidateSource[c]}]
           /\ UNCHANGED <<revoked, suppressed>>
    BY <1>3 DEF InsertAccepted, Insertable, Kept
  <2> HIDE DEF r
  <2>2. CASE Kept
    BY <2>2
  <2>3. CASE ~Kept
    <3>1. l \in Logicals /\ VersionsOf(l) = {} /\ takenFrom[l] = {}
      BY <2>1, <2>3, AcceptedIsNew DEF AliveOrRevoked
    <3>2. takenFrom' = [takenFrom EXCEPT ![l] = {CandidateSource[c]}]
      BY <2>1, <2>3, <3>1
    <3>3. Inserted(r, {CandidateSource[c]})
      BY <1>3, <2>1, <2>3, <3>1, <3>2 DEF Inserted
    <3> QED
      BY <1>2, <2>1, <2>3, <3>3
  <2> QED
    BY <2>2, <2>3
<1> QED
  BY <1>1, <1>3


\* One of the four.
Written == \/ Kept
           \/ \E r \in Rows, ss \in SUBSET Sources : Inserted(r, ss)
           \/ \E r, s \in Rows : Superseded(r, s)
           \/ \E r \in Rows : Deleted(r)

\* Every step writes to the rows in one of the four ways.
LEMMA Writes ==
    ASSUME ProjectMemoryTypeOK, OneActive, AliveOrRevoked, SeenRowsExist, [ProjectMemoryNext]_projectMemoryVars
    PROVE  Written
<1>1. CASE UNCHANGED <<rowStatus, takenFrom, revoked, suppressed>>
  BY <1>1 DEF Written, Kept
<1>2. ASSUME NEW q \in MemoryRequests, Create(q) PROVE Written
  BY <1>2, CreateWrites DEF Written
<1>3. ASSUME NEW q \in MemoryRequests, Update(q) PROVE Written
  BY <1>3, UpdateWrites DEF Written
<1>4. ASSUME NEW q \in MemoryRequests, Delete(q) PROVE Written
  BY <1>4, DeleteWrites DEF Written
<1>5. ASSUME NEW q \in MemoryRequests, Accept(q) PROVE Written
  BY <1>5, AcceptWrites DEF Written
<1> QED
  BY <1>1, <1>2, <1>3, <1>4, <1>5
  DEF ProjectMemoryNext, RequestCreate, RequestUpdate, RequestDelete, RequestAccept, LockRows,
      LockSources, Reject, Propose, EnqueueExtraction, ClaimExtraction, EndExtraction,
      projectMemoryVars

\* A row that exists is never removed.
LEMMA RowsStay ==
    ASSUME ProjectMemoryTypeOK, Written
    PROVE  Existing \subseteq Existing'
<1>1. CASE Kept
  BY <1>1 DEF Kept, Existing
<1>2. ASSUME NEW r \in Rows, NEW ss \in SUBSET Sources, Inserted(r, ss)
      PROVE  Existing \subseteq Existing'
  BY <1>2 DEF Inserted, Existing, ProjectMemoryTypeOK
<1>3. ASSUME NEW r \in Rows, NEW s \in Rows, Superseded(r, s)
      PROVE  Existing \subseteq Existing'
  BY <1>3 DEF Superseded, Existing, ProjectMemoryTypeOK
<1>4. ASSUME NEW r \in Rows, Deleted(r) PROVE Existing \subseteq Existing'
  BY <1>4 DEF Deleted, Existing, ProjectMemoryTypeOK
<1> QED
  BY <1>1, <1>2, <1>3, <1>4 DEF Written

\* The four writes keep the rows and what is suppressed within their types.
LEMMA StepRowTypes ==
    ASSUME ProjectMemoryTypeOK, Written
    PROVE  /\ rowStatus' \in [Rows -> {"none", "active", "superseded", "deleted"}]
           /\ takenFrom' \in [Logicals -> SUBSET Sources]
           /\ revoked' \subseteq Logicals /\ suppressed' \subseteq Sources
<1>1. CASE Kept
  BY <1>1 DEF Kept, ProjectMemoryTypeOK
<1>2. CASE \E r \in Rows, ss \in SUBSET Sources : Inserted(r, ss)
  <2>1. PICK r \in Rows, ss \in SUBSET Sources : Inserted(r, ss)
    BY <1>2
  <2>2. rowStatus' \in [Rows -> {"none", "active", "superseded", "deleted"}]
    BY <2>1 DEF Inserted, ProjectMemoryTypeOK
  <2>3. takenFrom' \in [Logicals -> SUBSET Sources]
    BY <2>1 DEF Inserted, ProjectMemoryTypeOK
  <2> QED
    BY <2>1, <2>2, <2>3 DEF Inserted, ProjectMemoryTypeOK
<1>3. CASE \E r, s \in Rows : Superseded(r, s)
  BY <1>3 DEF Superseded, ProjectMemoryTypeOK
<1>4. CASE \E r \in Rows : Deleted(r)
  <2>1. PICK r \in Rows : Deleted(r)
    BY <1>4
  <2>2. r[1] \in Logicals
    BY DEF Rows
  <2> QED
    BY <2>1, <2>2 DEF Deleted, ProjectMemoryTypeOK
<1> QED
  BY <1>1, <1>2, <1>3, <1>4 DEF Written

\* The four writes leave one active version: the index refuses an insertion beside it, and an
\* edit supersedes it first.
LEMMA StepOneActive ==
    ASSUME ProjectMemoryTypeOK, OneActive, Written
    PROVE  OneActive'
<1>1. \A r, s \in Rows : rowStatus[r] = "active" /\ rowStatus[s] = "active" => r = s
  BY DEF OneActive, ActiveIn
<1>2. SUFFICES \A r, s \in Rows : rowStatus'[r] = "active" /\ rowStatus'[s] = "active" => r = s
  BY DEF OneActive, ActiveIn
<1>3. CASE Kept
  BY <1>1, <1>3 DEF Kept
<1>4. CASE \E r \in Rows, ss \in SUBSET Sources : Inserted(r, ss)
  BY <1>4 DEF Inserted, ActiveIn, ProjectMemoryTypeOK
<1>5. CASE \E r, s \in Rows : Superseded(r, s)
  BY <1>1, <1>5 DEF Superseded, ProjectMemoryTypeOK
<1>6. CASE \E r \in Rows : Deleted(r)
  BY <1>1, <1>6 DEF Deleted, ProjectMemoryTypeOK
<1> QED
  BY <1>3, <1>4, <1>5, <1>6 DEF Written

\* The four writes keep a memory alive or revoked: what is inserted is new, what replaces the
\* active version is active, and what is deleted is revoked.
LEMMA StepAliveOrRevoked ==
    ASSUME ProjectMemoryTypeOK, OneActive, AliveOrRevoked, Written
    PROVE  AliveOrRevoked'
<1> SUFFICES ASSUME NEW l \in Logicals
    PROVE  /\ l \in revoked' => (VersionsOf(l) # {})' /\ \A r \in ActiveIn(Rows)' : r[1] # l
           /\ l \notin revoked' /\ (VersionsOf(l) # {})' => \E r \in ActiveIn(Rows)' : r[1] = l
           /\ (VersionsOf(l) = {})' => takenFrom'[l] = {}
  BY DEF AliveOrRevoked
<1> DEFINE Goal ==
      /\ l \in revoked' => /\ \E r \in Rows : r[1] = l /\ rowStatus'[r] # "none"
                           /\ \A r \in Rows : rowStatus'[r] = "active" => r[1] # l
      /\ l \notin revoked' /\ (\E r \in Rows : r[1] = l /\ rowStatus'[r] # "none")
           => \E r \in Rows : rowStatus'[r] = "active" /\ r[1] = l
      /\ (\A r \in Rows : r[1] = l => rowStatus'[r] = "none") => takenFrom'[l] = {}
<1>1. SUFFICES Goal
  BY DEF VersionsOf, ActiveIn, Existing
<1>2. /\ l \in revoked => /\ \E r \in Rows : r[1] = l /\ rowStatus[r] # "none"
                          /\ \A r \in Rows : rowStatus[r] = "active" => r[1] # l
      /\ l \notin revoked /\ (\E r \in Rows : r[1] = l /\ rowStatus[r] # "none")
           => \E r \in Rows : rowStatus[r] = "active" /\ r[1] = l
      /\ (\A r \in Rows : r[1] = l => rowStatus[r] = "none") => takenFrom[l] = {}
  BY DEF AliveOrRevoked, VersionsOf, ActiveIn, Existing
<1>3. \A r, s \in Rows : rowStatus[r] = "active" /\ rowStatus[s] = "active" => r = s
  BY DEF OneActive, ActiveIn
<1>4. \A r \in Rows : r[1] \in Logicals
  BY DEF Rows
<1>5. CASE Kept
  BY <1>2, <1>5 DEF Kept
<1>6. ASSUME NEW r \in Rows, NEW ss \in SUBSET Sources, Inserted(r, ss)
      PROVE  Goal
  <2>1. \A s \in Rows : rowStatus'[s] = IF s = r THEN "active" ELSE rowStatus[s]
    BY <1>6 DEF Inserted, ProjectMemoryTypeOK
  <2>2. \A s \in Rows : rowStatus[s] # "active" /\ (s[1] = r[1] => rowStatus[s] = "none")
    BY <1>6 DEF Inserted, ActiveIn, VersionsOf, Existing
  <2>3. revoked' = revoked /\ takenFrom' = [takenFrom EXCEPT ![r[1]] = ss]
    BY <1>6 DEF Inserted
  <2> QED
    BY <1>2, <1>4, <2>1, <2>2, <2>3 DEF ProjectMemoryTypeOK
<1>7. ASSUME NEW r \in Rows, NEW s \in Rows, Superseded(r, s)
      PROVE  Goal
  <2>1. \A t \in Rows : rowStatus'[t] = IF t = s THEN "active"
                                        ELSE IF t = r THEN "superseded" ELSE rowStatus[t]
    BY <1>7 DEF Superseded, ProjectMemoryTypeOK
  <2>2. revoked' = revoked /\ takenFrom' = takenFrom /\ r[1] = s[1] /\ rowStatus[r] = "active"
    BY <1>7 DEF Superseded
  <2> QED
    BY <1>2, <1>3, <2>1, <2>2
<1>8. ASSUME NEW r \in Rows, Deleted(r)
      PROVE  Goal
  <2>1. \A t \in Rows : rowStatus'[t] = IF t = r THEN "deleted" ELSE rowStatus[t]
    BY <1>8 DEF Deleted, ProjectMemoryTypeOK
  <2>2. revoked' = revoked \cup {r[1]} /\ takenFrom' = takenFrom /\ rowStatus[r] = "active"
    BY <1>8 DEF Deleted
  <2> QED
    BY <1>2, <1>3, <2>1, <2>2
<1> QED
  BY <1>5, <1>6, <1>7, <1>8 DEF Written

\* How a step moves the requests: one begins, about a row or a candidate there is, one locks,
\* one is answered, or none moves.
Moved ==
    \/ UNCHANGED requestVars
    \/ \E q \in MemoryRequests, op \in {"create", "update", "delete", "accept"},
          s \in Rows \cup Candidates \cup {<<>>}, ss \in SUBSET Sources :
             /\ op \in {"update", "delete"} => s \in Rows
             /\ op = "accept" => s \in Candidates
             /\ Open(q, op, s, ss)
    \/ \E q \in MemoryRequests : LockRows(q) \/ LockSources(q)
    \/ \E q \in MemoryRequests, o \in Outcomes : Answer(q, o)

\* Every step moves the requests in one of these ways, and only Accept, Reject and Propose
\* decide candidates.
LEMMA Moves ==
    ASSUME [ProjectMemoryNext]_projectMemoryVars
    PROVE  Moved
<1> USE DEF Outcomes
<1>1. CASE UNCHANGED requestVars
  BY <1>1 DEF Moved
<1>2. ASSUME NEW q \in MemoryRequests, RequestCreate(q) PROVE Moved
  BY <1>2 DEF RequestCreate, ValidSources, Moved
<1>3. ASSUME NEW q \in MemoryRequests, RequestUpdate(q) PROVE Moved
  BY <1>3 DEF RequestUpdate, ActiveIn, Moved
<1>4. ASSUME NEW q \in MemoryRequests, RequestDelete(q) PROVE Moved
  BY <1>4 DEF RequestDelete, ActiveIn, Moved
<1>5. ASSUME NEW q \in MemoryRequests, RequestAccept(q) PROVE Moved
  BY <1>5 DEF RequestAccept, Undecided, Moved
<1>6. ASSUME NEW q \in MemoryRequests, LockRows(q) \/ LockSources(q) PROVE Moved
  BY <1>6 DEF Moved
<1>7. ASSUME NEW q \in MemoryRequests, Create(q) PROVE Moved
  BY <1>7 DEF Create, Moved
<1>8. ASSUME NEW q \in MemoryRequests, Update(q) PROVE Moved
  BY <1>8 DEF Update, Moved
<1>9. ASSUME NEW q \in MemoryRequests, Delete(q) PROVE Moved
  BY <1>9 DEF Delete, Moved
<1>10. ASSUME NEW q \in MemoryRequests, Accept(q) PROVE Moved
  BY <1>10 DEF Accept, InsertAccepted, Moved
<1> QED
  BY <1>1, <1>2, <1>3, <1>4, <1>5, <1>6, <1>7, <1>8, <1>9, <1>10
  DEF ProjectMemoryNext, Reject, Propose, EnqueueExtraction, ClaimExtraction, EndExtraction,
      projectMemoryVars

\* What a transaction saw stays on record, as rows do, and what it is about is chosen when it
\* begins.
LEMMA StepSeenRowsExist ==
    ASSUME ProjectMemoryTypeOK, SeenRowsExist, Existing \subseteq Existing', Moved
    PROVE  SeenRowsExist'
<1> DEFINE Fits(q, op, s, rs) == /\ rs \subseteq Existing'
                                 /\ op \in {"update", "delete"} => s \in Rows
                                 /\ op = "accept" => s \in Candidates
           Goal == \A q \in MemoryRequests : Fits(q, operation'[q], subject'[q], rowLocks'[q])
<1>1. \A q \in MemoryRequests : Fits(q, operation[q], subject[q], rowLocks[q])
  BY DEF SeenRowsExist
<1>2. SUFFICES Goal
  BY DEF SeenRowsExist
<1>3. CASE UNCHANGED requestVars
  BY <1>1, <1>3
<1>4. ASSUME NEW q \in MemoryRequests, NEW op, NEW s, NEW ss, Open(q, op, s, ss),
             op \in {"update", "delete"} => s \in Rows, op = "accept" => s \in Candidates
      PROVE  Goal
  BY <1>1, <1>4 DEF ProjectMemoryTypeOK
<1>5. ASSUME NEW q \in MemoryRequests, LockRows(q)
      PROVE  Goal
  <2>1. PICK rs \in SUBSET Existing' : rowLocks' = [rowLocks EXCEPT ![q] = rs]
    BY <1>1, <1>5 DEF LockRows, VersionsOf
  <2>2. UNCHANGED <<operation, subject>>
    BY <1>5 DEF LockRows
  <2> QED
    BY <1>1, <2>1, <2>2 DEF ProjectMemoryTypeOK
<1>6. ASSUME NEW q \in MemoryRequests, LockSources(q)
      PROVE  Goal
  BY <1>1, <1>6 DEF LockSources
<1>7. ASSUME NEW q \in MemoryRequests, NEW o, Answer(q, o)
      PROVE  Goal
  BY <1>1, <1>7 DEF ProjectMemoryTypeOK
<1> QED
  BY <1>3, <1>4, <1>5, <1>6, <1>7 DEF Moved

\* Requests keep their types.
LEMMA StepRequestTypes ==
    ASSUME ProjectMemoryTypeOK, Moved
    PROVE  /\ operation' \in [MemoryRequests -> {"none", "create", "update", "delete", "accept"}]
           /\ subject' \in [MemoryRequests -> Rows \cup Candidates \cup {<<>>}]
           /\ offered' \in [MemoryRequests -> SUBSET Sources]
           /\ rowLocks' \in [MemoryRequests -> SUBSET Rows]
           /\ phase' \in [MemoryRequests -> {"idle", "waiting", "locked", "sourced"}]
           /\ outcome' \in [MemoryRequests -> Outcomes]
<1> DEFINE Goal == /\ operation' \in [MemoryRequests -> {"none", "create", "update", "delete", "accept"}]
                   /\ subject' \in [MemoryRequests -> Rows \cup Candidates \cup {<<>>}]
                   /\ offered' \in [MemoryRequests -> SUBSET Sources]
                   /\ rowLocks' \in [MemoryRequests -> SUBSET Rows]
                   /\ phase' \in [MemoryRequests -> {"idle", "waiting", "locked", "sourced"}]
                   /\ outcome' \in [MemoryRequests -> Outcomes]
<1>1. SUFFICES Goal
  OBVIOUS
<1>2. Existing \subseteq Rows
  BY DEF Existing
<1>3. CASE UNCHANGED requestVars
  BY <1>3 DEF ProjectMemoryTypeOK
<1>4. ASSUME NEW q \in MemoryRequests, NEW op \in {"create", "update", "delete", "accept"},
             NEW s \in Rows \cup Candidates \cup {<<>>}, NEW ss \in SUBSET Sources,
             Open(q, op, s, ss)
      PROVE  Goal
  <2>1. /\ operation' \in [MemoryRequests -> {"none", "create", "update", "delete", "accept"}]
        /\ phase' \in [MemoryRequests -> {"idle", "waiting", "locked", "sourced"}]
        /\ outcome' \in [MemoryRequests -> Outcomes]
    BY <1>4 DEF ProjectMemoryTypeOK
  <2>2. subject' \in [MemoryRequests -> Rows \cup Candidates \cup {<<>>}]
    BY <1>4 DEF ProjectMemoryTypeOK
  <2>3. /\ offered' \in [MemoryRequests -> SUBSET Sources]
        /\ rowLocks' \in [MemoryRequests -> SUBSET Rows]
    BY <1>2, <1>4 DEF ProjectMemoryTypeOK
  <2> QED
    BY <2>1, <2>2, <2>3
<1>5. ASSUME NEW q \in MemoryRequests, LockRows(q)
      PROVE  Goal
  <2>1. PICK rs \in SUBSET Rows : rowLocks' = [rowLocks EXCEPT ![q] = rs]
    BY <1>2, <1>5 DEF LockRows, VersionsOf, ProjectMemoryTypeOK
  <2> QED
    BY <1>5, <2>1 DEF LockRows, ProjectMemoryTypeOK
<1>6. ASSUME NEW q \in MemoryRequests, LockSources(q)
      PROVE  Goal
  BY <1>6 DEF LockSources, ProjectMemoryTypeOK
<1>7. ASSUME NEW q \in MemoryRequests, NEW o \in Outcomes, Answer(q, o)
      PROVE  Goal
  BY <1>7 DEF ProjectMemoryTypeOK
<1> HIDE DEF Goal
<1> QED
  BY <1>1, <1>3, <1>4, <1>5, <1>6, <1>7, ZenonT(60) DEF Moved

\* How a step changes candidates: not at all, or one that is not decided, which becomes a row
\* at most when it is accepted.
Decided ==
    \/ UNCHANGED <<candidateStatus, acceptedAs>>
    \/ \E c \in Candidates, st \in {"proposed", "accepted", "rejected"} :
          /\ candidateStatus[c] \notin {"accepted", "rejected"}
          /\ candidateStatus' = [candidateStatus EXCEPT ![c] = st]
          /\ \/ UNCHANGED acceptedAs
             \/ \E r \in Rows : acceptedAs' = [acceptedAs EXCEPT ![c] = @ \cup {r}]

\* Every step does: a request judges its candidate again under the lock.
LEMMA Decides ==
    ASSUME SeenRowsExist, [ProjectMemoryNext]_projectMemoryVars
    PROVE  Decided
<1>1. CASE UNCHANGED <<candidateStatus, acceptedAs>>
  BY <1>1 DEF Decided
<1>2. ASSUME NEW q \in MemoryRequests, Accept(q) PROVE Decided
  <2>1. subject[q] \in Candidates
    BY <1>2 DEF Accept, SeenRowsExist
  <2>2. \/ UNCHANGED <<candidateStatus, acceptedAs>>
        \/ /\ candidateStatus[subject[q]] = "proposed"
           /\ candidateStatus' = [candidateStatus EXCEPT ![subject[q]] = "rejected"]
           /\ UNCHANGED acceptedAs
        \/ /\ candidateStatus[subject[q]] = "proposed"
           /\ \E l \in LogicalFor(q), adopting \in BOOLEAN :
                 InsertAccepted(q, subject[q], l, adopting)
    BY <1>2 DEF Accept
  <2> QED
    BY <2>1, <2>2 DEF Decided, InsertAccepted
<1>3. ASSUME NEW c \in Candidates, Reject(c) PROVE Decided
  BY <1>3 DEF Reject, Decided
<1>4. ASSUME NEW c \in Candidates, Propose(c) PROVE Decided
  BY <1>4 DEF Propose, Decided
<1> QED
  BY <1>1, <1>2, <1>3, <1>4, ZenonT(60)
  DEF ProjectMemoryNext, RequestCreate, RequestUpdate, RequestDelete, RequestAccept, LockRows,
      LockSources, Create, Update, Delete, EnqueueExtraction, ClaimExtraction, EndExtraction,
      projectMemoryVars

\* Extraction keeps its types and its count: the claim counts, and is made of a job that is
\* queued or has attempts left.
LEMMA StepExtraction ==
    ASSUME ProjectMemoryTypeOK, NotYetCounted, [ProjectMemoryNext]_projectMemoryVars
    PROVE  /\ extraction' \in ExtractionStatuses
           /\ attemptCount' \in 0..MaxExtractions
           /\ eligible' \subseteq Sources
           /\ NotYetCounted'
<1> USE DEF ProjectMemoryTypeOK, NotYetCounted, ExtractionStatuses
<1>1. CASE UNCHANGED extractionVars
  BY <1>1
<1>2. CASE EnqueueExtraction
  BY <1>2 DEF EnqueueExtraction
<1>3. CASE ClaimExtraction
  BY <1>3 DEF ClaimExtraction
<1>4. CASE EndExtraction
  BY <1>4 DEF EndExtraction
<1>5. ASSUME NEW q \in MemoryRequests, Accept(q) PROVE UNCHANGED extractionVars
  BY <1>5 DEF Accept, InsertAccepted
<1>6. \/ UNCHANGED extractionVars
      \/ EnqueueExtraction \/ ClaimExtraction \/ EndExtraction
      \/ \E q \in MemoryRequests : Accept(q)
  <2> HIDE DEF ProjectMemoryTypeOK, NotYetCounted
  <2> QED
    BY ZenonT(60) DEF ProjectMemoryNext, RequestCreate, RequestUpdate, RequestDelete,
       RequestAccept,
           LockRows, LockSources, Create, Update, Delete, Reject, Propose, projectMemoryVars
<1> QED
  BY <1>1, <1>2, <1>3, <1>4, <1>5, <1>6

\* The invariant is inductive.
LEMMA ProjectMemoryStep ==
    ASSUME ProjectMemoryInv, [ProjectMemoryNext]_projectMemoryVars
    PROVE  ProjectMemoryInv'
<1>1. /\ ProjectMemoryTypeOK /\ NotYetCounted /\ OneActive /\ AliveOrRevoked /\ SeenRowsExist
  BY DEF ProjectMemoryInv
<1>2. Written /\ Moved /\ Decided
  BY <1>1, Writes, Moves, Decides
<1>3. OneActive' /\ AliveOrRevoked' /\ SeenRowsExist'
  BY <1>1, <1>2, RowsStay, StepOneActive, StepAliveOrRevoked, StepSeenRowsExist
<1>4. /\ candidateStatus' \in [Candidates -> CandidateStatuses]
      /\ acceptedAs' \in [Candidates -> SUBSET Rows]
  BY <1>1, <1>2 DEF Decided, ProjectMemoryTypeOK, CandidateStatuses
<1>5. ProjectMemoryTypeOK'
  BY <1>1, <1>2, <1>4, StepRowTypes, StepRequestTypes, StepExtraction DEF ProjectMemoryTypeOK
<1> QED
  BY <1>1, <1>3, <1>5, StepExtraction DEF ProjectMemoryInv

\* The invariant of project memories holds.
THEOREM ProjectMemoryInvariance == ProjectMemorySpec => []ProjectMemoryInv
<1>1. ProjectMemoryInit => ProjectMemoryInv
  BY ProjectMemoryStart
<1>2. ProjectMemoryInv /\ [ProjectMemoryNext]_projectMemoryVars => ProjectMemoryInv'
  BY ProjectMemoryStep
<1> QED
  BY <1>1, <1>2, PTL DEF ProjectMemorySpec

\* Rows, candidates and requests keep their types.
THEOREM ProjectMemoryTypeCorrect == ProjectMemorySpec => []ProjectMemoryTypeOK
<1>1. ProjectMemoryInv => ProjectMemoryTypeOK
  BY DEF ProjectMemoryInv
<1> QED
  BY <1>1, ProjectMemoryInvariance, PTL

\* No row becomes active under a revoked logical id or from a suppressed message, however
\* requests, deletions and the extraction overlap.
THEOREM NothingRevived == ProjectMemorySpec => NothingRevivesRevoked
<1> DEFINE Fresh == \A r \in Rows : rowStatus[r] # "active" /\ rowStatus'[r] = "active" =>
                       r[1] \notin revoked' /\ takenFrom'[r[1]] \cap suppressed' = {}
<1>1. ASSUME ProjectMemoryInv, [ProjectMemoryNext]_projectMemoryVars
      PROVE  Fresh
  <2>1. /\ ProjectMemoryTypeOK /\ AliveOrRevoked /\ Written
    BY <1>1, Writes DEF ProjectMemoryInv
  <2>2. \A r \in Rows : r[1] \in Logicals
    BY DEF Rows
  <2>3. CASE Kept
    BY <2>3 DEF Kept
  <2>4. ASSUME NEW r \in Rows, NEW ss \in SUBSET Sources, Inserted(r, ss)
        PROVE  Fresh
    <3>1. r[1] \notin revoked /\ ss \cap suppressed = {}
      BY <2>1, <2>2, <2>4 DEF AliveOrRevoked, Inserted
    <3>2. \A s \in Rows : rowStatus'[s] = IF s = r THEN "active" ELSE rowStatus[s]
      BY <2>1, <2>4 DEF Inserted, ProjectMemoryTypeOK
    <3>3. takenFrom'[r[1]] = ss
      BY <2>1, <2>2, <2>4 DEF Inserted, ProjectMemoryTypeOK
    <3> QED
      BY <2>4, <3>1, <3>2, <3>3 DEF Inserted
  <2>5. ASSUME NEW r \in Rows, NEW s \in Rows, Superseded(r, s)
        PROVE  Fresh
    <3>1. r[1] \notin revoked
      BY <2>1, <2>2, <2>5 DEF AliveOrRevoked, ActiveIn, Superseded
    <3>2. \A t \in Rows : rowStatus'[t] = IF t = s THEN "active"
                                          ELSE IF t = r THEN "superseded" ELSE rowStatus[t]
      BY <2>1, <2>5 DEF Superseded, ProjectMemoryTypeOK
    <3> QED
      BY <2>5, <3>1, <3>2 DEF Superseded
  <2>6. ASSUME NEW r \in Rows, Deleted(r)
        PROVE  Fresh
    BY <2>1, <2>6 DEF Deleted, ProjectMemoryTypeOK
  <2> QED
    BY <2>1, <2>3, <2>4, <2>5, <2>6 DEF Written
<1>2. ASSUME ProjectMemoryInv, [ProjectMemoryNext]_projectMemoryVars
      PROVE  [\A r \in Rows : rowStatus[r] # "active" /\ rowStatus'[r] = "active" =>
                /\ r[1] \notin revoked'
                /\ takenFrom'[r[1]] \cap suppressed' = {}]_projectMemoryVars
  BY <1>1, <1>2
<1> QED
  BY <1>2, ProjectMemoryInvariance, PTL DEF ProjectMemorySpec, NothingRevivesRevoked

\* A candidate is decided once and becomes one row at most, whatever overtakes the request
\* that accepts it.
THEOREM CandidatesDecidedOnce == ProjectMemorySpec => DecidedOnce
<1> DEFINE Stays == \A c \in Candidates : candidateStatus[c] \in {"accepted", "rejected"} =>
                       candidateStatus'[c] = candidateStatus[c] /\ acceptedAs'[c] = acceptedAs[c]
<1>1. ASSUME ProjectMemoryInv, [ProjectMemoryNext]_projectMemoryVars
      PROVE  Stays
  <2>1. Decided /\ ProjectMemoryTypeOK
    BY <1>1, Decides DEF ProjectMemoryInv
  <2> QED
    BY <2>1 DEF Decided, ProjectMemoryTypeOK
<1>2. ASSUME ProjectMemoryInv, [ProjectMemoryNext]_projectMemoryVars
      PROVE  [\A c \in Candidates : candidateStatus[c] \in {"accepted", "rejected"} =>
                /\ candidateStatus'[c] = candidateStatus[c]
                /\ acceptedAs'[c] = acceptedAs[c]]_projectMemoryVars
  BY <1>1, <1>2
<1> QED
  BY <1>2, ProjectMemoryInvariance, PTL DEF ProjectMemorySpec, DecidedOnce

-----------------------------------------------------------------------------
(* Reads of memories: the inductive invariant *)

VersionRecords ==
    [from : Nat, to : Nat, status : {"active", "superseded", "deleted"}, disputed : BOOLEAN]
Summaries == [covers : SUBSET Nat, through : Nat]
HiddenSources == [project : SUBSET Nat, user : SUBSET Nat]
OrUnread(S) == S \cup {Unread}
ReadRequests ==
    [op : Reads, begun : BOOLEAN,
     ids : OrUnread(SUBSET (Items \X Nat)), rows : OrUnread(SUBSET (Items \X Nat)),
     revoked : OrUnread(SUBSET Items),
     project : OrUnread(SUBSET Nat), user : OrUnread(SUBSET Nat),
     summary : Summaries, disputed : SUBSET Items,
     forgotten : HiddenSources, gone : SUBSET Items]

\* Only a fact or a preference is deleted.
MemoryReadsTypeOK ==
    /\ said \in Nat /\ clock \in Nat
    /\ turns \in [1..MaxMessages -> OrUnread(SUBSET Nat)]
    /\ summary \in Summaries
    /\ versions \in [Items -> Seq(VersionRecords)]
    /\ sources \in [Items -> SUBSET Nat]
    /\ tombstones \subseteq {"fact", "habit"}
    /\ hidden \in HiddenSources
    /\ selected \subseteq Items \X Nat /\ used \subseteq Items \X Nat
    /\ request \in ReadRequests

\* A version begins when, or after, the versions before it end, and not in the future.
InOrder(history, now) ==
    /\ \A v \in DOMAIN history : history[v].from <= now
    /\ \A v, w \in DOMAIN history : v < w => history[v].to <= history[w].from
HistoriesInOrder == \A item \in Items : InOrder(versions[item], Now(item))

\* Nothing is given back, and a deleted preference has no row that could be read.
DeletionsStand ==
    /\ request.gone \subseteq tombstones
    /\ request.forgotten.project \subseteq hidden.project
    /\ request.forgotten.user \subseteq hidden.user
    /\ "habit" \in tombstones => versions["habit"] = <<>>

\* What a read has seen by now leaves out what was deleted before it began.
Unseen(r) == r.rows = Unread /\ r.revoked = Unread /\ r.project = Unread /\ r.user = Unread
SeesDeletions(r) ==
    /\ ~r.begun => Unseen(r)
    /\ r.rows # Unread =>
          \A row \in r.rows : row[1] \in ItemsOf(r.op) /\ (row[1] = "habit" => "habit" \notin r.gone)
    /\ ~Unfiltered(r.op) =>
          /\ r.revoked # Unread /\ r.op # "candidates" => r.gone \subseteq r.revoked
          /\ r.project # Unread /\ r.op \notin {"preferences", "selected"} =>
                r.forgotten.project \subseteq r.project
          /\ r.user # Unread => r.forgotten.user \subseteq r.user

\* The first part of the property.
AnswerForgets ==
    display # NoDisplay =>
        /\ \A row \in display.rows :
            /\ Private(row[1]) \/ ~Unfiltered(request.op) => row[1] \notin display.gone
            /\ ~Unfiltered(request.op) =>
                /\ sources[row[1]] \cap display.forgotten.user = {}
                /\ ~Private(row[1]) => sources[row[1]] \cap display.forgotten.project = {}
        /\ \A m \in display.covers :
            m <= display.through => m \notin display.forgotten.user \cup display.forgotten.project

MemoryReadsInv ==
    /\ MemoryReadsTypeOK
    /\ HistoriesInOrder
    /\ DeletionsStand
    /\ SeesDeletions(request)
    /\ AnswerForgets

\* A version that takes the place of the newest and begins when it did keeps the order.
LEMMA NewestMarked ==
    ASSUME NEW history \in Seq(VersionRecords), NEW now \in Nat, InOrder(history, now),
           Len(history) > 0,
           NEW mark \in VersionRecords, mark.from = history[Len(history)].from
    PROVE  LET marked == [history EXCEPT ![Len(history)] = mark] IN
           /\ marked \in Seq(VersionRecords) /\ Len(marked) = Len(history)
           /\ marked[Len(history)] = mark
           /\ \A v \in DOMAIN history : marked[v].from = history[v].from
           /\ InOrder(marked, now)
<1> DEFINE n == Len(history)
           marked == [history EXCEPT ![n] = mark]
<1>1. n \in Nat /\ n \in 1..n /\ DOMAIN history = 1..n
  BY LenProperties
<1>2. \A v \in 1..n : history[v] \in VersionRecords
  BY <1>1
<1>3. /\ marked \in Seq(VersionRecords) /\ Len(marked) = n
      /\ \A v \in 1..n : marked[v] = IF v = n THEN mark ELSE history[v]
  BY <1>1, ExceptSeq
<1> HIDE DEF marked
<1>4. DOMAIN marked = 1..n
  BY <1>3, LenProperties
<1>5. \A v \in 1..n : marked[v].from = history[v].from
  BY <1>1, <1>3
<1>6. ASSUME NEW v \in 1..n, NEW w \in 1..n, v < w PROVE marked[v].to = history[v].to
  <2>1. v # n
    <3>1. n \in Nat
      BY <1>1
    <3> HIDE DEF n
    <3> QED
      BY <1>6, <3>1
  <2> QED
    BY <1>3, <2>1
<1>7. InOrder(marked, now)
  BY <1>1, <1>4, <1>5, <1>6 DEF InOrder
<1> QED
  BY <1>1, <1>3, <1>5, <1>7 DEF marked

\* A version that begins now follows those that have ended by now.
LEMMA NewestAdded ==
    ASSUME NEW history \in Seq(VersionRecords), NEW now \in Nat, InOrder(history, now),
           NEW next \in VersionRecords, next.from = now,
           Len(history) > 0 => history[Len(history)].to = now
    PROVE  /\ Append(history, next) \in Seq(VersionRecords)
           /\ InOrder(Append(history, next), now)
<1> DEFINE n == Len(history)
           longer == Append(history, next)
<1>1. n \in Nat /\ DOMAIN history = 1..n
  BY LenProperties
<1>2. /\ longer \in Seq(VersionRecords) /\ Len(longer) = n + 1
      /\ \A v \in 1..n : longer[v] = history[v]
      /\ longer[n + 1] = next
  BY AppendProperties
<1> HIDE DEF longer
<1>3. DOMAIN longer = 1..(n + 1)
  BY <1>1, <1>2, LenProperties
<1>4. \A v \in 1..n : history[v].to \in Nat /\ history[v].from \in Nat /\ history[v].from <= now
  <2>1. \A v \in 1..n : history[v] \in VersionRecords
    BY <1>1
  <2> QED
    BY <1>1, <2>1 DEF InOrder, VersionRecords
<1>5. \A v \in 1..n : history[v].to <= now
  <2> SUFFICES ASSUME NEW v \in 1..n PROVE history[v].to <= now
    OBVIOUS
  <2>1. n \in 1..n /\ history[n].to = now
    BY <1>1
  <2>2. CASE v = n
    BY <2>1, <2>2
  <2>3. CASE v < n
    <3>1. history[v].to <= history[n].from
      BY <1>1, <2>1, <2>3 DEF InOrder
    <3> QED
      BY <1>4, <2>1, <3>1
  <2>4. v < n \/ v = n
    <3>1. n \in Nat
      BY <1>1
    <3> HIDE DEF n
    <3> QED
      BY <3>1
  <2> QED
    BY <2>2, <2>3, <2>4
<1>6. \A v \in 1..(n + 1) : longer[v].from <= now
  BY <1>1, <1>2, <1>4
<1>7. ASSUME NEW v \in 1..(n + 1), NEW w \in 1..(n + 1), v < w
      PROVE  longer[v].to <= longer[w].from
  <2>1. v \in 1..n /\ longer[v] = history[v]
    BY <1>1, <1>2, <1>7
  <2>2. CASE w = n + 1
    BY <1>2, <1>5, <2>1, <2>2
  <2>3. CASE w \in 1..n
    BY <1>1, <1>2, <1>7, <2>1, <2>3 DEF InOrder
  <2> QED
    BY <1>1, <2>2, <2>3
<1> QED
  BY <1>2, <1>3, <1>6, <1>7 DEF InOrder, longer

\* At no moment are two of them in force.
LEMMA OneInForce ==
    ASSUME MemoryReadsTypeOK, HistoriesInOrder,
           NEW item \in Items, NEW t \in 0..MaxTime,
           NEW v \in EffectiveAt(item, t), NEW w \in EffectiveAt(item, t)
    PROVE  v = w
<1> DEFINE history == versions[item]
<1>1. history \in Seq(VersionRecords) /\ InOrder(history, Now(item))
  BY DEF MemoryReadsTypeOK, HistoriesInOrder
<1>2. Len(history) \in Nat /\ DOMAIN history = 1..Len(history)
  BY <1>1, LenProperties
<1>3. /\ v \in DOMAIN history /\ history[v].from <= t /\ t < history[v].to
      /\ w \in DOMAIN history /\ history[w].from <= t /\ t < history[w].to
  BY DEF EffectiveAt
<1>4. /\ history[v].from \in Nat /\ history[v].to \in Nat
      /\ history[w].from \in Nat /\ history[w].to \in Nat
  <2>1. history[v] \in VersionRecords /\ history[w] \in VersionRecords
    BY <1>1, <1>2, <1>3
  <2> QED
    BY <2>1 DEF VersionRecords
<1> HIDE DEF history
<1>5. CASE v < w
  BY <1>1, <1>3, <1>4, <1>5 DEF InOrder
<1>6. CASE w < v
  BY <1>1, <1>3, <1>4, <1>6 DEF InOrder
<1> QED
  BY <1>2, <1>3, <1>5, <1>6

LEMMA MemoryReadsStart == MemoryReadsInit => MemoryReadsInv
<1> SUFFICES ASSUME MemoryReadsInit PROVE MemoryReadsInv
  OBVIOUS
<1>1. PICK op \in Reads : request = Due(op)
  BY DEF MemoryReadsInit
<1>2. /\ request.op = op /\ request.begun = FALSE /\ request.gone = {}
      /\ request.forgotten = NoneHidden /\ Unseen(request)
  BY <1>1 DEF Due, Unseen
<1>3. NoneHidden \in HiddenSources /\ NoneHidden.project = {} /\ NoneHidden.user = {}
      /\ NoSummary \in Summaries
  BY DEF NoneHidden, HiddenSources, NoSummary, Summaries
<1>4. request \in ReadRequests
  BY <1>1, <1>3 DEF Due, ReadRequests, OrUnread
<1>5. \A item \in Items : versions[item] = <<>>
  BY DEF MemoryReadsInit
<1>6. MemoryReadsTypeOK
  <2>1. <<>> \in Seq(VersionRecords)
    OBVIOUS
  <2>2. versions \in [Items -> Seq(VersionRecords)] /\ sources \in [Items -> SUBSET Nat]
    BY <2>1 DEF MemoryReadsInit
  <2>3. turns \in [1..MaxMessages -> OrUnread(SUBSET Nat)]
    BY DEF MemoryReadsInit, OrUnread
  <2> QED
    BY <1>3, <1>4, <2>2, <2>3 DEF MemoryReadsInit, MemoryReadsTypeOK
<1>7. HistoriesInOrder
  BY <1>5 DEF HistoriesInOrder, InOrder
<1>8. DeletionsStand
  BY <1>2, <1>3 DEF DeletionsStand, MemoryReadsInit
<1>9. SeesDeletions(request)
  BY <1>2 DEF SeesDeletions, Unseen
<1>10. AnswerForgets
  BY DEF MemoryReadsInit, AnswerForgets
<1> QED
  BY <1>6, <1>7, <1>8, <1>9, <1>10 DEF MemoryReadsInv

-----------------------------------------------------------------------------
(* Reads of memories: every step *)

LEMMA NowIsNat ==
    ASSUME MemoryReadsTypeOK, NEW item
    PROVE  Now(item) \in Nat /\ Version(item) \in VersionRecords /\ Version(item).from = Now(item)
  BY MemoryReadsAssumption DEF MemoryReadsTypeOK, Now, Version, VersionRecords

\* A new history of one item.
LEMMA HistoryWritten ==
    ASSUME MemoryReadsTypeOK, HistoriesInOrder, UNCHANGED clock, NEW item \in Items,
           NEW history \in Seq(VersionRecords), InOrder(history, Now(item)),
           versions' = [versions EXCEPT ![item] = history]
    PROVE  versions' \in [Items -> Seq(VersionRecords)] /\ HistoriesInOrder'
<1>1. versions \in [Items -> Seq(VersionRecords)]
  BY DEF MemoryReadsTypeOK
<1>2. versions' \in [Items -> Seq(VersionRecords)]
  BY <1>1
<1>3. \A i \in Items : versions'[i] = IF i = item THEN history ELSE versions[i]
  BY <1>1
<1>4. \A i : Now(i)' = Now(i)
  BY DEF Now
<1> QED
  BY <1>2, <1>3, <1>4 DEF HistoriesInOrder

\* The newest version of an item that has one.
LEMMA NewestIs ==
    ASSUME MemoryReadsTypeOK, HistoriesInOrder, NEW item \in Items, Current(item)
    PROVE  /\ versions[item] \in Seq(VersionRecords) /\ Len(versions[item]) > 0
           /\ Newest(item) = Len(versions[item])
           /\ versions[item][Newest(item)] \in VersionRecords
           /\ InOrder(versions[item], Now(item)) /\ Now(item) \in Nat
<1>1. versions[item] \in Seq(VersionRecords) /\ Len(versions[item]) > 0
  BY DEF MemoryReadsTypeOK, Current, Newest
<1>2. Len(versions[item]) \in DOMAIN versions[item]
  BY <1>1, LenProperties
<1> QED
  BY <1>1, <1>2, NowIsNat DEF Newest, HistoriesInOrder

LEMMA CreateKeepsOrder ==
    ASSUME MemoryReadsTypeOK, HistoriesInOrder, NEW item \in Items, NEW from, CreateItem(item, from)
    PROVE  versions' \in [Items -> Seq(VersionRecords)] /\ HistoriesInOrder'
<1>1. /\ versions' = [versions EXCEPT ![item] = <<Version(item)>>] /\ UNCHANGED clock
  BY DEF CreateItem
<1>2. <<>> \in Seq(VersionRecords) /\ InOrder(<<>>, Now(item)) /\ Len(<<>>) = 0
  BY DEF InOrder
<1>3. Append(<<>>, Version(item)) = <<Version(item)>>
  OBVIOUS
<1>4. <<Version(item)>> \in Seq(VersionRecords) /\ InOrder(<<Version(item)>>, Now(item))
  <2>1. Now(item) \in Nat /\ Version(item) \in VersionRecords /\ Version(item).from = Now(item)
    BY NowIsNat
  <2>2. ~ (Len(<<>>) > 0)
    OBVIOUS
  <2>3. /\ Append(<<>>, Version(item)) \in Seq(VersionRecords)
        /\ InOrder(Append(<<>>, Version(item)), Now(item))
    BY <1>2, <2>1, <2>2, NewestAdded
  <2> QED
    BY <1>3, <2>3
<1> QED
  BY <1>1, <1>4, HistoryWritten

LEMMA SupersedeKeepsOrder ==
    ASSUME MemoryReadsTypeOK, HistoriesInOrder, NEW item \in Items, Supersede(item)
    PROVE  versions' \in [Items -> Seq(VersionRecords)] /\ HistoriesInOrder'
<1> DEFINE history == versions[item]
           n == Len(history)
           mark == Replaced(item)
           marked == [history EXCEPT ![n] = mark]
<1>1. /\ history \in Seq(VersionRecords) /\ n > 0 /\ Newest(item) = n
      /\ history[n] \in VersionRecords /\ InOrder(history, Now(item)) /\ Now(item) \in Nat
  BY NewestIs DEF Supersede
<1>2. mark = [history[n] EXCEPT !.status = "superseded", !.to = Now(item)]
  BY <1>1 DEF Replaced
<1>3. mark \in VersionRecords /\ mark.from = history[n].from /\ mark.to = Now(item)
  BY <1>1, <1>2 DEF VersionRecords
<1>4. versions' = [versions EXCEPT ![item] = Append(marked, Version(item))] /\ UNCHANGED clock
  BY <1>1 DEF Supersede
<1> HIDE DEF mark
<1>5. /\ marked \in Seq(VersionRecords) /\ Len(marked) = n /\ marked[n] = mark
      /\ InOrder(marked, Now(item))
  BY <1>1, <1>3, NewestMarked
<1> HIDE DEF marked
<1>6. /\ Append(marked, Version(item)) \in Seq(VersionRecords)
      /\ InOrder(Append(marked, Version(item)), Now(item))
  BY <1>1, <1>3, <1>5, NowIsNat, NewestAdded
<1> QED
  BY <1>4, <1>6, HistoryWritten

LEMMA DeleteKeepsOrder ==
    ASSUME MemoryReadsTypeOK, HistoriesInOrder, DeleteFact
    PROVE  versions' \in [Items -> Seq(VersionRecords)] /\ HistoriesInOrder'
<1> DEFINE history == versions["fact"]
           n == Len(history)
           once == [history[n] EXCEPT !.status = "deleted"]
           ended == [history EXCEPT ![n] = once]
           mark == [ended[n] EXCEPT !.to = clock]
           marked == [ended EXCEPT ![n] = mark]
<1>1. /\ history \in Seq(VersionRecords) /\ n > 0 /\ Newest("fact") = n
      /\ history[n] \in VersionRecords /\ InOrder(history, Now("fact")) /\ Now("fact") \in Nat
  BY NewestIs DEF DeleteFact, Items
<1>2. once \in VersionRecords /\ once.from = history[n].from
  BY <1>1 DEF VersionRecords
<1>3. versions' = [versions EXCEPT !["fact"] = marked] /\ UNCHANGED clock
  <2>1. /\ versions' = [versions EXCEPT !["fact"][n].status = "deleted", !["fact"][n].to = clock]
        /\ UNCHANGED clock
    BY <1>1 DEF DeleteFact
  <2>2. "fact" \in DOMAIN versions
    BY DEF MemoryReadsTypeOK, Items
  <2> QED
    BY <2>1, <2>2, ZenonT(60)
<1> HIDE DEF once
<1>4. /\ ended \in Seq(VersionRecords) /\ Len(ended) = n /\ ended[n] = once
      /\ InOrder(ended, Now("fact"))
  BY <1>1, <1>2, NewestMarked
<1> HIDE DEF ended
<1>5. mark \in VersionRecords /\ mark.from = ended[n].from
  BY <1>2, <1>4 DEF VersionRecords, MemoryReadsTypeOK
<1> HIDE DEF mark
<1>6. marked \in Seq(VersionRecords) /\ InOrder(marked, Now("fact"))
  BY <1>1, <1>4, <1>5, NewestMarked
<1> QED
  BY <1>3, <1>6, HistoryWritten DEF Items

LEMMA ConflictKeepsOrder ==
    ASSUME MemoryReadsTypeOK, HistoriesInOrder, SetConflict
    PROVE  versions' \in [Items -> Seq(VersionRecords)] /\ HistoriesInOrder'
<1> DEFINE history == versions["fact"]
           n == Len(history)
           mark == [history[n] EXCEPT !.disputed = ~history[n].disputed]
           marked == [history EXCEPT ![n] = mark]
<1>1. /\ history \in Seq(VersionRecords) /\ n > 0 /\ Newest("fact") = n
      /\ history[n] \in VersionRecords /\ InOrder(history, Now("fact")) /\ Now("fact") \in Nat
  BY NewestIs DEF SetConflict, Items
<1>2. mark \in VersionRecords /\ mark.from = history[n].from
  BY <1>1 DEF VersionRecords
<1>3. versions' = [versions EXCEPT !["fact"] = marked] /\ UNCHANGED clock
  BY <1>1 DEF SetConflict
<1> HIDE DEF mark
<1>4. marked \in Seq(VersionRecords) /\ InOrder(marked, Now("fact"))
  BY <1>1, <1>2, NewestMarked
<1> QED
  BY <1>3, <1>4, HistoryWritten DEF Items

\* The other steps leave the histories alone, and time does not go back.
LEMMA StepHistories ==
    ASSUME MemoryReadsTypeOK, HistoriesInOrder, [MemoryReadsNext]_memoryReadsVars
    PROVE  versions' \in [Items -> Seq(VersionRecords)] /\ HistoriesInOrder'
<1>1. CASE UNCHANGED <<versions, clock>>
  BY <1>1 DEF MemoryReadsTypeOK, HistoriesInOrder, Now
<1>2. CASE PassTime
  <2>1. UNCHANGED versions /\ clock' = clock + 1 /\ clock \in Nat
    BY <1>2 DEF PassTime, MemoryReadsTypeOK
  <2>2. \A item : Now(item)' \in Nat /\ Now(item) \in Nat /\ Now(item) <= Now(item)'
    BY <2>1 DEF Now
  <2>3. ASSUME NEW item \in Items PROVE InOrder(versions[item], Now(item)')
    <3>1. versions[item] \in Seq(VersionRecords) /\ InOrder(versions[item], Now(item))
      BY DEF MemoryReadsTypeOK, HistoriesInOrder
    <3>2. \A v \in DOMAIN versions[item] : versions[item][v] \in VersionRecords
      BY <3>1
    <3>3. \A v \in DOMAIN versions[item] : versions[item][v].from \in Nat
      BY <3>2 DEF VersionRecords
    <3> QED
      BY <2>2, <3>1, <3>3 DEF InOrder
  <2> QED
    BY <2>1, <2>3 DEF MemoryReadsTypeOK, HistoriesInOrder
<1>3. ASSUME NEW item \in Items, NEW from, CreateItem(item, from)
      PROVE  versions' \in [Items -> Seq(VersionRecords)] /\ HistoriesInOrder'
  BY <1>3, CreateKeepsOrder
<1>4. CASE UpdateFact \/ UpdateHabit
  BY <1>4, SupersedeKeepsOrder DEF UpdateFact, UpdateHabit, Items
<1>5. CASE SetConflict
  BY <1>5, ConflictKeepsOrder
<1>6. CASE DeleteFact
  BY <1>6, DeleteKeepsOrder
<1>7. CASE DeleteHabit
  <2>1. versions' = [versions EXCEPT !["habit"] = <<>>] /\ UNCHANGED clock
    BY <1>7 DEF DeleteHabit
  <2>2. <<>> \in Seq(VersionRecords) /\ InOrder(<<>>, Now("habit"))
    BY DEF InOrder
  <2> QED
    BY <2>1, <2>2, HistoryWritten DEF Items
<1> QED
  BY <1>1, <1>2, <1>3, <1>4, <1>5, <1>6, <1>7
  DEF MemoryReadsNext, Say, ReadRecent, WriteSummary, SelectForJob, RecordUsage, BeginRead,
      ReadSelection, ReadUsage, ReadRows, ReadTombstones, ReadProjectHidden, ReadUserHidden,
      AnswerRead, memoryReadsVars, memoryTables

\* Deletions stand: what is deleted is marked, for good.
Marking == tombstones \subseteq tombstones' /\ hidden.project \subseteq hidden'.project
           /\ hidden.user \subseteq hidden'.user
LEMMA StepMarks ==
    ASSUME MemoryReadsTypeOK, [MemoryReadsNext]_memoryReadsVars
    PROVE  tombstones' \subseteq {"fact", "habit"} /\ hidden' \in HiddenSources /\ Marking
<1>1. CASE UNCHANGED <<tombstones, hidden>>
  BY <1>1 DEF MemoryReadsTypeOK, Marking
<1>2. CASE DeleteFact
  <2>1. /\ tombstones' = tombstones \cup {"fact"}
        /\ hidden' = [hidden EXCEPT !.project = hidden.project \cup sources["fact"]]
    BY <1>2 DEF DeleteFact
  <2>2. hidden \in HiddenSources /\ sources["fact"] \subseteq Nat
    BY DEF MemoryReadsTypeOK, Items
  <2>3. /\ hidden' \in HiddenSources
        /\ hidden'.project = hidden.project \cup sources["fact"] /\ hidden'.user = hidden.user
    BY <2>1, <2>2 DEF HiddenSources
  <2> QED
    BY <2>1, <2>3 DEF MemoryReadsTypeOK, Marking
<1>3. CASE DeleteHabit
  <2>1. /\ tombstones' = tombstones \cup {"habit"}
        /\ hidden' = [hidden EXCEPT !.user = hidden.user \cup sources["habit"]]
    BY <1>3 DEF DeleteHabit
  <2>2. hidden \in HiddenSources /\ sources["habit"] \subseteq Nat
    BY DEF MemoryReadsTypeOK, Items
  <2>3. /\ hidden' \in HiddenSources
        /\ hidden'.user = hidden.user \cup sources["habit"] /\ hidden'.project = hidden.project
    BY <2>1, <2>2 DEF HiddenSources
  <2> QED
    BY <2>1, <2>3 DEF MemoryReadsTypeOK, Marking
<1> QED
  BY <1>1, <1>2, <1>3
  DEF MemoryReadsNext, Say, PassTime, ReadRecent, WriteSummary, CreateItem, UpdateFact,
      UpdateHabit, Supersede, SetConflict, SelectForJob, RecordUsage, BeginRead, ReadSelection,
      ReadUsage, ReadRows, ReadTombstones, ReadProjectHidden, ReadUserHidden, AnswerRead,
      memoryReadsVars, memoryTables

\* A preference that is deleted stays without rows.
LEMMA StepGone ==
    ASSUME MemoryReadsTypeOK, DeletionsStand, [MemoryReadsNext]_memoryReadsVars
    PROVE  "habit" \in tombstones' => versions'["habit"] = <<>>
<1> SUFFICES ASSUME "habit" \in tombstones' PROVE versions'["habit"] = <<>>
  OBVIOUS
<1>1. "habit" \in DOMAIN versions /\ "fact" # "habit"
  BY DEF MemoryReadsTypeOK, Items
<1>2. CASE UNCHANGED <<tombstones, versions>>
  BY <1>2 DEF DeletionsStand
<1>3. CASE DeleteFact
  <2>1. versions'["habit"] = versions["habit"] /\ "habit" \in tombstones
    BY <1>1, <1>3 DEF DeleteFact
  <2> QED
    BY <2>1 DEF DeletionsStand
<1>4. CASE DeleteHabit
  BY <1>1, <1>4 DEF DeleteHabit
<1>5. ASSUME NEW item \in Items, NEW from, CreateItem(item, from) PROVE versions'["habit"] = <<>>
  <2>1. item # "habit" /\ "habit" \in tombstones
    BY <1>5 DEF CreateItem
  <2> QED
    BY <1>1, <1>5, <2>1 DEF CreateItem, DeletionsStand
<1>6. CASE UpdateFact \/ SetConflict
  <2>1. versions'["habit"] = versions["habit"] /\ "habit" \in tombstones
    BY <1>1, <1>6 DEF UpdateFact, Supersede, SetConflict
  <2> QED
    BY <2>1 DEF DeletionsStand
<1>7. CASE UpdateHabit
  <2>1. "habit" \in tombstones /\ Len(versions["habit"]) > 0
    BY <1>7 DEF UpdateHabit, Supersede, Current, Newest
  <2> QED
    BY <2>1 DEF DeletionsStand
<1> QED
  BY <1>2, <1>3, <1>4, <1>5, <1>6, <1>7
  DEF MemoryReadsNext, Say, PassTime, ReadRecent, WriteSummary, SelectForJob, RecordUsage,
      BeginRead, ReadSelection, ReadUsage, ReadRows, ReadTombstones, ReadProjectHidden,
      ReadUserHidden, AnswerRead, memoryReadsVars, memoryTables

\* What reads are about.
LEMMA ItemsOfReads ==
    ASSUME NEW op \in Reads
    PROVE  /\ ItemsOf(op) \subseteq Items
           /\ op # "candidates" <=> "candidate" \notin ItemsOf(op)
           /\ "habit" \in ItemsOf(op) <=> op \in {"preferences", "selected", "ownUsage"}
  BY DEF Reads, Lists, ForJob, OverTime, Usages, ItemsOf, Items

\* The rest keeps its types.
LEMMA StepOtherTypes ==
    ASSUME MemoryReadsTypeOK, [MemoryReadsNext]_memoryReadsVars
    PROVE  /\ said' \in Nat /\ clock' \in Nat
           /\ turns' \in [1..MaxMessages -> OrUnread(SUBSET Nat)]
           /\ summary' \in Summaries
           /\ sources' \in [Items -> SUBSET Nat]
           /\ selected' \subseteq Items \X Nat /\ used' \subseteq Items \X Nat
<1> DEFINE Goal == /\ said' \in Nat /\ clock' \in Nat
                   /\ turns' \in [1..MaxMessages -> OrUnread(SUBSET Nat)]
                   /\ summary' \in Summaries
                   /\ sources' \in [Items -> SUBSET Nat]
                   /\ selected' \subseteq Items \X Nat /\ used' \subseteq Items \X Nat
<1>0. SUFFICES Goal
  OBVIOUS
<1>1. CASE UNCHANGED <<said, clock, turns, summary, sources, selected, used>>
  BY <1>1 DEF MemoryReadsTypeOK
<1>2. CASE Say \/ PassTime
  BY <1>2 DEF Say, PassTime, MemoryReadsTypeOK
<1>3. ASSUME NEW m \in 1..MaxMessages, ReadRecent(m) PROVE Goal
  <2>1. {n \in 1..said : n + Recent > said} \in OrUnread(SUBSET Nat)
    BY DEF OrUnread
  <2>2. turns' \in [1..MaxMessages -> OrUnread(SUBSET Nat)]
    BY <1>3, <2>1 DEF ReadRecent, MemoryReadsTypeOK
  <2> QED
    BY <1>3, <2>2 DEF ReadRecent, MemoryReadsTypeOK
<1>4. ASSUME NEW m \in 1..MaxMessages, WriteSummary(m) PROVE Goal
  <2>1. turns[m] \in SUBSET Nat /\ m \in Nat
    BY <1>4, MemoryReadsAssumption DEF WriteSummary, MemoryReadsTypeOK, OrUnread
  <2>2. summary' \in Summaries
    BY <1>4, <2>1 DEF WriteSummary, Summaries
  <2>3. turns' \in [1..MaxMessages -> OrUnread(SUBSET Nat)]
    <3>1. {} \in OrUnread(SUBSET Nat)
      BY DEF OrUnread
    <3> QED
      BY <1>4, <3>1 DEF WriteSummary, MemoryReadsTypeOK
  <2> QED
    BY <1>4, <2>2, <2>3 DEF WriteSummary, MemoryReadsTypeOK
<1>5. ASSUME NEW item \in Items, NEW from \in Citable, CreateItem(item, from) PROVE Goal
  <2>1. from \in SUBSET Nat
    BY DEF Citable
  <2>2. sources' \in [Items -> SUBSET Nat]
    BY <1>5, <2>1 DEF CreateItem, MemoryReadsTypeOK
  <2> QED
    BY <1>5, <2>2 DEF CreateItem, MemoryReadsTypeOK
<1>6. CASE DeleteHabit
  <2>1. selected' \subseteq selected /\ used' \subseteq used
    BY <1>6 DEF DeleteHabit, WithoutHabit
  <2> QED
    BY <1>6, <2>1 DEF DeleteHabit, MemoryReadsTypeOK
<1>7. CASE SelectForJob \/ RecordUsage
  <2>1. \A item \in Items : Newest(item) \in Nat
    BY LenProperties DEF MemoryReadsTypeOK, Newest
  <2>2. request.op \in Reads
    BY DEF MemoryReadsTypeOK, ReadRequests
  <2>3. ItemsOf(request.op) \subseteq Items
    BY <2>2, ItemsOfReads
  <2>4. selected' \subseteq Items \X Nat /\ used' \subseteq Items \X Nat
    <3>1. CASE SelectForJob
      BY <2>1, <3>1 DEF SelectForJob, MemoryReadsTypeOK, Items
    <3>2. CASE RecordUsage
      <4>1. PICK item \in ItemsOf(request.op) : used' = {<<item, Newest(item)>>}
        BY <3>2 DEF RecordUsage
      <4>2. item \in Items /\ Newest(item) \in Nat
        BY <2>1, <2>3
      <4> QED
        BY <3>2, <4>1, <4>2 DEF RecordUsage, MemoryReadsTypeOK
    <3> QED
      BY <1>7, <3>1, <3>2
  <2> QED
    BY <1>7, <2>4 DEF SelectForJob, RecordUsage, MemoryReadsTypeOK
<1> HIDE DEF Goal
<1>8. \/ UNCHANGED <<said, clock, turns, summary, sources, selected, used>>
      \/ Say \/ PassTime \/ DeleteHabit \/ SelectForJob \/ RecordUsage
      \/ \E m \in 1..MaxMessages : ReadRecent(m) \/ WriteSummary(m)
      \/ \E item \in Items : \E from \in Citable : CreateItem(item, from)
  <2> HIDE DEF MemoryReadsTypeOK
  <2> QED
    BY DEF MemoryReadsNext, UpdateFact, UpdateHabit, Supersede, SetConflict, DeleteFact,
           BeginRead, ReadSelection, ReadUsage, ReadRows, ReadTombstones, ReadProjectHidden,
           ReadUserHidden, AnswerRead, memoryReadsVars, memoryTables
<1> QED
  BY <1>1, <1>2, <1>3, <1>4, <1>5, <1>6, <1>7, <1>8

\* The request is changed by its own statements only.
LEMMA StepReads ==
    ASSUME [MemoryReadsNext]_memoryReadsVars
    PROVE  \/ UNCHANGED request
           \/ BeginRead \/ ReadSelection \/ ReadUsage \/ ReadRows \/ ReadTombstones
           \/ ReadProjectHidden \/ ReadUserHidden
  BY DEF MemoryReadsNext, Say, PassTime, ReadRecent, WriteSummary, CreateItem, UpdateFact,
         UpdateHabit, Supersede, SetConflict, DeleteFact, DeleteHabit, SelectForJob,
         RecordUsage, AnswerRead, ReadsStay, memoryReadsVars

\* A read sees no rows of a deleted preference.
LEMMA RowsSeen ==
    ASSUME MemoryReadsTypeOK, DeletionsStand, ReadRows
    PROVE  /\ request.begun
           /\ request' = [request EXCEPT !.rows = request'.rows, !.disputed = request'.disputed,
                                         !.summary = request'.summary]
           /\ request'.rows \subseteq Items \X Nat
           /\ request'.disputed \subseteq Items
           /\ request'.summary \in Summaries
           /\ \A row \in request'.rows :
                 row[1] \in ItemsOf(request.op) /\ (row[1] = "habit" => "habit" \notin request.gone)
<1>1. PICK rows \in [ItemsOf(request.op) -> SUBSET (1..MaxHistory)] :
         /\ \A i \in DOMAIN rows : rows[i] \in VersionsRead(i)
         /\ request' = [request EXCEPT !.rows = UNION {{i} \X rows[i] : i \in DOMAIN rows},
                                       !.disputed = {i \in DOMAIN rows : InDispute(i)},
                                       !.summary = IF Summarises(request.op)
                                                   THEN summary ELSE NoSummary]
  BY DEF ReadRows
<1>2. request \in ReadRequests /\ request.op \in Reads /\ summary \in Summaries
      /\ NoSummary \in Summaries
  BY DEF MemoryReadsTypeOK, ReadRequests, NoSummary, Summaries
<1>3. ItemsOf(request.op) \subseteq Items /\ DOMAIN rows = ItemsOf(request.op)
  BY <1>1, <1>2, ItemsOfReads
<1> DEFINE all == UNION {{i} \X rows[i] : i \in DOMAIN rows}
           disputes == {i \in DOMAIN rows : InDispute(i)}
           shown == IF Summarises(request.op) THEN summary ELSE NoSummary
<1>4. /\ all \subseteq Items \X Nat
      /\ \A row \in all : row[1] \in ItemsOf(request.op) /\ row[2] \in rows[row[1]]
  BY <1>1, <1>3
<1>5. disputes \subseteq Items /\ shown \in Summaries
  BY <1>2, <1>3
<1>6. "habit" \in request.gone /\ "habit" \in ItemsOf(request.op) => rows["habit"] = {}
  <2> SUFFICES ASSUME "habit" \in request.gone, "habit" \in ItemsOf(request.op)
               PROVE  rows["habit"] = {}
    OBVIOUS
  <2>1. versions["habit"] = <<>>
    BY DEF DeletionsStand
  <2>2. request.op \in {"preferences", "selected", "ownUsage"}
    BY <1>2, ItemsOfReads
  <2>3. VersionsRead("habit") = {{}}
    <3>1. DOMAIN versions["habit"] = {} /\ Len(versions["habit"]) = 0
      BY <2>1
    <3>2. CASE ById(request.op)
      <4>1. {v \in DOMAIN versions["habit"] : <<"habit", v>> \in request.ids} = {}
        BY <3>1
      <4>2. VersionsRead("habit")
               = {{v \in DOMAIN versions["habit"] : <<"habit", v>> \in request.ids}}
        BY <3>2 DEF VersionsRead, ById, Usages
      <4> QED
        BY <4>1, <4>2
    <3>3. CASE request.op = "preferences"
      <4>1. ~ById(request.op) /\ ~Current("habit")
        BY <3>1, <3>3 DEF ById, Usages, Current, Newest
      <4> QED
        BY <3>3, <4>1 DEF VersionsRead
    <3> QED
      BY <2>2, <3>2, <3>3 DEF ById, Usages
  <2> QED
    BY <1>1, <1>3, <2>3
<1>7. request' = [request EXCEPT !.rows = all, !.disputed = disputes, !.summary = shown]
  BY <1>1
<1> HIDE DEF all, disputes, shown
<1>8. request'.rows = all /\ request'.disputed = disputes /\ request'.summary = shown
  BY <1>2, <1>7 DEF ReadRequests
<1>9. \A row \in all : row[1] = "habit" => "habit" \notin request.gone
  BY <1>4, <1>6
<1> QED
  BY <1>4, <1>5, <1>7, <1>8, <1>9 DEF ReadRows

LEMMA StepRequest ==
    ASSUME MemoryReadsTypeOK, DeletionsStand, SeesDeletions(request),
           [MemoryReadsNext]_memoryReadsVars
    PROVE  /\ request' \in ReadRequests /\ SeesDeletions(request)'
           /\ request'.gone \subseteq tombstones'
           /\ request'.forgotten.project \subseteq hidden'.project
           /\ request'.forgotten.user \subseteq hidden'.user
<1> DEFINE Follows == /\ request'.gone \subseteq tombstones
                      /\ request'.forgotten.project \subseteq hidden.project
                      /\ request'.forgotten.user \subseteq hidden.user
           Goal == request' \in ReadRequests /\ SeesDeletions(request)' /\ Follows
<1>1. /\ request \in ReadRequests /\ tombstones \subseteq Items /\ hidden \in HiddenSources
      /\ selected \subseteq Items \X Nat /\ used \subseteq Items \X Nat
      /\ hidden.project \subseteq Nat /\ hidden.user \subseteq Nat
  BY DEF MemoryReadsTypeOK, Items, HiddenSources
<1>2. ASSUME UNCHANGED request PROVE Goal
  <2>1. SeesDeletions(request)'
    BY <1>2 DEF SeesDeletions, Unseen
  <2>2. Follows
    BY <1>2 DEF DeletionsStand
  <2> QED
    BY <1>1, <1>2, <2>1, <2>2
<1>3. ASSUME BeginRead PROVE Goal
  <2>1. /\ ~request.begun
        /\ request' = [request EXCEPT !.begun = TRUE, !.forgotten = hidden, !.gone = tombstones]
    BY <1>3 DEF BeginRead
  <2>2. request' \in ReadRequests
    BY <1>1, <2>1 DEF ReadRequests
  <2>3. /\ request'.begun /\ request'.forgotten = hidden /\ request'.gone = tombstones
        /\ request'.rows = request.rows /\ request'.revoked = request.revoked
        /\ request'.project = request.project /\ request'.user = request.user
    BY <1>1, <2>1 DEF ReadRequests
  <2> QED
    <3>1. SeesDeletions(request)'
      BY <2>1, <2>3 DEF SeesDeletions, Unseen
    <3> QED
      BY <2>2, <2>3, <3>1
<1>4. ASSUME ReadSelection \/ ReadUsage PROVE Goal
  <2>1. PICK ids \in SUBSET (Items \X Nat) : request' = [request EXCEPT !.ids = ids]
    BY <1>1, <1>4 DEF ReadSelection, ReadUsage
  <2>2. request' \in ReadRequests
    BY <1>1, <2>1 DEF ReadRequests, OrUnread
  <2>3. /\ request'.op = request.op /\ request'.begun = request.begun
        /\ request'.forgotten = request.forgotten /\ request'.gone = request.gone
        /\ request'.rows = request.rows /\ request'.revoked = request.revoked
        /\ request'.project = request.project /\ request'.user = request.user
    BY <1>1, <2>1 DEF ReadRequests
  <2> QED
    <3>1. SeesDeletions(request)'
      BY <2>3 DEF SeesDeletions, Unseen
    <3>2. Follows
      BY <2>3 DEF DeletionsStand
    <3> QED
      BY <2>2, <3>1, <3>2
<1>5. ASSUME ReadRows PROVE Goal
  <2>1. /\ request.begun
        /\ request' = [request EXCEPT !.rows = request'.rows, !.disputed = request'.disputed,
                                      !.summary = request'.summary]
        /\ request'.rows \subseteq Items \X Nat
        /\ request'.disputed \subseteq Items
        /\ request'.summary \in Summaries
        /\ \A row \in request'.rows :
              row[1] \in ItemsOf(request.op) /\ (row[1] = "habit" => "habit" \notin request.gone)
    BY <1>5, RowsSeen
  <2> DEFINE rows == request'.rows
             disputes == request'.disputed
             sight == request'.summary
  <2>2. request' = [request EXCEPT !.rows = rows, !.disputed = disputes, !.summary = sight]
        /\ rows \in OrUnread(SUBSET (Items \X Nat)) /\ disputes \in SUBSET Items
        /\ sight \in Summaries
    BY <2>1 DEF OrUnread
  <2>3. request' \in ReadRequests
    <3> HIDE DEF rows, disputes, sight
    <3> QED
      BY <1>1, <2>2 DEF ReadRequests
  <2>4. /\ request'.op = request.op /\ request'.begun = request.begun
        /\ request'.forgotten = request.forgotten /\ request'.gone = request.gone
        /\ request'.revoked = request.revoked
        /\ request'.project = request.project /\ request'.user = request.user
    <3> HIDE DEF rows, disputes, sight
    <3> QED
      BY <1>1, <2>2 DEF ReadRequests
  <2> QED
    <3>1. SeesDeletions(request)'
      BY <2>1, <2>4 DEF SeesDeletions
    <3>2. Follows
      BY <2>4 DEF DeletionsStand
    <3> QED
      BY <2>3, <3>1, <3>2
<1>6. ASSUME ReadTombstones PROVE Goal
  <2> DEFINE marked == IF request.op = "candidates" \/ Unfiltered(request.op) THEN {} ELSE tombstones
  <2>1. /\ request.begun /\ request' = [request EXCEPT !.revoked = marked] /\ marked \in SUBSET Items
        /\ request.op # "candidates" /\ ~Unfiltered(request.op) => marked = tombstones
    BY <1>1, <1>6 DEF ReadTombstones
  <2> HIDE DEF marked
  <2>2. request' \in ReadRequests
    BY <1>1, <2>1 DEF ReadRequests, OrUnread
  <2>3. /\ request'.op = request.op /\ request'.begun = request.begun
        /\ request'.forgotten = request.forgotten /\ request'.gone = request.gone
        /\ request'.rows = request.rows /\ request'.revoked = marked
        /\ request'.project = request.project /\ request'.user = request.user
    BY <1>1, <2>1 DEF ReadRequests
  <2> QED
    <3>1. SeesDeletions(request)'
      BY <2>1, <2>3 DEF SeesDeletions, DeletionsStand
    <3>2. Follows
      BY <2>3 DEF DeletionsStand
    <3> QED
      BY <2>2, <3>1, <3>2
<1>7. ASSUME ReadProjectHidden PROVE Goal
  <2> DEFINE project == IF OfUser \/ Unfiltered(request.op) THEN {} ELSE hidden.project
  <2>1. /\ request.begun /\ request' = [request EXCEPT !.project = project] /\ project \in SUBSET Nat
        /\ request.op \notin {"preferences", "selected"} /\ ~Unfiltered(request.op) =>
                 project = hidden.project
    BY <1>1, <1>7 DEF ReadProjectHidden, OfUser
  <2> HIDE DEF project
  <2>2. request' \in ReadRequests
    BY <1>1, <2>1 DEF ReadRequests, OrUnread
  <2>3. /\ request'.op = request.op /\ request'.begun = request.begun
        /\ request'.forgotten = request.forgotten /\ request'.gone = request.gone
        /\ request'.rows = request.rows /\ request'.revoked = request.revoked
        /\ request'.project = project /\ request'.user = request.user
    BY <1>1, <2>1 DEF ReadRequests
  <2> QED
    <3>1. SeesDeletions(request)'
      BY <2>1, <2>3 DEF SeesDeletions, DeletionsStand
    <3>2. Follows
      BY <2>3 DEF DeletionsStand
    <3> QED
      BY <2>2, <3>1, <3>2
<1>8. ASSUME ReadUserHidden PROVE Goal
  <2> DEFINE user == IF Unfiltered(request.op) THEN {} ELSE hidden.user
  <2>1. /\ request.begun /\ request' = [request EXCEPT !.user = user] /\ user \in SUBSET Nat
        /\ ~Unfiltered(request.op) => user = hidden.user
    BY <1>1, <1>8 DEF ReadUserHidden
  <2> HIDE DEF user
  <2>2. request' \in ReadRequests
    BY <1>1, <2>1 DEF ReadRequests, OrUnread
  <2>3. /\ request'.op = request.op /\ request'.begun = request.begun
        /\ request'.forgotten = request.forgotten /\ request'.gone = request.gone
        /\ request'.rows = request.rows /\ request'.revoked = request.revoked
        /\ request'.project = request.project /\ request'.user = user
    BY <1>1, <2>1 DEF ReadRequests
  <2> QED
    <3>1. SeesDeletions(request)'
      BY <2>1, <2>3 DEF SeesDeletions, DeletionsStand
    <3>2. Follows
      BY <2>3 DEF DeletionsStand
    <3> QED
      BY <2>2, <3>1, <3>2
<1>9. Goal
  <2> HIDE DEF Goal
  <2> QED
    BY <1>2, <1>3, <1>4, <1>5, <1>6, <1>7, <1>8, StepReads
<1>10. Marking
  BY StepMarks
<1> QED
  BY <1>9, <1>10 DEF Goal, Marking

\* What an answer shows has passed every filter that it had to pass.
LEMMA StepAnswer ==
    ASSUME MemoryReadsTypeOK, DeletionsStand, SeesDeletions(request), AnswerForgets,
           [MemoryReadsNext]_memoryReadsVars
    PROVE  AnswerForgets'
<1>1. CASE UNCHANGED <<display, request, sources>>
  BY <1>1 DEF AnswerForgets
<1>2. CASE UNCHANGED display /\ display = NoDisplay
  BY <1>2 DEF AnswerForgets, NoDisplay
<1>3. CASE AnswerRead
  <2>1. /\ request.begun /\ Unread \notin {request.rows, request.revoked, request.project, request.user}
        /\ UNCHANGED <<request, sources>>
    BY <1>3 DEF AnswerRead, memoryTables
  <2>2. PICK rows \in Relevant({row \in request.rows : Shown(row)}) :
           display' = [rows |-> rows, disputed |-> Conflicts(rows),
                       covers |-> IF SummaryUsable THEN request.summary.covers ELSE {},
                       through |-> request.summary.through,
                       forgotten |-> request.forgotten, gone |-> request.gone]
    BY <1>3 DEF AnswerRead
  <2>3. /\ display'.rows = rows /\ display'.gone = request.gone
        /\ display'.forgotten = request.forgotten /\ display'.through = request.summary.through
        /\ display'.covers = IF SummaryUsable THEN request.summary.covers ELSE {}
    BY <2>2
  <2>4. \A row \in rows : row \in request.rows /\ Shown(row)
    BY DEF Relevant
  <2>5. request.op \in Reads /\ request.rows \subseteq Items \X Nat
    BY <2>1 DEF MemoryReadsTypeOK, ReadRequests, OrUnread
  <2>6. ASSUME NEW row \in rows
        PROVE  /\ Private(row[1]) \/ ~Unfiltered(request.op) => row[1] \notin request.gone
               /\ ~Unfiltered(request.op) =>
                   /\ sources[row[1]] \cap request.forgotten.user = {}
                   /\ ~Private(row[1]) => sources[row[1]] \cap request.forgotten.project = {}
    <3>1. /\ row \in request.rows /\ row[1] \notin request.revoked
          /\ sources[row[1]] \cap (request.project \cup request.user) = {}
      BY <2>4, <2>6 DEF Shown
    <3>2. row[1] \in ItemsOf(request.op) /\ (row[1] = "habit" => "habit" \notin request.gone)
      BY <2>1, <3>1 DEF SeesDeletions
    <3>3. ASSUME ~Unfiltered(request.op) PROVE row[1] \notin request.gone
      <4>1. CASE request.op = "candidates"
        BY <3>2, <4>1 DEF ItemsOf, DeletionsStand, MemoryReadsTypeOK
      <4>2. CASE request.op # "candidates"
        BY <2>1, <3>1, <3>3, <4>2 DEF SeesDeletions
      <4> QED
        BY <4>1, <4>2
    <3>4. ASSUME ~Unfiltered(request.op) PROVE sources[row[1]] \cap request.forgotten.user = {}
      BY <2>1, <3>1, <3>4 DEF SeesDeletions
    <3>5. ASSUME ~Unfiltered(request.op), ~Private(row[1])
          PROVE  sources[row[1]] \cap request.forgotten.project = {}
      <4>1. request.op \notin {"preferences", "selected"}
        BY <2>5, <3>2, <3>5 DEF Private, ItemsOf
      <4> QED
        BY <2>1, <3>1, <3>5, <4>1 DEF SeesDeletions
    <3> QED
      BY <3>2, <3>3, <3>4, <3>5 DEF Private
  <2>7. ASSUME NEW m \in display'.covers, m <= request.summary.through
        PROVE  m \notin request.forgotten.user \cup request.forgotten.project
    <3>1. SummaryUsable /\ m \in request.summary.covers
      BY <2>3, <2>7
    <3>2. m \in Nat /\ request.summary.through \in Nat
      BY <3>1 DEF MemoryReadsTypeOK, ReadRequests, Summaries
    <3>3. m \notin hidden.project \cup hidden.user
      BY <2>7, <3>1, <3>2 DEF SummaryUsable
    <3> QED
      BY <3>3 DEF DeletionsStand
  <2> QED
    BY <2>1, <2>3, <2>6, <2>7 DEF AnswerForgets
<1> QED
  BY <1>1, <1>2, <1>3
  DEF MemoryReadsNext, Say, PassTime, ReadRecent, WriteSummary, CreateItem, UpdateFact,
      UpdateHabit, Supersede, SetConflict, DeleteFact, DeleteHabit, SelectForJob, RecordUsage,
      BeginRead, ReadSelection, ReadUsage, ReadRows, ReadTombstones, ReadProjectHidden,
      ReadUserHidden, ReadsStay, memoryReadsVars

\* The invariant is inductive.
LEMMA MemoryReadsStep ==
    ASSUME MemoryReadsInv, [MemoryReadsNext]_memoryReadsVars
    PROVE  MemoryReadsInv'
<1>1. /\ MemoryReadsTypeOK /\ HistoriesInOrder /\ DeletionsStand /\ SeesDeletions(request)
      /\ AnswerForgets
  BY DEF MemoryReadsInv
<1>2. MemoryReadsTypeOK'
  BY <1>1, StepOtherTypes, StepHistories, StepMarks, StepRequest DEF MemoryReadsTypeOK
<1>3. HistoriesInOrder' /\ SeesDeletions(request)' /\ AnswerForgets'
  BY <1>1, StepHistories, StepRequest, StepAnswer
<1>4. DeletionsStand'
  BY <1>1, StepRequest, StepGone DEF DeletionsStand
<1> QED
  BY <1>2, <1>3, <1>4 DEF MemoryReadsInv

\* The invariant holds in every state of the specification.
THEOREM MemoryReadsInvariance == MemoryReadsSpec => []MemoryReadsInv
<1>1. MemoryReadsInit => MemoryReadsInv
  BY MemoryReadsStart
<1>2. MemoryReadsInv /\ [MemoryReadsNext]_memoryReadsVars => MemoryReadsInv'
  BY MemoryReadsStep
<1> QED
  BY <1>1, <1>2, PTL DEF MemoryReadsSpec

\* Whatever is deleted while its statements run, in whichever order they do, a read answers
\* with nothing that was deleted before it began, and at no moment are two versions of a memory
\* in force.
THEOREM DeletedStaysUnread == MemoryReadsSpec => []ReadsForgetDeleted
<1>1. MemoryReadsInv => ReadsForgetDeleted
  <2> SUFFICES ASSUME MemoryReadsInv PROVE ReadsForgetDeleted
    OBVIOUS
  <2>1. AnswerForgets /\ MemoryReadsTypeOK /\ HistoriesInOrder
    BY DEF MemoryReadsInv
  <2>2. \A item \in Items, t \in 0..MaxTime : \A v, w \in EffectiveAt(item, t) : v = w
    BY <2>1, OneInForce
  <2> QED
    BY <2>1, <2>2 DEF AnswerForgets, ReadsForgetDeleted
<1> QED
  BY <1>1, MemoryReadsInvariance, PTL
=============================================================================
