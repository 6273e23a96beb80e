--------------------------- MODULE MemoryRevocation ---------------------------
(***************************************************************************)
(* Deleted memories and the ledger that outlives the database.             *)
(*                                                                         *)
(* A deletion is logged in files (one per event, and HEAD) before it is    *)
(* written to the database.  A checkpoint row says how far the database    *)
(* follows the ledger.  The database may be restored from a backup; the    *)
(* ledger may not.  Every request and every model call first passes a gate *)
(* that compares the checkpoint with the ledger and replays the rest.      *)
(***************************************************************************)
EXTENDS Integers, Sequences

CONSTANTS
    Memories,        \* logical memory ids, drawn at random when a memory is created
    Messages,        \* conversation messages memories are made of
    SourceOf,        \* the source messages of each memory
    Apis,            \* API requests and operator commands: they mount the ledger read-write
    ReadOnlyWorkers, \* workers: they mount the ledger read-only
    Nobody,          \* no process, no memory
    MaxRestores      \* bound: restores from a backup

ASSUME RevocationAssumption ==
    /\ SourceOf \in [Memories -> SUBSET Messages]
    /\ Apis \cap ReadOnlyWorkers = {}
    /\ Nobody \notin Apis \cup ReadOnlyWorkers \cup Memories
    /\ MaxRestores \in Nat

Processes == Apis \cup ReadOnlyWorkers

NoCheckpoint == -1

VARIABLES
    scope,         \* of each memory: not created yet, of the project or a private preference
    ledgerState,   \* HEAD.json: absent, uninitialized or initialized
    ledgerHead,    \* HEAD.sequence
    events,        \* the event files, each the logical memory it revokes
    memoryDb,      \* the database
    backup,        \* an earlier state of the database
    ledgerLock,    \* holder of the advisory lock
    stage,         \* where each process is
    target,        \* the memory it deletes or sends
    seen,          \* records it found when it read the ledger
    seenHead,      \* HEAD.sequence it found
    acknowledged,  \* memories whose deletion was reported as done
    restores

revocationVars == <<scope, ledgerState, ledgerHead, events, memoryDb, backup, ledgerLock, stage,
                    target, seen, seenHead, acknowledged, restores>>

ledgerVars == <<scope, ledgerState, ledgerHead, events>>
gateVars == <<seen, seenHead>>
faultVars == <<backup, restores>>

\* Rows with an active version, tombstones and suppressed messages of the two scopes,
\* and memory_revocation_replay_state.
Databases == [live : SUBSET Memories, tombstones : SUBSET Memories,
              projectSuppressed : SUBSET Messages, privateSuppressed : SUBSET Messages,
              checkpoint : Nat \cup {NoCheckpoint}]

\* A record is valid at its place in the ledger, and says which memory it revokes.
Journals == Seq(Memories)

ReplayStages == {"gateReplay", "deleteReplay", "recoverReplay", "importReplay"}
TransactionStages == {"deleting", "logged", "headed"}
LockStages == ReplayStages \cup TransactionStages \cup {"judging", "importing", "settled"}
Stages == LockStages \cup {"idle", "journal", "gateWait", "ready", "deleteWait", "sending"}

RevocationTypeOK ==
    /\ scope \in [Memories -> {"unborn", "project", "private"}]
    /\ ledgerState \in {"absent", "uninitialized", "initialized"}
    /\ ledgerHead \in Nat
    /\ events \in Journals
    /\ memoryDb \in Databases
    /\ backup \in Databases
    /\ ledgerLock \in Processes \cup {Nobody}
    /\ stage \in [Processes -> Stages]
    /\ target \in [Processes -> Memories \cup {Nobody}]
    /\ seen \in [Processes -> Nat]
    /\ seenHead \in [Processes -> Nat]
    /\ acknowledged \subseteq Memories
    /\ restores \in 0..MaxRestores

Logged == {events[i] : i \in 1..Len(events)}

\* The messages whose suppression counts for a memory of the given scope.
SuppressedFor(d, m) == IF scope[m] = "private" THEN d.privateSuppressed ELSE d.projectSuppressed

\* Sources shared by every memory of a set.
MessagesBehind(ms) == UNION {SourceOf[m] : m \in ms}

\* Mutant: a replay forgets the source suppressions of a record.
RevokeWithoutSources(d, m) ==
    [d EXCEPT !.live = @ \ {m}, !.tombstones = @ \cup {m}]

\* One record applied to the database: tombstone, source suppressions, no active row.
Revoke(d, m) ==
    [d EXCEPT !.live = @ \ {m},
              !.tombstones = @ \cup {m},
              !.projectSuppressed = IF scope[m] = "private" THEN @ ELSE @ \cup SourceOf[m],
              !.privateSuppressed = IF scope[m] = "private" THEN @ \cup SourceOf[m] ELSE @]

Applied == IF memoryDb.checkpoint = NoCheckpoint THEN 0 ELSE memoryDb.checkpoint

\* Project memories may have been deleted before the ledger was introduced.
RevocationInit ==
    /\ scope \in [Memories -> {"unborn", "project"}]
    /\ ledgerState = "absent"
    /\ ledgerHead = 0
    /\ events = <<>>
    /\ LET deleted == {m \in Memories : scope[m] = "project"}
       IN  memoryDb = [live |-> {}, tombstones |-> deleted,
                       projectSuppressed |-> MessagesBehind(deleted), privateSuppressed |-> {},
                       checkpoint |-> NoCheckpoint]
    /\ backup = memoryDb
    /\ ledgerLock = Nobody
    /\ stage = [p \in Processes |-> "idle"]
    /\ target = [p \in Processes |-> Nobody]
    /\ seen = [p \in Processes |-> 0]
    /\ seenHead = [p \in Processes |-> 0]
    /\ acknowledged = {}
    /\ restores = 0

Become(p, s) == stage' = [stage EXCEPT ![p] = s]
ForgetJournal(p) == seen' = [seen EXCEPT ![p] = 0] /\ seenHead' = [seenHead EXCEPT ![p] = 0]

-----------------------------------------------------------------------------
(* The gate every request and every model call passes. *)

\* assertMemoryRevocationReady reads the ledger; an unfinished one is an error.
ReadJournal(p) ==
    /\ stage[p] = "idle"
    /\ ledgerState = "initialized"
    /\ seen' = [seen EXCEPT ![p] = Len(events)]
    /\ seenHead' = [seenHead EXCEPT ![p] = ledgerHead]
    /\ Become(p, "journal")
    /\ UNCHANGED <<ledgerVars, memoryDb, faultVars, ledgerLock, target, acknowledged>>

CheckpointMatches(p) ==
    /\ memoryDb.checkpoint = seenHead[p]
    /\ seen[p] = seenHead[p]

\* Then it reads the checkpoint.
CompareCheckpoint(p) ==
    /\ stage[p] = "journal"
    /\ Become(p, IF CheckpointMatches(p) THEN "ready" ELSE "gateWait")
    /\ ForgetJournal(p)
    /\ UNCHANGED <<ledgerVars, memoryDb, faultVars, ledgerLock, target, acknowledged>>

\* withMemoryRevocationLock.
AfterLock == [gateWait |-> "gateReplay", deleteWait |-> "deleteReplay"]

TakeLock(p) ==
    /\ stage[p] \in DOMAIN AfterLock
    /\ ledgerLock = Nobody
    /\ ledgerLock' = p
    /\ Become(p, AfterLock[stage[p]])
    /\ UNCHANGED <<ledgerVars, memoryDb, faultVars, gateVars, target, acknowledged>>

-----------------------------------------------------------------------------
(* replayMemoryRevocationsLocked; every error in it ends the request (Abort). *)

\* A record that is not in HEAD yet: finish the append. Needs write access.
ReplayHead(p) ==
    /\ stage[p] \in ReplayStages
    /\ p \in Apis
    /\ ledgerState = "initialized"
    /\ ledgerHead < Len(events)
    /\ ledgerHead' = Len(events)
    /\ UNCHANGED <<scope, ledgerState, events, memoryDb, faultVars, gateVars, ledgerLock, stage,
                   target, acknowledged>>

\* One transaction per record: apply it, move the checkpoint.
ReplayRecord(p) ==
    /\ stage[p] \in ReplayStages
    /\ ledgerState = "initialized"
    /\ ledgerHead = Len(events)
    /\ Applied < Len(events)
    /\ memoryDb' = [Revoke(memoryDb, events[Applied + 1]) EXCEPT !.checkpoint = Applied + 1]
    /\ UNCHANGED <<ledgerVars, faultVars, gateVars, ledgerLock, stage, target, acknowledged>>

AfterReplay == [gateReplay |-> "ready", deleteReplay |-> "judging",
                recoverReplay |-> "settled", importReplay |-> "idle"]

\* The checkpoint has reached HEAD; a gate or an import returns the lock.
ReplayDone(p) ==
    /\ stage[p] \in ReplayStages
    /\ ledgerState = "initialized"
    /\ ledgerHead = Len(events)
    /\ memoryDb.checkpoint = ledgerHead
    /\ ledgerLock' = IF stage[p] \in {"gateReplay", "importReplay"} THEN Nobody ELSE p
    /\ Become(p, AfterReplay[stage[p]])
    /\ UNCHANGED <<ledgerVars, memoryDb, faultVars, gateVars, target, acknowledged>>

-----------------------------------------------------------------------------
(* initializeMemoryRevocationLedger, an operator's command. *)

StartImport(p) ==
    /\ stage[p] = "idle"
    /\ p \in Apis
    /\ ledgerLock = Nobody
    /\ ledgerLock' = p
    /\ Become(p, IF memoryDb.checkpoint = NoCheckpoint THEN "importing" ELSE "importReplay")
    /\ UNCHANGED <<ledgerVars, memoryDb, faultVars, gateVars, target, acknowledged>>

\* collectExistingRevocations: what the database has deleted and the ledger lacks, once each.
Drafts == memoryDb.tombstones \ Logged

ImportCreateHead(p) ==
    /\ stage[p] = "importing"
    /\ ledgerState = "absent"
    /\ ledgerState' = "uninitialized"
    /\ UNCHANGED <<scope, ledgerHead, events, memoryDb, faultVars, gateVars, ledgerLock, stage, target,
                   acknowledged>>

\* The head follows each appended record, also one a crashed import has left.
ImportAdvanceHead(p) ==
    /\ stage[p] = "importing"
    /\ ledgerState # "absent"
    /\ ledgerHead < Len(events)
    /\ ledgerHead' = Len(events)
    /\ UNCHANGED <<scope, ledgerState, events, memoryDb, faultVars, gateVars, ledgerLock, stage,
                   target, acknowledged>>

ImportAppend(p) ==
    /\ stage[p] = "importing"
    /\ ledgerState # "absent"
    /\ ledgerHead = Len(events)
    /\ \E m \in Drafts : events' = Append(events, m)
    /\ UNCHANGED <<scope, ledgerState, ledgerHead, memoryDb, faultVars, gateVars, ledgerLock, stage,
                   target, acknowledged>>

ImportMarkInitialized(p) ==
    /\ stage[p] = "importing"
    /\ ledgerState = "uninitialized"
    /\ ledgerHead = Len(events)
    /\ Drafts = {}
    /\ ledgerState' = "initialized"
    /\ UNCHANGED <<scope, ledgerHead, events, memoryDb, faultVars, gateVars, ledgerLock, stage, target,
                   acknowledged>>

\* An empty ledger gets its checkpoint here, another one through a replay.
ImportFinish(p) ==
    /\ stage[p] = "importing"
    /\ ledgerState = "initialized"
    /\ ledgerHead = Len(events)
    /\ Drafts = {}
    /\ IF events = <<>>
       THEN /\ memoryDb' = [memoryDb EXCEPT !.checkpoint = 0]
            /\ ledgerLock' = Nobody
            /\ Become(p, "idle")
       ELSE /\ Become(p, "importReplay")
            /\ UNCHANGED <<memoryDb, ledgerLock>>
    /\ UNCHANGED <<ledgerVars, faultVars, gateVars, target, acknowledged>>

-----------------------------------------------------------------------------
(* Behind the gate. *)

\* Memories and messages whose rows an open deletion has locked.
LockedMemories == {target[q] : q \in {r \in Processes : stage[r] \in TransactionStages}} \cap Memories
LockedMessages == MessagesBehind(LockedMemories)

\* createProjectMemory, createUserPreferenceMemory: a fresh logical id, its sources locked
\* and not suppressed. A project memory minds the suppressions of both scopes.
CreateMemory(p) ==
    /\ stage[p] = "ready"
    /\ p \in Apis
    /\ \E m \in Memories, s \in {"project", "private"} :
          /\ scope[m] = "unborn"
          /\ scope' = [scope EXCEPT ![m] = s]
          /\ SourceOf[m] \cap LockedMessages = {}
          /\ SourceOf[m] \cap memoryDb.privateSuppressed = {}
          /\ s = "private" \/ SourceOf[m] \cap memoryDb.projectSuppressed = {}
          /\ memoryDb' = [memoryDb EXCEPT !.live = @ \cup {m}]
    /\ Become(p, "idle")
    /\ UNCHANGED <<ledgerState, ledgerHead, events, faultVars, gateVars, ledgerLock, target,
                   acknowledged>>

\* What admitMemoryInvocation lets into a model request.
Admissible(m) ==
    /\ m \in memoryDb.live
    /\ m \notin memoryDb.tombstones
    /\ SourceOf[m] \cap SuppressedFor(memoryDb, m) = {}

\* The admission shares row locks with nobody who deletes; then the request is sent.
Send(p) ==
    /\ stage[p] = "ready"
    /\ p \in ReadOnlyWorkers
    /\ \E m \in Memories \ LockedMemories :
          /\ Admissible(m)
          /\ target' = [target EXCEPT ![p] = m]
    /\ Become(p, "sending")
    /\ UNCHANGED <<ledgerVars, memoryDb, faultVars, gateVars, ledgerLock, acknowledged>>

\* deleteProjectMemory, deleteUserPreferenceMemory: wait for the lock, then replay.
RequestDeletion(p) ==
    /\ stage[p] = "ready"
    /\ p \in Apis
    /\ \E m \in Memories : scope[m] # "unborn" /\ target' = [target EXCEPT ![p] = m]
    /\ Become(p, "deleteWait")
    /\ UNCHANGED <<ledgerVars, memoryDb, faultVars, gateVars, ledgerLock, acknowledged>>

\* The head of the memory, its versions and its sources are locked.
BeginDeletion(p) ==
    /\ stage[p] = "judging"
    /\ target[p] \in memoryDb.live \ memoryDb.tombstones
    /\ Become(p, "deleting")
    /\ UNCHANGED <<ledgerVars, memoryDb, faultVars, gateVars, ledgerLock, target,
                   acknowledged>>

\* Already deleted: a tombstone beside the row of a project memory, a ledger record for a
\* preference whose rows are gone.
FindDeleted(p) ==
    /\ stage[p] = "judging"
    /\ IF scope[target[p]] = "private"
       THEN target[p] \in Logged \ memoryDb.live
       ELSE target[p] \in memoryDb.tombstones
    /\ Become(p, "settled")
    /\ UNCHANGED <<ledgerVars, memoryDb, faultVars, gateVars, ledgerLock, target,
                   acknowledged>>

\* persistMemoryRevocationIntent: the event file, then HEAD.
PersistEvent(p) ==
    /\ stage[p] = "deleting"
    /\ ledgerHead = Len(events)
    /\ target[p] \notin Logged
    /\ events' = Append(events, target[p])
    /\ Become(p, "logged")
    /\ UNCHANGED <<scope, ledgerState, ledgerHead, memoryDb, faultVars, gateVars, ledgerLock, target,
                   acknowledged>>

AdvanceHead(p) ==
    /\ stage[p] = "logged"
    /\ ledgerHead' = Len(events)
    /\ Become(p, "headed")
    /\ UNCHANGED <<scope, ledgerState, events, memoryDb, faultVars, gateVars, ledgerLock, target,
                   acknowledged>>

\* Mutant: the database follows before the event is on disk.
CommitBeforeLogging(p) ==
    /\ stage[p] \in {"deleting", "headed"}
    /\ memoryDb' = [Revoke(memoryDb, target[p]) EXCEPT !.checkpoint = Len(events)]
    /\ \E s \in {"settled", "recoverReplay"} : Become(p, s)
    /\ UNCHANGED <<ledgerVars, faultVars, gateVars, ledgerLock, target, acknowledged>>

\* The transaction commits with its checkpoint; without the answer the request recovers.
CommitDeletion(p) ==
    /\ stage[p] = "headed"
    /\ memoryDb' = [Revoke(memoryDb, target[p]) EXCEPT !.checkpoint = Len(events)]
    /\ \E s \in {"settled", "recoverReplay"} : Become(p, s)
    /\ UNCHANGED <<ledgerVars, faultVars, gateVars, ledgerLock, target, acknowledged>>

\* It rolls back after the intent is on disk: reconcileMemoryRevocationsWithinLock.
RollBackDeletion(p) ==
    /\ stage[p] = "headed"
    /\ Become(p, "recoverReplay")
    /\ UNCHANGED <<ledgerVars, memoryDb, faultVars, gateVars, ledgerLock, target,
                   acknowledged>>

\* The answer: deleted.
Acknowledge(p) ==
    /\ stage[p] = "settled"
    /\ acknowledged' = acknowledged \cup {target[p]}
    /\ target' = [target EXCEPT ![p] = Nobody]
    /\ ledgerLock' = Nobody
    /\ Become(p, "idle")
    /\ UNCHANGED <<ledgerVars, memoryDb, faultVars, gateVars>>

\* A request ends: done, refused, failed in any step, or its process has died. An open
\* transaction rolls back, the lock session ends.
Abort(p) ==
    /\ stage[p] # "idle"
    /\ Become(p, "idle")
    /\ target' = [target EXCEPT ![p] = Nobody]
    /\ ledgerLock' = IF ledgerLock = p THEN Nobody ELSE ledgerLock
    /\ ForgetJournal(p)
    /\ UNCHANGED <<ledgerVars, memoryDb, faultVars, acknowledged>>

-----------------------------------------------------------------------------
(* Operations: a dump of the database, and its restore with all services stopped. *)

\* A backup that will not be restored is of no interest.
TakeBackup ==
    /\ restores < MaxRestores
    /\ backup' = memoryDb
    /\ UNCHANGED <<ledgerVars, memoryDb, restores, gateVars, ledgerLock, stage, target,
                   acknowledged>>

Restore ==
    /\ restores < MaxRestores
    /\ restores' = restores + 1
    /\ memoryDb' = backup
    /\ stage' = [p \in Processes |-> "idle"]
    /\ target' = [p \in Processes |-> Nobody]
    /\ ledgerLock' = Nobody
    /\ seen' = [p \in Processes |-> 0]
    /\ seenHead' = [p \in Processes |-> 0]
    /\ UNCHANGED <<ledgerVars, backup, acknowledged>>

RevocationStep(p) ==
    \/ ReadJournal(p) \/ CompareCheckpoint(p) \/ TakeLock(p)
    \/ ReplayHead(p) \/ ReplayRecord(p) \/ ReplayDone(p)
    \/ StartImport(p) \/ ImportCreateHead(p) \/ ImportAdvanceHead(p) \/ ImportAppend(p)
    \/ ImportMarkInitialized(p) \/ ImportFinish(p)
    \/ CreateMemory(p) \/ Send(p)
    \/ RequestDeletion(p) \/ BeginDeletion(p) \/ FindDeleted(p) \/ PersistEvent(p)
    \/ AdvanceHead(p) \/ CommitDeletion(p) \/ RollBackDeletion(p) \/ Acknowledge(p)
    \/ Abort(p)

RevocationNext ==
    \/ \E p \in Processes : RevocationStep(p)
    \/ TakeBackup
    \/ Restore

RevocationSpec == RevocationInit /\ [][RevocationNext]_revocationVars

-----------------------------------------------------------------------------
(* Properties. *)

\* Every effect of a logged deletion is in the database.
Effective(d, m) ==
    /\ m \in d.tombstones
    /\ m \notin d.live
    /\ SourceOf[m] \subseteq SuppressedFor(d, m)

\* A checkpoint is never ahead of the ledger, and the records up to it are in effect, in
\* the database and in every backup: otherwise a replay would skip one for ever
\* (revocation-recovery.ts, checkpoint written in the transaction of its record).
CheckpointIsTruthful ==
    \A d \in {memoryDb, backup} :
        /\ d.checkpoint <= Len(events)
        /\ \A i \in 1..d.checkpoint : Effective(d, events[i])

\* Once a deletion was reported as done, no model request carries the memory, or another
\* memory of its scope made of the same message; neither a crash nor a restored backup
\* brings it back (memory-invocation-gateway.ts, ADR 0029).
RevokedNeverSentAgain ==
    [][\A p \in Processes : stage[p] = "ready" /\ stage'[p] = "sending" =>
          \A m \in acknowledged :
              /\ target'[p] # m
              /\ scope[m] = scope[target'[p]]
                    => SourceOf[m] \cap SourceOf[target'[p]] = {}]_revocationVars
=============================================================================
