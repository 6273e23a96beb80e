----------------------- MODULE GenerationJobLease_proofs -----------------------
(***************************************************************************)
(* Proofs about GenerationJobLease, for any set of jobs, workers, owner    *)
(* names and requests, and any bounds.                                     *)
(***************************************************************************)
EXTENDS GenerationJobLease, TLAPS

-----------------------------------------------------------------------------
(* The inductive invariant *)

\* A handler runs on a job, on the side (generation, render) of its process.
HandlerShape ==
    \A w \in Workers : /\ pc[w] \in {"selected"} \cup Holding => job[w] \in Jobs
                       /\ pc[w] \in GenStage => w \in GenWorkers
                       /\ pc[w] \in RenderStage => w \in RenderWorkers

\* A retry request never finds a Chart Revision on a failed job.
RequestShape == \A c \in Requests : request[c] # None => ~request[c].hasRevision

Inv == /\ TypeOK
       /\ HandlerShape
       /\ RequestShape
       /\ LeaseImpliesStage
       /\ FencesUnique
       /\ NoStrandedJob
       /\ PublishedOnce

USE JobsAssumption, WorkersAssumption, OwnerAssumption, BoundsAssumption
USE DEF Workers

\* A counter column stays a column of numbers when one entry is raised by one.
LEMMA Increment ==
    ASSUME NEW S, NEW f \in [S -> Nat], NEW x \in S
    PROVE  [f EXCEPT ![x] = f[x] + 1] \in [S -> Nat]
  OBVIOUS

\* The rows, the worker variables and the requests start with values of their types.
LEMMA InitType == Init => TypeOK
  BY DEF Init, TypeOK, Status, ErrorClass, WorkerState

\* No statement of a worker, no retry request and no disruption takes a column out of its
\* type: a settled row is written only with the statuses and error classes of the domain.
LEMMA StepType == TypeOK /\ HandlerShape /\ [Next]_vars => TypeOK'
<1> SUFFICES ASSUME TypeOK, HandlerShape, [Next]_vars PROVE TypeOK'
  OBVIOUS
<1> USE DEF TypeOK, HandlerShape, Status, ErrorClass, WorkerState, Holding, GenStage, RenderStage, GenerationRunning,
            RenderRunning, Settled, row, worker
<1>1. ASSUME NEW w \in Workers, Work(w) PROVE TypeOK'
  <2>1. CASE RecoverExpired(w)
    BY <2>1 DEF RecoverExpired, Recoverable
  <2>2. CASE NothingToSelect(w)
    BY <2>2 DEF NothingToSelect
  <2>3. ASSUME NEW j \in Jobs, Select(w, j) PROVE TypeOK'
    BY <2>3 DEF Select
  <2>4. CASE ClaimGeneration(w)
    <3>1. job[w] \in Jobs
      BY <2>4 DEF ClaimGeneration
    <3>2. fence' \in [Jobs -> Nat] /\ attempts' \in [Jobs -> Nat]
      BY <2>4, <3>1, Increment DEF ClaimGeneration, TakeLease
    <3>3. fence[job[w]] \in Nat
      BY <3>1
    <3>4. fence[job[w]] + 1 \in Nat
      BY <3>3
    <3> QED
      BY <2>4, <3>1, <3>2, <3>4 DEF ClaimGeneration, TakeLease
  <2>5. CASE ClaimRendering(w)
    <3>1. job[w] \in Jobs
      BY <2>5 DEF ClaimRendering
    <3>2. fence' \in [Jobs -> Nat]
      BY <2>5, <3>1, Increment DEF ClaimRendering, TakeLease
    <3>3. fence[job[w]] \in Nat
      BY <3>1
    <3>4. fence[job[w]] + 1 \in Nat
      BY <3>3
    <3> QED
      BY <2>5, <3>1, <3>2, <3>4 DEF ClaimRendering, TakeLease
  <2>6. CASE MissClaim(w)
    BY <2>6 DEF MissClaim, Return
  <2>7. CASE Begin(w)
    BY <2>7 DEF Begin, AdvanceTo, Goto, SetError
  <2>8. CASE AdvanceStage(w)
    BY <2>8 DEF AdvanceStage, NextStage, AdvanceTo, Goto
  <2>9. CASE CheckLeaseBeforeQuestion(w)
    BY <2>9 DEF CheckLeaseBeforeQuestion, Goto
  <2>10. CASE PostQuestion(w)
    <3>1. messages' \in [Jobs -> Nat]
      BY <2>10, Increment DEF PostQuestion
    <3> QED
      BY <2>10, <3>1 DEF PostQuestion, Goto
  <2>11. CASE AwaitClarification(w)
    BY <2>11 DEF AwaitClarification, ReleaseTo, Return, SetError
  <2>12. CASE HandOff(w)
    BY <2>12 DEF HandOff, ReleaseTo, Return
  <2>13. ASSUME NEW class \in FailureClass, FailGeneration(w, class) PROVE TypeOK'
    BY <2>13 DEF FailGeneration, FailureClass, ReleaseTo, Return, SetError
  <2>14. CASE BeginValidating(w)
    BY <2>14 DEF BeginValidating, AdvanceTo, Goto
  <2>15. CASE CommitCompletedRevision(w)
    <3>1. published' \in [Jobs -> Nat]
      BY <2>15, Increment DEF CommitCompletedRevision
    <3> QED
      BY <2>15, <3>1 DEF CommitCompletedRevision, ReleaseTo, Return, SetError
  <2>16. ASSUME NEW class \in FailureClass, FailRender(w, class) PROVE TypeOK'
    BY <2>16 DEF FailRender, FailureClass, ReleaseTo, Return, SetError
  <2>17. CASE LoseLease(w)
    BY <2>17 DEF LoseLease, Return
  <2> QED
    BY <1>1, <2>1, <2>2, <2>3, <2>4, <2>5, <2>6, <2>7, <2>8, <2>9, <2>10, <2>11, <2>12,
       <2>13, <2>14, <2>15, <2>16, <2>17 DEF Work, Poll, Claim, Generate, Render
<1>2. ASSUME NEW w \in Workers, Heartbeat(w) PROVE TypeOK'
  BY <1>2 DEF Heartbeat
<1>3. ASSUME NEW w \in Workers, Crash(w) PROVE TypeOK'
  <2>1. disruptions' \in Nat
    BY <1>3 DEF Crash, Disrupt
  <2> QED
    BY <1>3, <2>1 DEF Crash, Return
<1>4. ASSUME NEW j \in Jobs, ExpireOrphan(j) \/ Stall(j) \/ LoseLockSession(j) \/ Cancel(j)
      PROVE TypeOK'
  <2>1. CASE ExpireOrphan(j)
    BY <2>1 DEF ExpireOrphan
  <2>2. ASSUME Stall(j) \/ LoseLockSession(j) PROVE disruptions' \in Nat
    BY <2>2 DEF Stall, LoseLockSession, Disrupt
  <2>3. CASE Stall(j)
    BY <2>2, <2>3 DEF Stall
  <2>4. CASE LoseLockSession(j)
    BY <2>2, <2>4 DEF LoseLockSession
  <2>5. CASE Cancel(j)
    BY <2>5 DEF Cancel, SetError
  <2> QED
    BY <1>4, <2>1, <2>3, <2>4, <2>5
<1>5. ASSUME NEW c \in Requests, RetryUpdate(c) PROVE TypeOK'
  <2> DEFINE j == request[c].job
  <2>1. j \in Jobs /\ attempts[j] \in Nat
    BY <1>5 DEF RetryUpdate
  <2>2. attempts[j] + 1 \in Nat
    BY <2>1
  <2> QED
    BY <1>5, <2>1, <2>2 DEF RetryUpdate, SetError
<1>6. ASSUME NEW c \in Requests, RetryTooLate(c) PROVE TypeOK'
  BY <1>6 DEF RetryTooLate
<1>7. ASSUME NEW c \in Requests, NEW j \in Jobs, RetryRead(c, j) PROVE TypeOK'
  BY <1>7 DEF RetryRead
<1>8. CASE UNCHANGED vars
  BY <1>8 DEF vars
<1> QED
  BY <1>1, <1>2, <1>3, <1>4, <1>5, <1>6, <1>7, <1>8 DEF Next

\* Only polling, claiming and returning change the job of a handler, and a
\* handler moves among the stages of its own side.
LEMMA StepShape == TypeOK /\ HandlerShape /\ [Next]_vars => HandlerShape'
<1> SUFFICES ASSUME TypeOK /\ HandlerShape, [Next]_vars PROVE HandlerShape'
  OBVIOUS
<1> USE DEF TypeOK, HandlerShape, Holding, GenStage, RenderStage, GenerationRunning,
            RenderRunning
<1>1. ASSUME NEW w \in Workers, RecoverExpired(w) PROVE HandlerShape'
  BY <1>1 DEF RecoverExpired, Recoverable
<1>2. ASSUME NEW w \in Workers, NothingToSelect(w) PROVE HandlerShape'
  BY <1>2 DEF NothingToSelect
<1>3. ASSUME NEW w \in Workers, NEW j \in Jobs, Select(w, j) PROVE HandlerShape'
  BY <1>3 DEF Select, QueueOf
<1>4. ASSUME NEW w \in Workers, ClaimGeneration(w) PROVE HandlerShape'
  BY <1>4 DEF ClaimGeneration, TakeLease
<1>5. ASSUME NEW w \in Workers, ClaimRendering(w) PROVE HandlerShape'
  BY <1>5 DEF ClaimRendering, TakeLease
<1>6. ASSUME NEW w \in Workers, MissClaim(w) PROVE HandlerShape'
  BY <1>6 DEF MissClaim, Return
<1>7. ASSUME NEW w \in Workers, Begin(w) PROVE HandlerShape'
  BY <1>7 DEF Begin, AdvanceTo, Goto
<1>8. ASSUME NEW w \in Workers, AdvanceStage(w) PROVE HandlerShape'
  BY <1>8 DEF AdvanceStage, NextStage, AdvanceTo, Goto
<1>9. ASSUME NEW w \in Workers, CheckLeaseBeforeQuestion(w) PROVE HandlerShape'
  BY <1>9 DEF CheckLeaseBeforeQuestion, Goto
<1>10. ASSUME NEW w \in Workers, PostQuestion(w) PROVE HandlerShape'
  BY <1>10 DEF PostQuestion, Goto
<1>11. ASSUME NEW w \in Workers, AwaitClarification(w) PROVE HandlerShape'
  BY <1>11 DEF AwaitClarification, ReleaseTo, Return
<1>12. ASSUME NEW w \in Workers, HandOff(w) PROVE HandlerShape'
  BY <1>12 DEF HandOff, ReleaseTo, Return
<1>13. ASSUME NEW w \in Workers, NEW class \in FailureClass, FailGeneration(w, class)
      PROVE HandlerShape'
  BY <1>13 DEF FailGeneration, ReleaseTo, Return
<1>14. ASSUME NEW w \in Workers, BeginValidating(w) PROVE HandlerShape'
  BY <1>14 DEF BeginValidating, AdvanceTo, Goto
<1>15. ASSUME NEW w \in Workers, CommitCompletedRevision(w) PROVE HandlerShape'
  BY <1>15 DEF CommitCompletedRevision, ReleaseTo, Return
<1>16. ASSUME NEW w \in Workers, NEW class \in FailureClass, FailRender(w, class)
      PROVE HandlerShape'
  BY <1>16 DEF FailRender, ReleaseTo, Return
<1>17. ASSUME NEW w \in Workers, LoseLease(w) PROVE HandlerShape'
  BY <1>17 DEF LoseLease, Return
<1>18. ASSUME NEW w \in Workers, Crash(w) PROVE HandlerShape'
  BY <1>18 DEF Crash, Return
<1>19. ASSUME UNCHANGED <<pc, job>> PROVE HandlerShape'
  BY <1>19
<1>20. ASSUME \/ UNCHANGED vars
              \/ \E w \in Workers : Heartbeat(w)
              \/ \E j \in Jobs : ExpireOrphan(j) \/ Stall(j) \/ LoseLockSession(j)
                                 \/ Cancel(j)
              \/ \E c \in Requests : RetryUpdate(c) \/ RetryTooLate(c)
              \/ \E c \in Requests, j \in Jobs : RetryRead(c, j)
      PROVE  UNCHANGED <<pc, job>>
  BY <1>20 DEF vars, row, worker, Heartbeat, ExpireOrphan, Stall, LoseLockSession, Cancel,
     RetryUpdate, RetryTooLate, RetryRead
<1> QED
  BY <1>1, <1>2, <1>3, <1>4, <1>5, <1>6, <1>7, <1>8, <1>9, <1>10, <1>11, <1>12, <1>13, <1>14,
     <1>15, <1>16, <1>17, <1>18, <1>19, <1>20 DEF Next, Work, Poll, Claim, Generate, Render

\* A retry reads a failed job, and a failed job has no Chart Revision.
LEMMA StepRequest == TypeOK /\ RequestShape /\ PublishedOnce /\ [Next]_vars => RequestShape'
<1> SUFFICES ASSUME TypeOK /\ RequestShape /\ PublishedOnce, [Next]_vars PROVE RequestShape'
  OBVIOUS
<1> USE DEF TypeOK, RequestShape
<1>1. ASSUME NEW c \in Requests, RetryUpdate(c) PROVE RequestShape'
  BY <1>1 DEF RetryUpdate
<1>2. ASSUME NEW c \in Requests, RetryTooLate(c) PROVE RequestShape'
  BY <1>2 DEF RetryTooLate
<1>3. ASSUME NEW c \in Requests, NEW j \in Jobs, RetryRead(c, j) PROVE RequestShape'
  <2>1. published[j] = 0
    BY <1>3 DEF RetryRead, PublishedOnce
  <2>2. request' = [request EXCEPT ![c] = [job |-> j, hasRevision |-> FALSE]]
    <3>1. (published[j] > 0) = FALSE
      BY <2>1
    <3> QED
      BY <1>3, <3>1 DEF RetryRead
  <2> QED
    BY <2>2
<1>4. ASSUME UNCHANGED request PROVE RequestShape'
  BY <1>4
<1>5. ASSUME \/ UNCHANGED vars
             \/ \E w \in Workers : RecoverExpired(w) \/ NothingToSelect(w)
                                   \/ ClaimGeneration(w) \/ ClaimRendering(w)
                                   \/ MissClaim(w) \/ Begin(w) \/ AdvanceStage(w)
                                   \/ CheckLeaseBeforeQuestion(w) \/ PostQuestion(w)
                                   \/ AwaitClarification(w) \/ HandOff(w)
                                   \/ BeginValidating(w) \/ CommitCompletedRevision(w)
                                   \/ LoseLease(w) \/ Heartbeat(w) \/ Crash(w)
             \/ \E w \in Workers, j \in Jobs : Select(w, j)
             \/ \E w \in Workers, class \in FailureClass : FailGeneration(w, class)
                                                           \/ FailRender(w, class)
             \/ \E j \in Jobs : ExpireOrphan(j) \/ Stall(j) \/ LoseLockSession(j)
                                \/ Cancel(j)
      PROVE  UNCHANGED request
  <2> HIDE DEF TypeOK, RequestShape
  <2> QED
    BY <1>5 DEF vars, row, worker, RecoverExpired, NothingToSelect, Select, ClaimGeneration,
       TakeLease, ClaimRendering, MissClaim, Return, Begin, AdvanceTo, Goto, AdvanceStage,
       NextStage, CheckLeaseBeforeQuestion, PostQuestion, AwaitClarification, ReleaseTo,
       HandOff, FailGeneration, BeginValidating, CommitCompletedRevision, FailRender, LoseLease,
       Heartbeat, Crash, ExpireOrphan, Stall, LoseLockSession, Cancel
<1> QED
  BY <1>1, <1>2, <1>3, <1>4, <1>5 DEF Next, Work, Poll, Claim, Generate, Render

\* Agreement of worker and row: the row of another worker's job cannot move
\* under it without losing the lease, because tokens are unique.
LEMMA StepLease == Inv /\ [Next]_vars => LeaseImpliesStage'
<1> SUFFICES ASSUME Inv, [Next]_vars PROVE LeaseImpliesStage'
  OBVIOUS
<1> USE DEF Inv, LeaseImpliesStage, OwnsLease, StageStatus, FencesUnique, TypeOK,
            HandlerShape, Holding, GenStage, RenderStage, GenerationRunning, RenderRunning
<1>1. ASSUME NEW w \in Workers, RecoverExpired(w) PROVE LeaseImpliesStage'
  BY <1>1 DEF RecoverExpired, Recoverable
<1>2. ASSUME NEW w \in Workers, NothingToSelect(w) PROVE LeaseImpliesStage'
  BY <1>2 DEF NothingToSelect, row, worker
<1>3. ASSUME NEW w \in Workers, NEW j \in Jobs, Select(w, j) PROVE LeaseImpliesStage'
  BY <1>3 DEF Select, QueueOf, row, worker
<1>4. ASSUME NEW w \in Workers, ClaimGeneration(w) PROVE LeaseImpliesStage'
  BY <1>4 DEF ClaimGeneration, TakeLease
<1>5. ASSUME NEW w \in Workers, ClaimRendering(w) PROVE LeaseImpliesStage'
  BY <1>5 DEF ClaimRendering, TakeLease
<1>6. ASSUME NEW w \in Workers, MissClaim(w) PROVE LeaseImpliesStage'
  BY <1>6 DEF MissClaim, Return, row, worker
<1>7. ASSUME NEW w \in Workers, Begin(w) PROVE LeaseImpliesStage'
  BY <1>7 DEF Begin, AdvanceTo, Goto
<1>8. ASSUME NEW w \in Workers, AdvanceStage(w) PROVE LeaseImpliesStage'
  BY <1>8 DEF AdvanceStage, NextStage, AdvanceTo, Goto
<1>9. ASSUME NEW w \in Workers, CheckLeaseBeforeQuestion(w) PROVE LeaseImpliesStage'
  BY <1>9 DEF CheckLeaseBeforeQuestion, Goto
<1>10. ASSUME NEW w \in Workers, PostQuestion(w) PROVE LeaseImpliesStage'
  BY <1>10 DEF PostQuestion, Goto, row, worker
<1>11. ASSUME NEW w \in Workers, AwaitClarification(w) PROVE LeaseImpliesStage'
  BY <1>11 DEF AwaitClarification, ReleaseTo, Return
<1>12. ASSUME NEW w \in Workers, HandOff(w) PROVE LeaseImpliesStage'
  BY <1>12 DEF HandOff, ReleaseTo, Return
<1>13. ASSUME NEW w \in Workers, NEW class \in FailureClass, FailGeneration(w, class)
      PROVE LeaseImpliesStage'
  BY <1>13 DEF FailGeneration, ReleaseTo, Return
<1>14. ASSUME NEW w \in Workers, BeginValidating(w) PROVE LeaseImpliesStage'
  BY <1>14 DEF BeginValidating, AdvanceTo, Goto
<1>15. ASSUME NEW w \in Workers, CommitCompletedRevision(w) PROVE LeaseImpliesStage'
  BY <1>15 DEF CommitCompletedRevision, ReleaseTo, Return
<1>16. ASSUME NEW w \in Workers, NEW class \in FailureClass, FailRender(w, class)
      PROVE LeaseImpliesStage'
  BY <1>16 DEF FailRender, ReleaseTo, Return
<1>17. ASSUME NEW w \in Workers, LoseLease(w) PROVE LeaseImpliesStage'
  BY <1>17 DEF LoseLease, Return, row, worker
<1>18. ASSUME NEW w \in Workers, Crash(w) PROVE LeaseImpliesStage'
  BY <1>18 DEF Crash, Return, row, worker
<1>19. ASSUME NEW j \in Jobs, Cancel(j) PROVE LeaseImpliesStage'
  BY <1>19 DEF Cancel, worker
<1>20. ASSUME NEW c \in Requests, RetryUpdate(c) PROVE LeaseImpliesStage'
  BY <1>20 DEF RetryUpdate, worker
<1>21. ASSUME UNCHANGED <<status, owner, fence, pc, job, held>> PROVE LeaseImpliesStage'
  BY <1>21
<1>22. ASSUME \/ UNCHANGED vars
              \/ \E w \in Workers : Heartbeat(w)
              \/ \E j \in Jobs : ExpireOrphan(j) \/ Stall(j) \/ LoseLockSession(j)
              \/ \E c \in Requests : RetryTooLate(c)
              \/ \E c \in Requests, j \in Jobs : RetryRead(c, j)
      PROVE  UNCHANGED <<status, owner, fence, pc, job, held>>
  BY <1>22 DEF vars, row, worker, Heartbeat, ExpireOrphan, Stall, LoseLockSession,
     RetryTooLate, RetryRead
<1> QED
  BY <1>1, <1>2, <1>3, <1>4, <1>5, <1>6, <1>7, <1>8, <1>9, <1>10, <1>11, <1>12, <1>13, <1>14,
     <1>15, <1>16, <1>17, <1>18, <1>19, <1>20, <1>21, <1>22 DEF Next, Work, Poll, Claim,
     Generate, Render

\* A claim issues a token above every token handed out before; nothing else
\* changes the tokens of a running handler.
LEMMA StepFences == TypeOK /\ HandlerShape /\ FencesUnique /\ [Next]_vars => FencesUnique'
<1> SUFFICES ASSUME TypeOK /\ HandlerShape /\ FencesUnique, [Next]_vars PROVE FencesUnique'
  OBVIOUS
<1> USE DEF TypeOK, HandlerShape, FencesUnique, Holding, GenStage, RenderStage,
            GenerationRunning, RenderRunning
<1>1. ASSUME NEW w \in Workers, ClaimGeneration(w) PROVE FencesUnique'
  <2> SUFFICES ASSUME NEW v \in Workers, pc'[v] \in Holding
               PROVE  /\ held'[v] <= fence'[job'[v]]
                      /\ \A u \in Workers : pc'[u] \in Holding /\ u # v /\ job'[u] = job'[v]
                                                => held'[u] # held'[v]
    OBVIOUS
  <2>1. /\ job[w] \in Jobs /\ job' = job
        /\ fence[job[w]] \in Nat
        /\ fence' = [fence EXCEPT ![job[w]] = fence[job[w]] + 1]
        /\ held' = [held EXCEPT ![w] = fence[job[w]] + 1]
        /\ \A u \in Workers \ {w} : pc'[u] = pc[u]
    BY <1>1 DEF ClaimGeneration, TakeLease
  <2>2. \A u \in Workers : /\ held[u] \in Nat
                            /\ pc[u] \in Holding => job[u] \in Jobs /\ fence[job[u]] \in Nat
    OBVIOUS
  <2>3. \A u \in Workers \ {w} : pc'[u] \in Holding => held'[u] <= fence[job[u]]
    BY <2>1, <2>2
  <2>4. CASE v = w
    BY <2>1, <2>2, <2>3, <2>4
  <2>5. CASE v # w
    BY <2>1, <2>2, <2>3, <2>5
  <2> QED
    BY <2>4, <2>5
<1>2. ASSUME NEW w \in Workers, ClaimRendering(w) PROVE FencesUnique'
  <2> SUFFICES ASSUME NEW v \in Workers, pc'[v] \in Holding
               PROVE  /\ held'[v] <= fence'[job'[v]]
                      /\ \A u \in Workers : pc'[u] \in Holding /\ u # v /\ job'[u] = job'[v]
                                                => held'[u] # held'[v]
    OBVIOUS
  <2>1. /\ job[w] \in Jobs /\ job' = job
        /\ fence[job[w]] \in Nat
        /\ fence' = [fence EXCEPT ![job[w]] = fence[job[w]] + 1]
        /\ held' = [held EXCEPT ![w] = fence[job[w]] + 1]
        /\ \A u \in Workers \ {w} : pc'[u] = pc[u]
    BY <1>2 DEF ClaimRendering, TakeLease
  <2>2. \A u \in Workers : /\ held[u] \in Nat
                            /\ pc[u] \in Holding => job[u] \in Jobs /\ fence[job[u]] \in Nat
    OBVIOUS
  <2>3. \A u \in Workers \ {w} : pc'[u] \in Holding => held'[u] <= fence[job[u]]
    BY <2>1, <2>2
  <2>4. CASE v = w
    BY <2>1, <2>2, <2>3, <2>4
  <2>5. CASE v # w
    BY <2>1, <2>2, <2>3, <2>5
  <2> QED
    BY <2>4, <2>5
<1>3. ASSUME NEW w \in Workers, RecoverExpired(w) PROVE FencesUnique'
  BY <1>3 DEF RecoverExpired, Recoverable
<1>4. ASSUME NEW w \in Workers, NothingToSelect(w) PROVE FencesUnique'
  BY <1>4 DEF NothingToSelect, row, worker
<1>5. ASSUME NEW w \in Workers, NEW j \in Jobs, Select(w, j) PROVE FencesUnique'
  BY <1>5 DEF Select, QueueOf, row, worker
<1>6. ASSUME NEW w \in Workers, MissClaim(w) PROVE FencesUnique'
  BY <1>6 DEF MissClaim, Return, row, worker
<1>7. ASSUME NEW w \in Workers, Begin(w) PROVE FencesUnique'
  BY <1>7 DEF Begin, AdvanceTo, Goto
<1>8. ASSUME NEW w \in Workers, AdvanceStage(w) PROVE FencesUnique'
  BY <1>8 DEF AdvanceStage, NextStage, AdvanceTo, Goto
<1>9. ASSUME NEW w \in Workers, CheckLeaseBeforeQuestion(w) PROVE FencesUnique'
  BY <1>9 DEF CheckLeaseBeforeQuestion, Goto
<1>10. ASSUME NEW w \in Workers, PostQuestion(w) PROVE FencesUnique'
  BY <1>10 DEF PostQuestion, Goto, row, worker
<1>11. ASSUME NEW w \in Workers, AwaitClarification(w) PROVE FencesUnique'
  BY <1>11 DEF AwaitClarification, ReleaseTo, Return
<1>12. ASSUME NEW w \in Workers, HandOff(w) PROVE FencesUnique'
  BY <1>12 DEF HandOff, ReleaseTo, Return
<1>13. ASSUME NEW w \in Workers, NEW class \in FailureClass, FailGeneration(w, class)
      PROVE FencesUnique'
  BY <1>13 DEF FailGeneration, ReleaseTo, Return
<1>14. ASSUME NEW w \in Workers, BeginValidating(w) PROVE FencesUnique'
  BY <1>14 DEF BeginValidating, AdvanceTo, Goto
<1>15. ASSUME NEW w \in Workers, CommitCompletedRevision(w) PROVE FencesUnique'
  BY <1>15 DEF CommitCompletedRevision, ReleaseTo, Return
<1>16. ASSUME NEW w \in Workers, NEW class \in FailureClass, FailRender(w, class)
      PROVE FencesUnique'
  BY <1>16 DEF FailRender, ReleaseTo, Return
<1>17. ASSUME NEW w \in Workers, LoseLease(w) PROVE FencesUnique'
  BY <1>17 DEF LoseLease, Return, row, worker
<1>18. ASSUME NEW w \in Workers, Crash(w) PROVE FencesUnique'
  BY <1>18 DEF Crash, Return, row, worker
<1>19. ASSUME UNCHANGED <<fence, pc, job, held>> PROVE FencesUnique'
  BY <1>19
<1>20. ASSUME \/ UNCHANGED vars
              \/ \E w \in Workers : Heartbeat(w)
              \/ \E j \in Jobs : ExpireOrphan(j) \/ Stall(j) \/ LoseLockSession(j)
                                 \/ Cancel(j)
              \/ \E c \in Requests : RetryUpdate(c) \/ RetryTooLate(c)
              \/ \E c \in Requests, j \in Jobs : RetryRead(c, j)
      PROVE  UNCHANGED <<fence, pc, job, held>>
  BY <1>20 DEF vars, row, worker, Heartbeat, ExpireOrphan, Stall, LoseLockSession, Cancel,
     RetryUpdate, RetryTooLate, RetryRead
<1> QED
  BY <1>1, <1>2, <1>3, <1>4, <1>5, <1>6, <1>7, <1>8, <1>9, <1>10, <1>11, <1>12, <1>13, <1>14,
     <1>15, <1>16, <1>17, <1>18, <1>19, <1>20 DEF Next, Work, Poll, Claim, Generate, Render

\* A status that needs a holder is entered only by a holder that keeps its
\* lease, and left together with it.
LEMMA StepStranded == TypeOK /\ HandlerShape /\ NoStrandedJob /\ [Next]_vars => NoStrandedJob'
<1> SUFFICES ASSUME TypeOK /\ HandlerShape /\ NoStrandedJob, [Next]_vars PROVE NoStrandedJob'
  OBVIOUS
<1> USE DEF TypeOK, HandlerShape, NoStrandedJob, Settled, OwnsLease, LeaseImpliesStage,
            StageStatus, Holding, GenStage, RenderStage, GenerationRunning, RenderRunning
<1>1. ASSUME NEW w \in Workers, RecoverExpired(w) PROVE NoStrandedJob'
  BY <1>1 DEF RecoverExpired, Recoverable
<1>2. ASSUME NEW w \in Workers, ClaimGeneration(w) PROVE NoStrandedJob'
  BY <1>2 DEF ClaimGeneration, TakeLease
<1>3. ASSUME NEW w \in Workers, ClaimRendering(w) PROVE NoStrandedJob'
  BY <1>3 DEF ClaimRendering, TakeLease
<1>4. ASSUME NEW w \in Workers, Begin(w) PROVE NoStrandedJob'
  BY <1>4 DEF Begin, AdvanceTo, Goto
<1>5. ASSUME NEW w \in Workers, AdvanceStage(w) PROVE NoStrandedJob'
  BY <1>5 DEF AdvanceStage, NextStage, AdvanceTo, Goto
<1>6. ASSUME NEW w \in Workers, AwaitClarification(w) PROVE NoStrandedJob'
  BY <1>6 DEF AwaitClarification, ReleaseTo, Return
<1>7. ASSUME NEW w \in Workers, HandOff(w) PROVE NoStrandedJob'
  BY <1>7 DEF HandOff, ReleaseTo, Return
<1>8. ASSUME NEW w \in Workers, NEW class \in FailureClass, FailGeneration(w, class)
      PROVE NoStrandedJob'
  BY <1>8 DEF FailGeneration, ReleaseTo, Return
<1>9. ASSUME NEW w \in Workers, BeginValidating(w) PROVE NoStrandedJob'
  BY <1>9 DEF BeginValidating, AdvanceTo, Goto
<1>10. ASSUME NEW w \in Workers, CommitCompletedRevision(w) PROVE NoStrandedJob'
  BY <1>10 DEF CommitCompletedRevision, ReleaseTo, Return
<1>11. ASSUME NEW w \in Workers, NEW class \in FailureClass, FailRender(w, class)
      PROVE NoStrandedJob'
  BY <1>11 DEF FailRender, ReleaseTo, Return
<1>12. ASSUME NEW j \in Jobs, Cancel(j) PROVE NoStrandedJob'
  BY <1>12 DEF Cancel
<1>13. ASSUME NEW c \in Requests, RetryUpdate(c) PROVE NoStrandedJob'
  BY <1>13 DEF RetryUpdate
<1>14. ASSUME UNCHANGED <<status, owner>> PROVE NoStrandedJob'
  BY <1>14
<1>15. ASSUME \/ UNCHANGED vars
              \/ \E w \in Workers : NothingToSelect(w) \/ MissClaim(w)
                                    \/ CheckLeaseBeforeQuestion(w) \/ PostQuestion(w)
                                    \/ LoseLease(w) \/ Heartbeat(w) \/ Crash(w)
              \/ \E w \in Workers, j \in Jobs : Select(w, j)
              \/ \E j \in Jobs : ExpireOrphan(j) \/ Stall(j) \/ LoseLockSession(j)
              \/ \E c \in Requests : RetryTooLate(c)
              \/ \E c \in Requests, j \in Jobs : RetryRead(c, j)
      PROVE  UNCHANGED <<status, owner>>
  BY <1>15 DEF vars, row, worker, NothingToSelect, Select, MissClaim, Return,
     CheckLeaseBeforeQuestion, Goto, PostQuestion, LoseLease, Heartbeat, Crash, ExpireOrphan,
     Stall, LoseLockSession, RetryTooLate, RetryRead
<1> QED
  BY <1>1, <1>2, <1>3, <1>4, <1>5, <1>6, <1>7, <1>8, <1>9, <1>10, <1>11, <1>12, <1>13, <1>14,
     <1>15 DEF Next, Work, Poll, Claim, Generate, Render

\* Only the publishing transaction reaches succeeded, from a row that still is
\* at validating, and no handler can own a job that has succeeded.
LEMMA StepPublished == TypeOK /\ HandlerShape /\ LeaseImpliesStage /\ PublishedOnce /\ [Next]_vars => PublishedOnce'
<1> SUFFICES ASSUME TypeOK /\ HandlerShape /\ LeaseImpliesStage /\ PublishedOnce, [Next]_vars PROVE PublishedOnce'
  OBVIOUS
<1> USE DEF TypeOK, HandlerShape, PublishedOnce, OwnsLease, LeaseImpliesStage,
            StageStatus, Holding, GenStage, RenderStage, GenerationRunning, RenderRunning
<1>1. ASSUME NEW w \in Workers, RecoverExpired(w) PROVE PublishedOnce'
  BY <1>1 DEF RecoverExpired, Recoverable
<1>2. ASSUME NEW w \in Workers, ClaimGeneration(w) PROVE PublishedOnce'
  BY <1>2 DEF ClaimGeneration, TakeLease, Claimable, QueueOf
<1>3. ASSUME NEW w \in Workers, ClaimRendering(w) PROVE PublishedOnce'
  BY <1>3 DEF ClaimRendering, TakeLease, Claimable, QueueOf
<1>4. ASSUME NEW w \in Workers, Begin(w) PROVE PublishedOnce'
  BY <1>4 DEF Begin, AdvanceTo, Goto
<1>5. ASSUME NEW w \in Workers, AdvanceStage(w) PROVE PublishedOnce'
  BY <1>5 DEF AdvanceStage, NextStage, AdvanceTo, Goto
<1>6. ASSUME NEW w \in Workers, AwaitClarification(w) PROVE PublishedOnce'
  BY <1>6 DEF AwaitClarification, ReleaseTo, Return
<1>7. ASSUME NEW w \in Workers, HandOff(w) PROVE PublishedOnce'
  BY <1>7 DEF HandOff, ReleaseTo, Return
<1>8. ASSUME NEW w \in Workers, NEW class \in FailureClass, FailGeneration(w, class)
      PROVE PublishedOnce'
  BY <1>8 DEF FailGeneration, ReleaseTo, Return
<1>9. ASSUME NEW w \in Workers, BeginValidating(w) PROVE PublishedOnce'
  BY <1>9 DEF BeginValidating, AdvanceTo, Goto
<1>10. ASSUME NEW w \in Workers, CommitCompletedRevision(w) PROVE PublishedOnce'
  BY <1>10 DEF CommitCompletedRevision, ReleaseTo, Return
<1>11. ASSUME NEW w \in Workers, NEW class \in FailureClass, FailRender(w, class)
      PROVE PublishedOnce'
  BY <1>11 DEF FailRender, ReleaseTo, Return
<1>12. ASSUME NEW j \in Jobs, Cancel(j) PROVE PublishedOnce'
  BY <1>12 DEF Cancel
<1>13. ASSUME NEW c \in Requests, RetryUpdate(c) PROVE PublishedOnce'
  BY <1>13 DEF RetryUpdate
<1>14. ASSUME UNCHANGED <<status, published>> PROVE PublishedOnce'
  BY <1>14
<1>15. ASSUME \/ UNCHANGED vars
              \/ \E w \in Workers : NothingToSelect(w) \/ MissClaim(w)
                                    \/ CheckLeaseBeforeQuestion(w) \/ PostQuestion(w)
                                    \/ LoseLease(w) \/ Heartbeat(w) \/ Crash(w)
              \/ \E w \in Workers, j \in Jobs : Select(w, j)
              \/ \E j \in Jobs : ExpireOrphan(j) \/ Stall(j) \/ LoseLockSession(j)
              \/ \E c \in Requests : RetryTooLate(c)
              \/ \E c \in Requests, j \in Jobs : RetryRead(c, j)
      PROVE  UNCHANGED <<status, published>>
  BY <1>15 DEF vars, row, worker, NothingToSelect, Select, MissClaim, Return,
     CheckLeaseBeforeQuestion, Goto, PostQuestion, LoseLease, Heartbeat, Crash, ExpireOrphan,
     Stall, LoseLockSession, RetryTooLate, RetryRead
<1> QED
  BY <1>1, <1>2, <1>3, <1>4, <1>5, <1>6, <1>7, <1>8, <1>9, <1>10, <1>11, <1>12, <1>13, <1>14,
     <1>15 DEF Next, Work, Poll, Claim, Generate, Render

-----------------------------------------------------------------------------
(* Theorems *)

\* The inductive invariant holds in every reachable state.
THEOREM Invariance == Spec => []Inv
<1>1. Init => Inv
  <2> SUFFICES ASSUME Init PROVE Inv
    OBVIOUS
  <2>1. TypeOK
    BY InitType
  <2>2. HandlerShape /\ RequestShape /\ LeaseImpliesStage /\ FencesUnique
    BY DEF Init, HandlerShape, RequestShape, LeaseImpliesStage, FencesUnique, Holding,
           GenStage, RenderStage, GenerationRunning, RenderRunning
  <2>3. NoStrandedJob /\ PublishedOnce
    BY DEF Init, NoStrandedJob, PublishedOnce, GenerationRunning
  <2> QED
    BY <2>1, <2>2, <2>3 DEF Inv
<1>2. Inv /\ [Next]_vars => Inv'
  BY StepType, StepShape, StepRequest, StepLease, StepFences, StepStranded, StepPublished DEF Inv
<1> QED
  BY <1>1, <1>2, PTL DEF Spec

\* Every reachable state has the types of the schema columns and of the
\* workers' local variables.
THEOREM TypeCorrect == Spec => []TypeOK
  BY Invariance, PTL DEF Inv

\* A worker whose conditional UPDATE would match its row knows the row's status.
THEOREM HolderKnowsStage == Spec => []LeaseImpliesStage
  BY Invariance, PTL DEF Inv

\* Fencing tokens tell any two handlers of a job apart, also when every replica
\* runs under the same owner name.
THEOREM TokensTellApart == Spec => []FencesUnique
  BY Invariance, PTL DEF Inv

\* No job is in a running status without a lease for the sweep to find.
THEOREM NeverStranded == Spec => []NoStrandedJob
  BY Invariance, PTL DEF Inv

\* One Chart Revision per job, inserted exactly when the job succeeds.
THEOREM AtMostOneRevision == Spec => []PublishedOnce
  BY Invariance, PTL DEF Inv

\* The promise of ownedLeaseCondition: every statement a handler sends under its
\* lease is conditional on the lease, the others touch no column of the row.
THEOREM StaleWorkersHarmless == Spec => StaleWorkerIsHarmless
<1> DEFINE Harmless == \A w \in Workers :
               pc[w] \in Holding /\ ~OwnsLease(w) /\ <<pc[w], job[w]>>' # <<pc[w], job[w]>>
                  => UNCHANGED row
<1>1. TypeOK /\ [Next]_vars => Harmless
  <2> SUFFICES ASSUME TypeOK, [Next]_vars,
                      NEW w \in Workers, pc[w] \in Holding, ~OwnsLease(w),
                      <<pc[w], job[w]>>' # <<pc[w], job[w]>>
               PROVE  UNCHANGED row
    OBVIOUS
  <2> USE DEF TypeOK, Holding, GenStage, RenderStage, GenerationRunning, RenderRunning
  <2>1. ASSUME NEW v \in Workers, v # w, Work(v) \/ Heartbeat(v) \/ Crash(v) PROVE FALSE
    BY <2>1 DEF Work, Poll, Claim, Generate, Render, RecoverExpired, NothingToSelect, Select,
       ClaimGeneration, ClaimRendering, TakeLease, MissClaim, Return, Begin, AdvanceTo, Goto,
       AdvanceStage, CheckLeaseBeforeQuestion, PostQuestion, AwaitClarification, ReleaseTo,
       HandOff, FailGeneration, BeginValidating, CommitCompletedRevision, FailRender,
       LoseLease, Heartbeat, Crash, worker
  <2>2. CASE Poll(w) \/ Claim(w)
    BY <2>2 DEF Poll, Claim, RecoverExpired, NothingToSelect, Select, ClaimGeneration,
       ClaimRendering, MissClaim
  <2>3. CASE Generate(w)
    BY <2>3 DEF Generate, Begin, AdvanceTo, AdvanceStage, CheckLeaseBeforeQuestion,
       PostQuestion, AwaitClarification, ReleaseTo, HandOff, FailGeneration
  <2>4. CASE Render(w)
    BY <2>4 DEF Render, BeginValidating, AdvanceTo, CommitCompletedRevision, ReleaseTo,
       FailRender
  <2>5. CASE LoseLease(w) \/ Crash(w)
    BY <2>5 DEF LoseLease, Crash
  <2>6. CASE Heartbeat(w)
    BY <2>6 DEF Heartbeat
  <2>7. ASSUME \/ UNCHANGED vars
               \/ \E j \in Jobs : ExpireOrphan(j) \/ Stall(j) \/ LoseLockSession(j) \/ Cancel(j)
               \/ \E c \in Requests : RetryUpdate(c) \/ RetryTooLate(c)
               \/ \E c \in Requests, j \in Jobs : RetryRead(c, j)
        PROVE  FALSE
    BY <2>7 DEF vars, worker, ExpireOrphan, Stall, LoseLockSession, Cancel, RetryUpdate,
       RetryTooLate, RetryRead
  <2> QED
    BY <2>1, <2>2, <2>3, <2>4, <2>5, <2>6, <2>7 DEF Next, Work
<1>2. Spec => [][Harmless]_vars
  BY Invariance, <1>1, PTL DEF Spec, Inv
<1> QED
  BY <1>2 DEF StaleWorkerIsHarmless

-----------------------------------------------------------------------------
(* Refinement: the row of a job follows JobLifecycle *)

\* What a handler that owns its lease knows about its row.
LEMMA HolderFacts ==
    ASSUME Inv, NEW w \in Workers, pc[w] \in Holding, OwnsLease(w)
    PROVE  /\ job[w] \in Jobs
           /\ owner[job[w]] # None
           /\ status[job[w]] = StageStatus(pc[w])
  BY DEF Inv, HandlerShape, LeaseImpliesStage, OwnsLease

\* Status and lease columns after a write that keeps the lease.
LEMMA AdvanceRefines ==
    ASSUME Inv, NEW w \in Workers, pc[w] \in Holding, NEW next \in Status,
           AdvanceTo(w, next), <<StageStatus(pc[w]), next>> \in Lifecycle!StageEdges
    PROVE  Lifecycle!Next
<1>1. OwnsLease(w) /\ UNCHANGED <<owner, fence>> /\ status' = [status EXCEPT ![job[w]] = next]
  BY DEF AdvanceTo
<1>2. PICK j \in Jobs : j = job[w]
  BY <1>1, HolderFacts
<1>3. Lifecycle!Advance(j)
  BY <1>1, <1>2, HolderFacts DEF Lifecycle!Advance, Lifecycle!Status, Status,
     Lifecycle!GenerationRunning, Lifecycle!RenderRunning, Lifecycle!Settled,
     GenerationRunning, RenderRunning, Settled
<1> QED
  BY <1>3 DEF Lifecycle!Next

\* Status and lease columns after a write that drops the lease.
LEMMA ReleaseRefines ==
    ASSUME Inv, NEW w \in Workers, pc[w] \in Holding, NEW next \in Status,
           ReleaseTo(w, next), <<StageStatus(pc[w]), next>> \in Lifecycle!ReleaseEdges
    PROVE  Lifecycle!Next
<1>1. /\ OwnsLease(w) /\ UNCHANGED fence
      /\ status' = [status EXCEPT ![job[w]] = next]
      /\ owner' = [owner EXCEPT ![job[w]] = None]
  BY DEF ReleaseTo
<1>2. PICK j \in Jobs : j = job[w]
  BY <1>1, HolderFacts
<1>3. [k \in Jobs |-> owner'[k] # None] = [[k \in Jobs |-> owner[k] # None] EXCEPT ![j] = FALSE]
  BY <1>1, <1>2 DEF Inv, TypeOK
<1>4. Lifecycle!Release(j)
  BY <1>1, <1>2, <1>3, HolderFacts DEF Lifecycle!Release, Lifecycle!Status, Status,
     Lifecycle!GenerationRunning, Lifecycle!RenderRunning, Lifecycle!Settled,
     GenerationRunning, RenderRunning, Settled
<1> QED
  BY <1>4 DEF Lifecycle!Next

\* A claim from the worker's own queue.
LEMMA ClaimRefines ==
    ASSUME Inv, NEW w \in Workers, ClaimGeneration(w) \/ ClaimRendering(w)
    PROVE  Lifecycle!Next
<1>1. PICK j \in Jobs : j = job[w]
  BY DEF Inv, HandlerShape, ClaimGeneration, ClaimRendering
<1>2. [k \in Jobs |-> owner'[k] # None] = [[k \in Jobs |-> owner[k] # None] EXCEPT ![j] = TRUE]
  BY <1>1 DEF Inv, TypeOK, ClaimGeneration, ClaimRendering, TakeLease
<1>3. fence' = [fence EXCEPT ![j] = fence[j] + 1]
  BY <1>1 DEF ClaimGeneration, ClaimRendering, TakeLease
<1>4. CASE ClaimGeneration(w)
  <2>1. status[j] = "queued" /\ status' = [status EXCEPT ![j] = "profiling"]
    BY <1>1, <1>4 DEF ClaimGeneration, TakeLease, QueueOf
  <2>2. owner[j] = None
    BY <2>1 DEF Inv, NoStrandedJob
  <2>3. Lifecycle!Claim(j)
    BY <1>2, <1>3, <2>1, <2>2 DEF Lifecycle!Claim
  <2> QED
    BY <2>3 DEF Lifecycle!Next
<1>5. CASE ClaimRendering(w)
  <2>1. status[j] = "rendering" /\ status' = [status EXCEPT ![j] = "rendering"]
    BY <1>1, <1>5, WorkersAssumption DEF ClaimRendering, TakeLease, QueueOf
  <2>2. status' = status
    BY <2>1 DEF Inv, TypeOK
  <2>3. Lifecycle!Claim(j)
    BY <1>2, <1>3, <2>1, <2>2 DEF Lifecycle!Claim
  <2> QED
    BY <2>3 DEF Lifecycle!Next
<1> QED
  BY <1>4, <1>5

\* The sweep is one step of the abstract sweep over the recoverable jobs.
LEMMA RecoverRefines ==
    ASSUME Inv, NEW w \in Workers, RecoverExpired(w)
    PROVE  Lifecycle!Next
<1>1. PICK swept \in SUBSET Jobs : swept = {j \in Jobs : Recoverable(j)}
  OBVIOUS
<1>2. \A j \in Jobs : Recoverable(j) <=> j \in swept
  BY <1>1
<1>3. status' = [j \in Jobs |-> IF j \in swept THEN Lifecycle!RestartStatus(status[j])
                                               ELSE status[j]]
  BY <1>2 DEF RecoverExpired, Recoverable, Lifecycle!RestartStatus,
     Lifecycle!GenerationRunning, GenerationRunning
<1>4. /\ \A j \in swept : [k \in Jobs |-> owner[k] # None][j]
      /\ [j \in Jobs |-> owner'[j] # None]
           = [j \in Jobs |-> [k \in Jobs |-> owner[k] # None][j] /\ j \notin swept]
      /\ fence' = fence
  <2>1. \A j \in swept : owner[j] # None
    BY <1>1 DEF Recoverable
  <2>2. owner' = [j \in Jobs |-> IF j \in swept THEN None ELSE owner[j]] /\ fence' = fence
    BY <1>2 DEF RecoverExpired
  <2> QED
    BY <2>1, <2>2
<1>5. Lifecycle!Sweep(swept)
  BY <1>3, <1>4 DEF Lifecycle!Sweep
<1> QED
  BY <1>5 DEF Lifecycle!Next

\* Every step of the workers, the API and the environment is a step of the
\* lifecycle or leaves the row's status and lease alone.
LEMMA StepRefines == Inv /\ [Next]_vars => [Lifecycle!Next]_Lifecycle!vars
<1> SUFFICES ASSUME Inv, [Next]_vars PROVE [Lifecycle!Next]_Lifecycle!vars
  OBVIOUS
<1> USE DEF Holding, GenStage, RenderStage, GenerationRunning, RenderRunning, Settled, Status
<1>1. ASSUME NEW w \in Workers, RecoverExpired(w) PROVE Lifecycle!Next
  BY <1>1, RecoverRefines
<1>2. ASSUME NEW w \in Workers, ClaimGeneration(w) \/ ClaimRendering(w) PROVE Lifecycle!Next
  BY <1>2, ClaimRefines
<1>3. ASSUME NEW w \in Workers, Begin(w) PROVE Lifecycle!Next
  <2> DEFINE first == IF Operation[job[w]] = "generate" THEN "profiling" ELSE "planning"
  <2>1. pc[w] = "claimed" /\ AdvanceTo(w, first)
    BY <1>3 DEF Begin
  <2>2. <<StageStatus(pc[w]), first>> \in Lifecycle!StageEdges
    BY <2>1 DEF StageStatus, Lifecycle!StageEdges
  <2> QED
    BY <2>1, <2>2, AdvanceRefines
<1>4. ASSUME NEW w \in Workers, AdvanceStage(w) PROVE Lifecycle!Next
  <2> DEFINE next == NextStage[pc[w]]
  <2>1. pc[w] \in {"profiling", "planning", "transforming"} /\ AdvanceTo(w, next)
    BY <1>4 DEF AdvanceStage, NextStage
  <2>2. next \in Status /\ <<StageStatus(pc[w]), next>> \in Lifecycle!StageEdges
    BY <2>1 DEF StageStatus, Lifecycle!StageEdges, NextStage
  <2> QED
    BY <2>1, <2>2, AdvanceRefines
<1>5. ASSUME NEW w \in Workers, BeginValidating(w) PROVE Lifecycle!Next
  <2>1. pc[w] = "rendering" /\ AdvanceTo(w, "validating")
    BY <1>5 DEF BeginValidating
  <2>2. <<StageStatus(pc[w]), "validating">> \in Lifecycle!StageEdges
    BY <2>1 DEF StageStatus, Lifecycle!StageEdges
  <2> QED
    BY <2>1, <2>2, AdvanceRefines
<1>6. ASSUME NEW w \in Workers, AwaitClarification(w) PROVE Lifecycle!Next
  BY <1>6, ReleaseRefines DEF AwaitClarification, StageStatus, Lifecycle!ReleaseEdges
<1>7. ASSUME NEW w \in Workers, HandOff(w) PROVE Lifecycle!Next
  BY <1>7, ReleaseRefines DEF HandOff, StageStatus, Lifecycle!ReleaseEdges
<1>8. ASSUME NEW w \in Workers, CommitCompletedRevision(w) PROVE Lifecycle!Next
  BY <1>8, ReleaseRefines DEF CommitCompletedRevision, StageStatus, Lifecycle!ReleaseEdges
<1>9. ASSUME NEW w \in Workers, NEW class \in FailureClass,
             FailGeneration(w, class) \/ FailRender(w, class)
      PROVE  Lifecycle!Next
  <2>1. pc[w] \in Holding /\ ReleaseTo(w, "failed")
    BY <1>9 DEF FailGeneration, FailRender
  <2>2. <<StageStatus(pc[w]), "failed">> \in Lifecycle!ReleaseEdges
    BY <2>1 DEF StageStatus, Lifecycle!ReleaseEdges, Lifecycle!GenerationRunning,
       Lifecycle!RenderRunning
  <2> QED
    BY <2>1, <2>2, ReleaseRefines
<1>10. ASSUME NEW j \in Jobs, Cancel(j) PROVE Lifecycle!Next
  <2>1. owner' = owner
    BY <1>10 DEF Cancel, Inv, TypeOK, NoStrandedJob
  <2> QED
    BY <1>10, <2>1 DEF Cancel, Lifecycle!Next, Lifecycle!Stop
<1>11. ASSUME NEW c \in Requests, RetryUpdate(c) PROVE Lifecycle!Next
  <2>1. PICK j \in Jobs : j = request[c].job
    BY <1>11 DEF RetryUpdate, Inv, TypeOK
  <2>2. ~request[c].hasRevision
    BY <1>11 DEF RetryUpdate, Inv, RequestShape
  <2>3. status[j] = "failed" /\ status' = [status EXCEPT ![j] = "queued"] /\ fence' = fence
    BY <1>11, <2>1, <2>2 DEF RetryUpdate
  <2>4. owner' = owner
    BY <1>11, <2>1, <2>3 DEF RetryUpdate, Inv, TypeOK, NoStrandedJob
  <2>5. Lifecycle!Resubmit(j)
    BY <2>3, <2>4 DEF Lifecycle!Resubmit
  <2> QED
    BY <2>5 DEF Lifecycle!Next
<1>12. ASSUME \/ UNCHANGED vars
              \/ \E w \in Workers : NothingToSelect(w) \/ MissClaim(w)
                                    \/ CheckLeaseBeforeQuestion(w) \/ PostQuestion(w)
                                    \/ LoseLease(w) \/ Heartbeat(w) \/ Crash(w)
              \/ \E w \in Workers, j \in Jobs : Select(w, j)
              \/ \E j \in Jobs : ExpireOrphan(j) \/ Stall(j) \/ LoseLockSession(j)
              \/ \E c \in Requests : RetryTooLate(c)
              \/ \E c \in Requests, j \in Jobs : RetryRead(c, j)
       PROVE  UNCHANGED Lifecycle!vars
  <2>1. UNCHANGED <<status, owner, fence>>
    BY <1>12 DEF vars, row, NothingToSelect, MissClaim, CheckLeaseBeforeQuestion, PostQuestion,
       LoseLease, Heartbeat, Crash, Select, ExpireOrphan, Stall, LoseLockSession,
       RetryTooLate, RetryRead
  <2> QED
    BY <2>1 DEF Lifecycle!vars
<1> QED
  BY <1>1, <1>2, <1>3, <1>4, <1>5, <1>6, <1>7, <1>8, <1>9, <1>10, <1>11, <1>12
     DEF Next, Work, Poll, Claim, Generate, Render

\* GenerationJobLease implements JobLifecycle: although no UPDATE of a handler
\* names the status it replaces, rows take the edges of the lifecycle only.
THEOREM Refinement == Spec => LifecycleSpec
<1>1. Init => Lifecycle!Init
  BY DEF Init, Lifecycle!Init
<1>2. Spec => [][Lifecycle!Next]_Lifecycle!vars
  BY Invariance, StepRefines, PTL DEF Spec
<1> QED
  BY <1>1, <1>2, PTL DEF Spec, LifecycleSpec, Lifecycle!Spec

=============================================================================
