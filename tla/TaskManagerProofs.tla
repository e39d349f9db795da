-------------------------- MODULE TaskManagerProofs --------------------------
(***************************************************************************)
(* Proofs about TaskManager, for any number of tasks, IDs, items and       *)
(* workers.                                                                *)
(***************************************************************************)
EXTENDS TaskManager, TLAPS, FiniteSetTheorems

USE DEF Statuses, Terminal, EndTimes, Results, Contexts, Callbacks

-----------------------------------------------------------------------------
(***************************************************************************)
(* Types and the worker pool.  No part is inductive alone: pool - 1 is a   *)
(* natural number because the tokens in the channel are those of the       *)
(* goroutines that hold one, and n + 1 is in range because the loop enters *)
(* an item only while there is one.                                        *)
(***************************************************************************)
ItemLeft == \A t \in Tasks : pc[t] = "item" => n[t] < NumItems

PoolInv == TypeOK /\ ItemLeft /\ pool = Cardinality(Holders)

LEMMA WorkersPositive == MaxWorkers \in Nat \ {0}
BY ManagerConstants DEF MaxWorkers

LEMMA HoldersFinite == IsFiniteSet(Holders) /\ Cardinality(Holders) \in Nat
<1>1. Holders \subseteq Tasks /\ IsFiniteSet(Tasks)
  BY CacheConstants DEF Holders
<1> QED  BY <1>1, FS_Subset, FS_CardinalityType

\* A goroutine that moves within, or stays outside, the places that own a
\* token leaves the set of holders alone.
LEMMA HoldersSame ==
  ASSUME TypeOK, NEW t \in Tasks, NEW a, NEW b, Goto(t, a, b),
         a \in Holding <=> b \in Holding
  PROVE  Holders' = Holders
BY DEF Holders, Goto, TypeOK

LEMMA HoldersAcquire ==
  ASSUME PoolInv, NEW t \in Tasks, Goto(t, "queued", "starting")
  PROVE  Cardinality(Holders') = pool + 1
<1>1. t \notin Holders
  BY DEF Holders, Goto, Holding
<1>2. Holders' = Holders \cup {t}
  BY DEF Holders, Goto, Holding, PoolInv, TypeOK
<1> QED  BY <1>1, <1>2, HoldersFinite, FS_AddElement DEF PoolInv

LEMMA HoldersReturn ==
  ASSUME PoolInv, NEW t \in Tasks, Goto(t, "returning", "done")
  PROVE  Cardinality(Holders') = pool - 1 /\ pool - 1 \in Nat
<1>1. t \in Holders
  BY DEF Holders, Goto, Holding
<1>2. Holders' = Holders \ {t}
  BY DEF Holders, Goto, Holding, PoolInv, TypeOK
<1>3. IsFiniteSet(Holders') /\ Cardinality(Holders') = pool - 1
  BY <1>1, <1>2, HoldersFinite, FS_RemoveElement DEF PoolInv
<1> QED  BY <1>3, FS_CardinalityType

\* The cache's operations keep the types of the cache's variables.
LEMMA CacheTypes ==
  ASSUME TypeOK, NEW t \in Tasks, NEW s \in Statuses, NEW r \in Results,
         \/ AddTask(t)                   \/ UpdateTaskStatus(IdOf[t], s)
         \/ UpdateTaskResult(IdOf[t], r) \/ CancelMarkStatus(t)
         \/ CancelMarkEnd(t)             \/ Age(t)
         \/ UNCHANGED cacheVars
  PROVE  CacheTypeOK'
<1> USE CacheConstants DEF TypeOK, CacheTypeOK
<1>1. CASE AddTask(t)  BY <1>1 DEF AddTask
<1>2. CASE UpdateTaskStatus(IdOf[t], s)  BY <1>2 DEF UpdateTaskStatus
<1>3. CASE UpdateTaskResult(IdOf[t], r)  BY <1>3 DEF UpdateTaskResult
<1>4. CASE CancelMarkStatus(t)  BY <1>4 DEF CancelMarkStatus
<1>5. CASE CancelMarkEnd(t)  BY <1>5 DEF CancelMarkEnd
<1>6. CASE Age(t)  BY <1>6 DEF Age
<1>7. CASE UNCHANGED cacheVars  BY <1>7 DEF cacheVars
<1> QED  BY <1>1, <1>2, <1>3, <1>4, <1>5, <1>6, <1>7

(***************************************************************************)
(* One step keeps the types and the count.  Every action moves one         *)
(* goroutine; only Acquire and Return move it into or out of Holding.      *)
(***************************************************************************)
LEMMA PoolStep == PoolInv /\ [Next]_vars => PoolInv'
<1> SUFFICES ASSUME PoolInv, [Next]_vars
             PROVE PoolInv'
  OBVIOUS
<1> USE CacheConstants, ManagerConstants, WorkersPositive
    DEF PoolInv, TypeOK, ItemLeft
<1>1. ASSUME NEW t \in Tasks, CreateCheck(t) PROVE PoolInv'
  <2>1. CacheTypeOK'
    BY <1>1, CacheTypes DEF CreateCheck
  <2>2. Holders' = Holders
    BY <1>1, HoldersSame DEF CreateCheck, Holding
  <2> QED  BY <1>1, <2>1, <2>2 DEF CreateCheck, Goto, Places, Holding
<1>2. ASSUME NEW t \in Tasks, CreateAdd(t) PROVE PoolInv'
  <2>1. CacheTypeOK'
    BY <1>2, CacheTypes DEF CreateAdd
  <2>2. Holders' = Holders
    BY <1>2, HoldersSame DEF CreateAdd, Holding
  <2> QED  BY <1>2, <2>1, <2>2 DEF CreateAdd, Goto, Places, Holding
<1>3. ASSUME NEW t \in Tasks, MarkRunning(t) PROVE PoolInv'
  <2>1. CacheTypeOK'
    BY <1>3, CacheTypes DEF MarkRunning
  <2>2. Holders' = Holders
    BY <1>3, HoldersSame DEF MarkRunning, Holding
  <2> QED  BY <1>3, <2>1, <2>2 DEF MarkRunning, Goto, Places, Holding
<1>4. ASSUME NEW t \in Tasks, LoopCheck(t) PROVE PoolInv'
  <2>1. CacheTypeOK'
    BY <1>4, CacheTypes DEF LoopCheck
  <2>2. Holders' = Holders
    BY <1>4, HoldersSame DEF LoopCheck, Holding
  <2> QED  BY <1>4, <2>1, <2>2 DEF LoopCheck, Goto, Places, Holding
<1>5. ASSUME NEW t \in Tasks, ItemReturn(t) PROVE PoolInv'
  <2>1. CacheTypeOK'
    BY <1>5, CacheTypes DEF ItemReturn
  <2>2. Holders' = Holders
    BY <1>5, HoldersSame DEF ItemReturn, Holding
  <2> QED  BY <1>5, <2>1, <2>2 DEF ItemReturn, Goto, Places, Holding
<1>6. ASSUME NEW t \in Tasks, StoreResults(t) PROVE PoolInv'
  <2>1. CacheTypeOK'
    BY <1>6, CacheTypes DEF StoreResults
  <2>2. Holders' = Holders
    BY <1>6, HoldersSame DEF StoreResults, Holding
  <2> QED  BY <1>6, <2>1, <2>2 DEF StoreResults, Goto, Places, Holding
<1>7. ASSUME NEW t \in Tasks, ReadCanceled(t) PROVE PoolInv'
  <2>1. CacheTypeOK'
    BY <1>7, CacheTypes DEF ReadCanceled
  <2>2. Holders' = Holders
    BY <1>7, HoldersSame DEF ReadCanceled, Holding
  <2> QED  BY <1>7, <2>1, <2>2 DEF ReadCanceled, Goto, Places, Holding
<1>8. ASSUME NEW t \in Tasks, ReadStatus(t) PROVE PoolInv'
  <2>1. CacheTypeOK'
    BY <1>8, CacheTypes DEF ReadStatus
  <2>2. Holders' = Holders
    BY <1>8, HoldersSame DEF ReadStatus, Holding
  <2> QED  BY <1>8, <2>1, <2>2 DEF ReadStatus, Goto, Places, Holding
<1>9. ASSUME NEW t \in Tasks, MarkCanceled(t) PROVE PoolInv'
  <2>1. CacheTypeOK'
    BY <1>9, CacheTypes DEF MarkCanceled
  <2>2. Holders' = Holders
    BY <1>9, HoldersSame DEF MarkCanceled, Holding
  <2> QED  BY <1>9, <2>1, <2>2 DEF MarkCanceled, Goto, Places, Holding
<1>10. ASSUME NEW t \in Tasks, ReadDeadline(t) PROVE PoolInv'
  <2>1. CacheTypeOK'
    BY <1>10, CacheTypes DEF ReadDeadline
  <2>2. Holders' = Holders
    BY <1>10, HoldersSame DEF ReadDeadline, Holding
  <2> QED  BY <1>10, <2>1, <2>2 DEF ReadDeadline, Goto, Places, Holding
<1>11. ASSUME NEW t \in Tasks, MarkFailed(t) PROVE PoolInv'
  <2>1. CacheTypeOK'
    BY <1>11, CacheTypes DEF MarkFailed
  <2>2. Holders' = Holders
    BY <1>11, HoldersSame DEF MarkFailed, Holding
  <2> QED  BY <1>11, <2>1, <2>2 DEF MarkFailed, Goto, Places, Holding
<1>12. ASSUME NEW t \in Tasks, SetError(t) PROVE PoolInv'
  <2>1. CacheTypeOK'
    BY <1>12, CacheTypes DEF SetError
  <2>2. Holders' = Holders
    BY <1>12, HoldersSame DEF SetError, Holding
  <2> QED  BY <1>12, <2>1, <2>2 DEF SetError, Goto, Places, Holding
<1>13. ASSUME NEW t \in Tasks, MarkCompleted(t) PROVE PoolInv'
  <2>1. CacheTypeOK'
    BY <1>13, CacheTypes DEF MarkCompleted
  <2>2. Holders' = Holders
    BY <1>13, HoldersSame DEF MarkCompleted, Holding
  <2> QED  BY <1>13, <2>1, <2>2 DEF MarkCompleted, Goto, Places, Holding
<1>14. ASSUME NEW t \in Tasks, SendCallback(t) PROVE PoolInv'
  <2>1. CacheTypeOK'
    BY <1>14, CacheTypes DEF SendCallback
  <2>2. Holders' = Holders
    BY <1>14, HoldersSame DEF SendCallback, Holding
  <2>3. callback' \in [Tasks -> Callbacks]
    BY <1>14 DEF SendCallback, CacheTypeOK
  <2> QED  BY <1>14, <2>1, <2>2, <2>3 DEF SendCallback, Goto, Places, Holding
<1>15. ASSUME NEW t \in Tasks, Acquire(t) PROVE PoolInv'
  <2>1. CacheTypeOK'
    BY <1>15, CacheTypes DEF Acquire
  <2>2. Cardinality(Holders') = pool' /\ pool' \in 0..MaxWorkers
    BY <1>15, HoldersAcquire DEF Acquire
  <2> QED  BY <1>15, <2>1, <2>2 DEF Acquire, Goto, Places, Holding
<1>16. ASSUME NEW t \in Tasks, Return(t) PROVE PoolInv'
  <2>1. CacheTypeOK'
    BY <1>16, CacheTypes DEF Return
  <2>2. Cardinality(Holders') = pool' /\ pool' \in 0..MaxWorkers
    BY <1>16, HoldersReturn DEF Return
  <2> QED  BY <1>16, <2>1, <2>2 DEF Return, Goto, Places, Holding
<1>17. ASSUME NEW t \in Tasks, Deadline(t) PROVE PoolInv'
  <2>1. CacheTypeOK'
    BY <1>17, CacheTypes DEF Deadline
  <2>2. Holders' = Holders
    BY <1>17 DEF Deadline, Holders
  <2> QED  BY <1>17, <2>1, <2>2 DEF Deadline
<1>18. ASSUME NEW t \in Tasks, Listener(t) PROVE PoolInv'
  <2>1. CacheTypeOK'
    BY <1>18, CacheTypes DEF Listener
  <2>2. Holders' = Holders
    BY <1>18 DEF Listener, Holders
  <2> QED  BY <1>18, <2>1, <2>2 DEF Listener
<1>19. ASSUME NEW t \in Tasks, FinishCancel(t) PROVE PoolInv'
  <2>1. CacheTypeOK'
    BY <1>19, CacheTypes DEF FinishCancel, managerVars
  <2>2. Holders' = Holders
    BY <1>19 DEF FinishCancel, managerVars, Holders
  <2> QED  BY <1>19, <2>1, <2>2 DEF FinishCancel, managerVars
<1>20. ASSUME NEW t \in Tasks, GrowOld(t) PROVE PoolInv'
  <2>1. CacheTypeOK'
    BY <1>20, CacheTypes DEF GrowOld, managerVars
  <2>2. Holders' = Holders
    BY <1>20 DEF GrowOld, managerVars, Holders
  <2> QED  BY <1>20, <2>1, <2>2 DEF GrowOld, managerVars
<1>21. ASSUME NEW id \in TaskIDs, CancelTask(id) PROVE PoolInv'
  <2>1. CacheTypeOK'
    BY <1>21 DEF CancelTask, CancelClose, CacheTypeOK
  <2>2. Holders' = Holders
    BY <1>21 DEF CancelTask, managerVars, Holders
  <2> QED  BY <1>21, <2>1, <2>2 DEF CancelTask, managerVars
<1>22. ASSUME Clean PROVE PoolInv'
  <2>1. CacheTypeOK'
    BY <1>22 DEF Clean, CleanExpiredTasks, CacheTypeOK
  <2>2. Holders' = Holders
    BY <1>22 DEF Clean, managerVars, Holders
  <2> QED  BY <1>22, <2>1, <2>2 DEF Clean, managerVars
<1>23. ASSUME UNCHANGED vars PROVE PoolInv'
  <2>1. CacheTypeOK'
    BY <1>23 DEF vars, cacheVars, CacheTypeOK
  <2>2. Holders' = Holders
    BY <1>23 DEF vars, cacheVars, managerVars, Holders
  <2> QED  BY <1>23, <2>1, <2>2 DEF vars, cacheVars, managerVars
<1> QED
  BY <1>1, <1>2, <1>3, <1>4, <1>5, <1>6, <1>7, <1>8, <1>9, <1>10, <1>11, <1>12,
     <1>13, <1>14, <1>15, <1>16, <1>17, <1>18, <1>19, <1>20, <1>21, <1>22, <1>23 DEF Next

LEMMA PoolInitially == Init => PoolInv
<1> SUFFICES ASSUME Init PROVE PoolInv
  OBVIOUS
<1>1. Holders = {}
  BY DEF Init, Holders, Holding
<1>2. TypeOK
  BY WorkersPositive, CacheConstants
  DEF Init, CacheInit, TypeOK, CacheTypeOK, NoResults, NoCallback, Places
<1> QED  BY <1>1, <1>2, FS_EmptySet DEF Init, PoolInv, ItemLeft

LEMMA PoolAlways == Spec => []PoolInv
BY PoolInitially, PoolStep, PTL DEF Spec

\* Type correctness: every variable keeps its type, for any constants.
THEOREM TypeCorrect == Spec => []TypeOK
<1>1. PoolInv => TypeOK
  BY DEF PoolInv
<1> QED  BY <1>1, PoolAlways, PTL

\* The tokens of the pool are those of the goroutines between the send and
\* the deferred receive of executeTask, and there are at most MaxWorkers of
\* them: also when IDs clash, tasks are evicted or executors hang.
THEOREM PoolSafe == Spec => []PoolBound
<1>1. PoolInv => PoolBound
  BY WorkersPositive DEF PoolInv, PoolBound, TypeOK
<1> QED  BY <1>1, PoolAlways, PTL

-----------------------------------------------------------------------------
(***************************************************************************)
(* The inductive invariant of one task, when IDs are unique.               *)
(***************************************************************************)
Cached(t) == cache[IdOf[t]] = t

Before  == {"idle", "rejected", "checked", "queued", "starting"}
Working == {"loop", "item", "store", "judge", "wasCanceled", "markCanceled",
            "judgeDeadline", "markFailed", "markCompleted"}
After   == {"report", "returning", "done"}

\* The status follows the goroutine, up to a cancellation.
StatusFits(t) ==
    /\ pc[t] \in Before => status[t] = "pending"
    /\ pc[t] \in Working => status[t] \in {"running", "canceled"}
    /\ pc[t] = "setError" => status[t] \in {"failed", "canceled"}
    /\ pc[t] \in After => status[t] \in Terminal

\* EndTime is set exactly when the status is an outcome, except while
\* CancelTask is between the two writes.
EndTimeFits(t) ==
    /\ status[t] \in {"pending", "running"} => endTime[t] = "zero"
    /\ status[t] \in Terminal /\ canceling # t => endTime[t] # "zero"
    /\ status[t] \in {"completed", "failed"} => endTime[t] # "zero"

\* Task.Cancel is closed only by a CancelTask, which marks the task next.
CancelFits(t) ==
    /\ status[t] = "pending" => ~cancelClosed[t]
    /\ status[t] = "running" /\ cancelClosed[t] => canceling = t
    /\ canceling = t => /\ status[t] \in {"running", "canceled"}
                        /\ endTime[t] = "zero"

CachedFits(t) == Accepted(t) /\ endTime[t] # "old" => Cached(t)

\* What the end of the loop knows about the items and the context, and what
\* has been stored about them.
WorkFits(t) ==
    /\ pc[t] \in Working => ctx[t] # "none"
    /\ pc[t] \in {"store", "judge"} /\ n[t] # NumItems => ctx[t] # "live"
    /\ pc[t] = "judgeDeadline" /\ n[t] # NumItems => ctx[t] = "deadline"
    /\ pc[t] = "markCompleted" => n[t] = NumItems
    /\ pc[t] \in Working \ {"loop", "item", "store"} /\ Cached(t) =>
            results[t] = [by |-> t, n |-> n[t]]
    /\ status[t] = "completed" => results[t] = [by |-> t, n |-> NumItems]
    /\ pc[t] \in After /\ status[t] = "failed" => err[t]

Agrees(t) ==
    /\ callback[t].status = status[t]
    /\ status[t] \in Terminal
    /\ callback[t].results = results[t]
    /\ status[t] = "failed" => callback[t].err
    /\ status[t] # "canceled" => callback[t].ended

CallbackFits(t) ==
    /\ pc[t] \notin {"returning", "done"} => callback[t].status = "none"
    /\ callback[t].status # "none" => Agrees(t)
    /\ CallbackURL /\ pc[t] \in {"returning", "done"} =>
            callback[t].status # "none"

TaskInv(t) ==
    /\ StatusFits(t)
    /\ EndTimeFits(t)
    /\ CancelFits(t)
    /\ CachedFits(t)
    /\ WorkFits(t)
    /\ CallbackFits(t)

\* A key of the cache holds a task of that ID.
KeysFit == \A id \in TaskIDs : cache[id] # NoTask => IdOf[cache[id]] = id

IInv == PoolInv /\ KeysFit /\ \A t \in Tasks : TaskInv(t)

\* Nothing an action of another task writes is visible to u's invariant.
Same(u) ==
    /\ pc'[u] = pc[u]          /\ n'[u] = n[u]
    /\ ctx'[u] = ctx[u]        /\ err'[u] = err[u]
    /\ status'[u] = status[u]  /\ results'[u] = results[u]
    /\ endTime'[u] = endTime[u]
    /\ cancelClosed'[u] = cancelClosed[u]
    /\ callback'[u] = callback[u]
    /\ cache'[IdOf[u]] = cache[IdOf[u]]
    /\ (canceling' = u) <=> (canceling = u)

LEMMA FrameTask ==
  ASSUME NEW u \in Tasks, TaskInv(u), Same(u)
  PROVE  TaskInv(u)'
BY DEF TaskInv, Same, StatusFits, EndTimeFits, CancelFits, CachedFits,
       WorkFits, CallbackFits, Agrees, Cached, Accepted

\* The steps that belong to task t.
TaskStep(t) ==
    \/ CreateCheck(t)     \/ CreateAdd(t)       \/ Acquire(t)
    \/ MarkRunning(t)     \/ LoopCheck(t)       \/ ItemReturn(t)
    \/ StoreResults(t)    \/ ReadCanceled(t)    \/ ReadStatus(t)
    \/ MarkCanceled(t)    \/ ReadDeadline(t)    \/ MarkFailed(t)
    \/ SetError(t)        \/ MarkCompleted(t)   \/ SendCallback(t)
    \/ Return(t)          \/ Deadline(t)        \/ Listener(t)
    \/ FinishCancel(t)    \/ GrowOld(t)

\* With unique IDs, a step of t touches no other task.
LEMMA OthersSame ==
  ASSUME UniqueIDs, IInv, NEW t \in Tasks, TaskStep(t),
         NEW u \in Tasks, u # t
  PROVE  Same(u)
<1> USE CacheConstants DEF IInv, PoolInv, TypeOK, CacheTypeOK, KeysFit, Same
<1> USE DEF UniqueIDs
<1>0. IdOf[u] # IdOf[t] /\ cache[IdOf[t]] # u
  OBVIOUS
<1>1. CASE CreateCheck(t)  BY <1>0, <1>1 DEF CreateCheck, Goto, cacheVars
<1>2. CASE CreateAdd(t)  BY <1>0, <1>2 DEF CreateAdd, AddTask, Goto
<1>3. CASE Acquire(t)  BY <1>0, <1>3 DEF Acquire, Goto, cacheVars
<1>4. CASE MarkRunning(t)  BY <1>0, <1>4 DEF MarkRunning, UpdateTaskStatus, Goto
<1>5. CASE LoopCheck(t)  BY <1>0, <1>5 DEF LoopCheck, Goto, cacheVars
<1>6. CASE ItemReturn(t)  BY <1>0, <1>6 DEF ItemReturn, Goto, cacheVars
<1>7. CASE StoreResults(t)  BY <1>0, <1>7 DEF StoreResults, UpdateTaskResult, Goto
<1>8. CASE ReadCanceled(t)  BY <1>0, <1>8 DEF ReadCanceled, Goto, cacheVars
<1>9. CASE ReadStatus(t)  BY <1>0, <1>9 DEF ReadStatus, Goto, cacheVars
<1>10. CASE MarkCanceled(t)  BY <1>0, <1>10 DEF MarkCanceled, UpdateTaskStatus, Goto
<1>11. CASE ReadDeadline(t)  BY <1>0, <1>11 DEF ReadDeadline, Goto, cacheVars
<1>12. CASE MarkFailed(t)  BY <1>0, <1>12 DEF MarkFailed, UpdateTaskStatus, Goto
<1>13. CASE SetError(t)  BY <1>0, <1>13 DEF SetError, Goto, cacheVars
<1>14. CASE MarkCompleted(t)  BY <1>0, <1>14 DEF MarkCompleted, UpdateTaskStatus, Goto
<1>15. CASE SendCallback(t)  BY <1>0, <1>15 DEF SendCallback, Goto, cacheVars
<1>16. CASE Return(t)  BY <1>0, <1>16 DEF Return, Goto, cacheVars
<1>17. CASE Deadline(t)  BY <1>0, <1>17 DEF Deadline, cacheVars
<1>18. CASE Listener(t)  BY <1>0, <1>18 DEF Listener, cacheVars
<1>19. CASE FinishCancel(t)  BY <1>0, <1>19 DEF FinishCancel, CancelMarkStatus, CancelMarkEnd, managerVars
<1>20. CASE GrowOld(t)  BY <1>0, <1>20 DEF GrowOld, Age, managerVars
<1> QED
  BY <1>1, <1>2, <1>3, <1>4, <1>5, <1>6, <1>7, <1>8, <1>9, <1>10,
     <1>11, <1>12, <1>13, <1>14, <1>15, <1>16, <1>17, <1>18, <1>19, <1>20
  DEF TaskStep

LEMMA Below ==
  ASSUME NEW k \in Nat, NEW i \in 0..k, i # k
  PROVE  i < k
OBVIOUS

LEMMA OwnStep ==
  ASSUME UniqueIDs, IInv, NEW t \in Tasks, TaskStep(t)
  PROVE  TaskInv(t)'
<1> USE CacheConstants DEF IInv, PoolInv, TypeOK, CacheTypeOK, ItemLeft
<1> USE DEF TaskInv, StatusFits, EndTimeFits, CancelFits, CachedFits,
            WorkFits, CallbackFits, Agrees, Cached, Accepted,
            Before, Working, After
<1>1. CASE CreateCheck(t)
  BY <1>1 DEF CreateCheck, Goto, cacheVars
<1>2. CASE CreateAdd(t)
  BY <1>2 DEF CreateAdd, AddTask, Goto, LockFree
<1>3. CASE Acquire(t)
  BY <1>3 DEF Acquire, Goto, cacheVars
<1>4. CASE MarkRunning(t)
  BY <1>4 DEF MarkRunning, UpdateTaskStatus, Goto, LockFree
<1>5. CASE LoopCheck(t)
  <2>1. n[t] \in 0..NumItems /\ NumItems \in Nat
    OBVIOUS
  <2>2. n[t] # NumItems => n[t] < NumItems
    BY <2>1, Below
  <2>3. CASE n[t] < NumItems /\ ctx[t] = "live"
    BY <1>5, <2>3 DEF LoopCheck, Goto, cacheVars
  <2>4. CASE ~(n[t] < NumItems /\ ctx[t] = "live")
    BY <1>5, <2>2, <2>4 DEF LoopCheck, Goto, cacheVars
  <2> QED  BY <2>3, <2>4
<1>6. CASE ItemReturn(t)
  BY <1>6 DEF ItemReturn, Goto, cacheVars
<1>7. CASE StoreResults(t)
  BY <1>7 DEF StoreResults, UpdateTaskResult, Goto, LockFree
<1>8. CASE ReadCanceled(t)
  BY <1>8 DEF ReadCanceled, Goto, cacheVars
<1>9. CASE ReadStatus(t)
  BY <1>9 DEF ReadStatus, Goto, cacheVars
<1>10. CASE MarkCanceled(t)
  BY <1>10 DEF MarkCanceled, UpdateTaskStatus, Goto, LockFree
<1>11. CASE ReadDeadline(t)
  BY <1>11 DEF ReadDeadline, Goto, cacheVars
<1>12. CASE MarkFailed(t)
  BY <1>12 DEF MarkFailed, UpdateTaskStatus, Goto, LockFree
<1>13. CASE SetError(t)
  BY <1>13 DEF SetError, Goto, cacheVars
<1>14. CASE MarkCompleted(t)
  BY <1>14 DEF MarkCompleted, UpdateTaskStatus, Goto, LockFree
<1>15. CASE SendCallback(t)
  BY <1>15 DEF SendCallback, Goto, cacheVars
<1>16. CASE Return(t)
  BY <1>16 DEF Return, Goto, cacheVars
<1>17. CASE Deadline(t)
  BY <1>17 DEF Deadline, cacheVars
<1>18. CASE Listener(t)
  BY <1>18 DEF Listener, cacheVars
<1>19. CASE FinishCancel(t)
  <2>1. CASE CancelMarkStatus(t)
    <3>1. status[t] = "running" /\ callback[t].status = "none"
      BY <2>1 DEF CancelMarkStatus
    <3>2. pc[t] \in Working /\ status'[t] = "canceled"
      BY <2>1, <3>1 DEF CancelMarkStatus, Places, Holding
    <3> QED
      BY <1>19, <2>1, <3>1, <3>2 DEF FinishCancel, CancelMarkStatus, managerVars
  <2>2. CASE CancelMarkEnd(t)
    BY <1>19, <2>2 DEF FinishCancel, CancelMarkEnd, managerVars
  <2> QED  BY <1>19, <2>1, <2>2 DEF FinishCancel
<1>20. CASE GrowOld(t)
  BY <1>20 DEF GrowOld, Age, managerVars
<1> QED
  BY <1>1, <1>2, <1>3, <1>4, <1>5, <1>6, <1>7, <1>8, <1>9, <1>10,
     <1>11, <1>12, <1>13, <1>14, <1>15, <1>16, <1>17, <1>18, <1>19, <1>20
  DEF TaskStep

\* CancelTask closes the channel of one task and leaves the others alone.
LEMMA CancelStep ==
  ASSUME UniqueIDs, IInv, NEW id \in TaskIDs, CancelTask(id)
  PROVE  \A u \in Tasks : TaskInv(u)'
<1>1. PICK t \in Tasks : cache[id] = t /\ status[t] = "running"
  BY CacheConstants
  DEF CancelTask, CancelClose, IInv, PoolInv, TypeOK, CacheTypeOK
<1>2. /\ LockFree
      /\ canceling' = t
      /\ cancelClosed' = [cancelClosed EXCEPT ![t] = TRUE]
      /\ UNCHANGED <<cache, status, results, endTime, managerVars>>
  BY <1>1 DEF CancelTask, CancelClose
<1>3. ASSUME NEW u \in Tasks, u # t PROVE TaskInv(u)'
  <2>1. Same(u)
    BY <1>1, <1>2, <1>3, CacheConstants
    DEF Same, managerVars, LockFree, IInv, PoolInv, TypeOK, CacheTypeOK
  <2> QED  BY <2>1, <1>3, FrameTask DEF IInv
<1>4. TaskInv(t)'
  BY <1>1, <1>2
  DEF IInv, PoolInv, TypeOK, CacheTypeOK, TaskInv, StatusFits, EndTimeFits,
      CancelFits, CachedFits, WorkFits, CallbackFits, Agrees, Cached,
      Accepted, managerVars
<1> QED  BY <1>3, <1>4

\* The cleaner forgets only tasks whose end is old: the mutex keeps it away
\* from a task that CancelTask has marked but not yet stamped.
LEMMA CleanStep ==
  ASSUME IInv, Clean, NEW u \in Tasks
  PROVE  TaskInv(u)'
<1>1. TaskInv(u) /\ LockFree
  BY DEF IInv, Clean, CleanExpiredTasks
<1>2. u \in Expired => endTime[u] = "old"
  BY <1>1, CacheConstants
  DEF Expired, TaskInv, EndTimeFits, LockFree, IInv, PoolInv, TypeOK,
      CacheTypeOK
<1>3. /\ Cached(u)' => Cached(u)
      /\ Cached(u) /\ endTime[u] # "old" => Cached(u)'
  BY <1>2, CacheConstants DEF Cached, Clean, CleanExpiredTasks
<1> QED
  BY <1>1, <1>3
  DEF Clean, CleanExpiredTasks, managerVars, TaskInv, StatusFits,
      EndTimeFits, CancelFits, CachedFits, WorkFits, CallbackFits, Agrees,
      Accepted

LEMMA KeysStep ==
  ASSUME IInv, Next
  PROVE  KeysFit'
<1> USE CacheConstants DEF IInv, PoolInv, TypeOK, CacheTypeOK, KeysFit
<1>1. ASSUME NEW t \in Tasks, CreateAdd(t) PROVE KeysFit'
  BY <1>1 DEF CreateAdd, AddTask
<1>2. CASE Clean
  BY <1>2 DEF Clean, CleanExpiredTasks
<1>3. CASE UNCHANGED cache
  BY <1>3
<1> QED
  BY <1>1, <1>2, <1>3
  DEF Next, CreateCheck, Acquire, MarkRunning, LoopCheck, ItemReturn,
      StoreResults, ReadCanceled, ReadStatus, MarkCanceled, ReadDeadline,
      MarkFailed, SetError, MarkCompleted, SendCallback, Return, Deadline,
      Listener, FinishCancel, GrowOld, CancelTask, CancelMarkStatus,
      CancelMarkEnd, Age, CancelClose, UpdateTaskStatus, UpdateTaskResult,
      cacheVars

LEMMA InvStep ==
  ASSUME UniqueIDs, IInv, [Next]_vars
  PROVE  IInv'
<1>1. PoolInv'
  BY PoolStep DEF IInv
<1>2. ASSUME NEW t \in Tasks, TaskStep(t), NEW u \in Tasks PROVE TaskInv(u)'
  <2>1. CASE u = t
    BY <1>2, <2>1, OwnStep
  <2>2. CASE u # t
    BY <1>2, <2>2, OthersSame, FrameTask DEF IInv
  <2> QED  BY <2>1, <2>2
<1>3. CASE UNCHANGED vars
  <2>1. \A u \in Tasks : Same(u)
    BY <1>3 DEF vars, cacheVars, managerVars, Same
  <2>2. \A u \in Tasks : TaskInv(u)'
    BY <2>1, FrameTask DEF IInv
  <2>3. KeysFit'
    BY <1>3 DEF vars, cacheVars, IInv, KeysFit
  <2> QED  BY <1>1, <2>2, <2>3 DEF IInv
<1>4. CASE Next
  <2>1. \/ \E t \in Tasks : TaskStep(t)
        \/ \E id \in TaskIDs : CancelTask(id)
        \/ Clean
    BY <1>4 DEF Next, TaskStep
  <2>2. \A u \in Tasks : TaskInv(u)'
    BY <2>1, <1>2, CancelStep, CleanStep
  <2> QED  BY <1>1, <1>4, <2>2, KeysStep DEF IInv
<1> QED  BY <1>3, <1>4

LEMMA InvInitially == Init => IInv
<1> SUFFICES ASSUME Init PROVE IInv
  OBVIOUS
<1>1. KeysFit
  BY CacheConstants DEF Init, CacheInit, KeysFit
<1>2. \A t \in Tasks : TaskInv(t)
  BY CacheConstants
  DEF Init, CacheInit, NoCallback, NoResults, TaskInv, StatusFits,
      EndTimeFits, CancelFits, CachedFits, WorkFits, CallbackFits, Agrees,
      Accepted, Before, Working, After
<1> QED  BY <1>1, <1>2, PoolInitially DEF IInv

LEMMA InvAlways == UniqueIDs /\ Spec => []IInv
<1> SUFFICES ASSUME UniqueIDs PROVE Spec => []IInv
  OBVIOUS
<1>1. IInv /\ [Next]_vars => IInv'
  BY InvStep
<1> QED  BY <1>1, InvInitially, PTL DEF Spec

-----------------------------------------------------------------------------
(***************************************************************************)
(* What the invariant says at any moment.                                  *)
(***************************************************************************)
LEMMA RunningFits == IInv => RunningHoldsToken
BY DEF IInv, PoolInv, TypeOK, CacheTypeOK, TaskInv, StatusFits,
       RunningHoldsToken, Holders, Before, Working, After, Places, Holding

LEMMA CallbacksFit == IInv => CallbackAgrees /\ CallbackIsOutcome
BY DEF IInv, TaskInv, CallbackFits, Agrees, CallbackAgrees, CallbackIsOutcome

LEMMA CompletedFits == IInv => CompletedHasAllResults
BY DEF IInv, TaskInv, WorkFits, CompletedHasAllResults

LEMMA CloseFits == IInv => NoDoubleClose
BY CacheConstants
DEF IInv, PoolInv, TypeOK, CacheTypeOK, TaskInv, CancelFits, LockFree,
    NoDoubleClose

LEMMA RetainedFits == IInv => Retained
BY DEF IInv, TaskInv, CachedFits, Cached, Retained

-----------------------------------------------------------------------------
(***************************************************************************)
(* The safety properties, when callers never use an ID twice.              *)
(***************************************************************************)

\* A task that polls show as running has a goroutine with a token.
THEOREM RunningSafe == UniqueIDs /\ Spec => []RunningHoldsToken
BY RunningFits, InvAlways, PTL

\* What the server is told of a task is its outcome, then and later.
THEOREM CallbackSafe == UniqueIDs /\ Spec => []CallbackAgrees
BY CallbacksFit, InvAlways, PTL

\* The callback is an outcome as long as no ID is used twice: that two calls
\* of CreateTask share one is the only way to post "pending" or "running".
THEOREM OutcomeTold == UniqueIDs /\ Spec => []CallbackIsOutcome
BY CallbacksFit, InvAlways, PTL

\* A completed task has the results of all its items.
THEOREM CompletedSafe == UniqueIDs /\ Spec => []CompletedHasAllResults
BY CompletedFits, InvAlways, PTL

\* CancelTask never closes a channel twice.
THEOREM CloseSafe == UniqueIDs /\ Spec => []NoDoubleClose
BY CloseFits, InvAlways, PTL

\* An accepted task stays in the cache until its end is a day old.
THEOREM RetainedSafe == UniqueIDs /\ Spec => []Retained
BY RetainedFits, InvAlways, PTL

\* A step of a task leaves its status and results alone once it is completed
\* or failed: the goroutine has passed its last write by then.
LEMMA OutcomeStep ==
  ASSUME UniqueIDs, IInv, NEW t \in Tasks, TaskStep(t),
         status[t] \in {"completed", "failed"}
  PROVE  status'[t] = status[t] /\ results'[t] = results[t]
<1>1. pc[t] \notin Before \cup Working /\ canceling # t
  BY DEF IInv, TaskInv, StatusFits, CancelFits
<1> QED
  BY <1>1
  DEF TaskStep, Before, Working, CreateCheck, CreateAdd, AddTask, Acquire,
      MarkRunning, LoopCheck, ItemReturn, StoreResults, ReadCanceled,
      ReadStatus, MarkCanceled, ReadDeadline, MarkFailed, SetError,
      MarkCompleted, SendCallback, Return, Deadline, Listener, FinishCancel,
      CancelMarkStatus, CancelMarkEnd, GrowOld, Age, Goto, cacheVars

LEMMA OutcomesStay ==
  ASSUME UniqueIDs, IInv, Next, NEW t \in Tasks,
         status[t] \in {"completed", "failed"}
  PROVE  status'[t] = status[t] /\ results'[t] = results[t]
<1>1. ASSUME NEW u \in Tasks, TaskStep(u)
      PROVE  status'[t] = status[t] /\ results'[t] = results[t]
  <2>1. CASE u = t
    BY <1>1, <2>1, OutcomeStep
  <2>2. CASE u # t
    BY <1>1, <2>2, OthersSame DEF Same
  <2> QED  BY <2>1, <2>2
<1>2. CASE Clean \/ \E id \in TaskIDs : CancelTask(id)
  BY <1>2 DEF Clean, CleanExpiredTasks, CancelTask, CancelClose
<1> QED  BY <1>1, <1>2 DEF Next, TaskStep

\* Completed and failed tasks never change.
THEOREM OutcomesFinal == UniqueIDs /\ Spec => OutcomeFinal
<1> SUFFICES ASSUME UniqueIDs PROVE Spec => OutcomeFinal
  OBVIOUS
<1> DEFINE Final == \A t \in Tasks : status[t] \in {"completed", "failed"} =>
                        status'[t] = status[t] /\ results'[t] = results[t]
<1>1. IInv /\ [Next]_vars => [Final]_vars
  BY OutcomesStay
<1>2. Spec => []IInv
  BY InvAlways
<1> QED  BY <1>1, <1>2, PTL DEF Spec, OutcomeFinal

-----------------------------------------------------------------------------
(***************************************************************************)
(* TaskManager implements TaskContract.                                    *)
(***************************************************************************)
Phases == [t \in Tasks |-> Phase(t)]
Tolds  == [t \in Tasks |-> callback[t].status]

\* Only t's entries change when t takes a step.
LEMMA ViewStep ==
  ASSUME UniqueIDs, IInv, NEW t \in Tasks, TaskStep(t)
  PROVE  /\ Phases' = [Phases EXCEPT ![t] = Phase(t)']
         /\ Tolds' = [Tolds EXCEPT ![t] = callback'[t].status]
<1>1. ASSUME NEW u \in Tasks, u # t
      PROVE  Phase(u)' = Phase(u) /\ callback'[u] = callback[u]
  BY <1>1, OthersSame DEF Same, Phase
<1> QED  BY <1>1 DEF Phases, Tolds

\* A step that shows nothing new is a stuttering step of the contract.
LEMMA Hidden ==
  ASSUME UniqueIDs, IInv, NEW t \in Tasks, TaskStep(t), Holders' = Holders,
         Phase(t)' = Phase(t), callback'[t] = callback[t]
  PROVE  UNCHANGED Contract!vars
<1>1. Phases' = Phases /\ Tolds' = Tolds
  BY ViewStep DEF Phases, Tolds
<1> QED  BY <1>1 DEF Contract!vars, Phases, Tolds

\* A step that changes only the phase.
LEMMA Becomes ==
  ASSUME UniqueIDs, IInv, NEW t \in Tasks, TaskStep(t), Holders' = Holders,
         callback'[t] = callback[t], NEW p, Phase(t)' = p
  PROVE  Contract!Become(t, p)
<1>1. Phases' = [Phases EXCEPT ![t] = p] /\ Tolds' = Tolds
  BY ViewStep DEF Phases, Tolds
<1> QED  BY <1>1 DEF Contract!Become, Phases, Tolds

\* The goroutine's place gives its phase, its status, and what was told.
LEMMA Known ==
  ASSUME IInv, NEW t \in Tasks
  PROVE  /\ t \in Holders <=> pc[t] \in Holding
         /\ Phases[t] = Phase(t) /\ Tolds[t] = callback[t].status
         /\ pc[t] \notin {"returning", "done"} => callback[t].status = "none"
         /\ pc[t] \in Before => status[t] = "pending"
         /\ pc[t] = "starting" => Cached(t)
         /\ pc[t] \in Working => status[t] \in {"running", "canceled"}
         /\ pc[t] \in After => status[t] \in Terminal
BY DEF IInv, TaskInv, StatusFits, EndTimeFits, CachedFits, CallbackFits,
       Phases, Tolds, Holders, Accepted, Before

LEMMA TaskRefines ==
  ASSUME UniqueIDs, IInv, NEW t \in Tasks, TaskStep(t)
  PROVE  [Contract!Next]_(Contract!vars)
<1> USE Known DEF Before, Working, After
<1>1. TypeOK
  BY DEF IInv, PoolInv
<1>2. CASE LoopCheck(t)
  <2>1. Holders' = Holders
    BY <1>2, <1>1, HoldersSame DEF LoopCheck, Holding
  <2>2. Phase(t)' = Phase(t) /\ callback'[t] = callback[t]
    BY <1>2, <1>1 DEF LoopCheck, cacheVars, Goto, Phase, TypeOK
  <2> QED  BY <2>1, <2>2, Hidden
<1>3. CASE ItemReturn(t)
  <2>1. Holders' = Holders
    BY <1>3, <1>1, HoldersSame DEF ItemReturn, Holding
  <2>2. Phase(t)' = Phase(t) /\ callback'[t] = callback[t]
    BY <1>3, <1>1 DEF ItemReturn, cacheVars, Goto, Phase, TypeOK
  <2> QED  BY <2>1, <2>2, Hidden
<1>4. CASE StoreResults(t)
  <2>1. Holders' = Holders
    BY <1>4, <1>1, HoldersSame DEF StoreResults, Holding
  <2>2. Phase(t)' = Phase(t) /\ callback'[t] = callback[t]
    BY <1>4, <1>1 DEF StoreResults, UpdateTaskResult, Goto, Phase, TypeOK
  <2> QED  BY <2>1, <2>2, Hidden
<1>5. CASE ReadCanceled(t)
  <2>1. Holders' = Holders
    BY <1>5, <1>1, HoldersSame DEF ReadCanceled, Holding
  <2>2. Phase(t)' = Phase(t) /\ callback'[t] = callback[t]
    BY <1>5, <1>1 DEF ReadCanceled, cacheVars, Goto, Phase, TypeOK
  <2> QED  BY <2>1, <2>2, Hidden
<1>6. CASE ReadStatus(t)
  <2>1. Holders' = Holders
    BY <1>6, <1>1, HoldersSame DEF ReadStatus, Holding
  <2>2. Phase(t)' = Phase(t) /\ callback'[t] = callback[t]
    BY <1>6, <1>1 DEF ReadStatus, cacheVars, Goto, Phase, TypeOK
  <2> QED  BY <2>1, <2>2, Hidden
<1>7. CASE ReadDeadline(t)
  <2>1. Holders' = Holders
    BY <1>7, <1>1, HoldersSame DEF ReadDeadline, Holding
  <2>2. Phase(t)' = Phase(t) /\ callback'[t] = callback[t]
    BY <1>7, <1>1 DEF ReadDeadline, cacheVars, Goto, Phase, TypeOK
  <2> QED  BY <2>1, <2>2, Hidden
<1>8. CASE SetError(t)
  <2>1. Holders' = Holders
    BY <1>8, <1>1, HoldersSame DEF SetError, Holding
  <2>2. Phase(t)' = Phase(t) /\ callback'[t] = callback[t]
    BY <1>8, <1>1 DEF SetError, cacheVars, Goto, Phase, TypeOK
  <2> QED  BY <2>1, <2>2, Hidden
<1>9. CASE Deadline(t) \/ Listener(t) \/ GrowOld(t)
  <2>1. Holders' = Holders
    BY <1>9 DEF Deadline, Listener, GrowOld, managerVars, Holders
  <2>2. Phase(t)' = Phase(t) /\ callback'[t] = callback[t]
    BY <1>9 DEF Deadline, Listener, GrowOld, Age, cacheVars, managerVars, Phase
  <2> QED  BY <2>1, <2>2, Hidden
<1>10. CASE CreateCheck(t)
  <2>1. Holders' = Holders
    BY <1>10, <1>1, HoldersSame DEF CreateCheck, Holding
  <2>2. Phase(t) = "new" /\ callback'[t] = callback[t]
    BY <1>10 DEF CreateCheck, Goto, Phase
  <2>3. Phase(t)' \in {"new", "refused"}
    BY <1>10, <1>1 DEF CreateCheck, Goto, Phase, TypeOK
  <2>4. CASE Phase(t)' = "new"
    BY <2>1, <2>2, <2>4, Hidden
  <2>5. CASE Phase(t)' = "refused"
    BY <2>1, <2>2, <2>5, Becomes DEF Contract!Next, Contract!Submit, Phases
  <2> QED  BY <2>3, <2>4, <2>5
<1>11. CASE CreateAdd(t)
  <2>1. Holders' = Holders
    BY <1>11, <1>1, HoldersSame DEF CreateAdd, Holding
  <2>2. Phase(t) = "new" /\ Phase(t)' = "pending" /\ callback'[t] = callback[t]
    BY <1>11, <1>1 DEF CreateAdd, AddTask, Goto, Phase, Cached, TypeOK, CacheTypeOK
  <2>3. Contract!Submit(t)
    BY <1>11, <2>1, <2>2, Becomes
    DEF Contract!Submit, Phases, CreateAdd, Goto, Holders, Holding
  <2> QED  BY <2>3 DEF Contract!Next
<1>12. CASE MarkRunning(t)
  <2>1. Holders' = Holders
    BY <1>12, <1>1, HoldersSame DEF MarkRunning, Holding
  <2>2. Phase(t) = "pending" /\ Phase(t)' = "running" /\ callback'[t] = callback[t]
    BY <1>12, <1>1 DEF MarkRunning, UpdateTaskStatus, Goto, Phase, Cached, TypeOK, CacheTypeOK
  <2>3. Contract!Start(t)
    BY <1>12, <2>1, <2>2, Becomes
    DEF Contract!Start, Phases, MarkRunning, Goto, Holders, Holding
  <2> QED  BY <2>3 DEF Contract!Next
<1>13. CASE MarkCanceled(t)
  <2>1. Holders' = Holders
    BY <1>13, <1>1, HoldersSame DEF MarkCanceled, Holding
  <2>2. Phase(t) \in {"running", "canceled"} /\ callback'[t] = callback[t]
    BY <1>13 DEF MarkCanceled, Goto, Phase
  <2>3. Phase(t)' \in {Phase(t), "canceled"}
    BY <1>13, <1>1 DEF MarkCanceled, UpdateTaskStatus, Goto, Phase, TypeOK
  <2>4. CASE Phase(t) = "running" /\ Phase(t)' = "canceled"
    <3>1. Contract!Cancel(t)
      BY <1>13, <2>1, <2>2, <2>4, Becomes
      DEF Contract!Cancel, Phases, MarkCanceled, Goto, Holders, Holding
    <3> QED  BY <3>1 DEF Contract!Next
  <2>5. \/ Phase(t)' = Phase(t)
        \/ Phase(t) = "running" /\ Phase(t)' = "canceled"
    BY <2>3, <2>2
  <2> QED  BY <2>1, <2>2, <2>4, <2>5, Hidden
<1>14. CASE MarkFailed(t)
  <2>1. Holders' = Holders
    BY <1>14, <1>1, HoldersSame DEF MarkFailed, Holding
  <2>2. Phase(t) \in {"running", "canceled"} /\ callback'[t] = callback[t]
    BY <1>14 DEF MarkFailed, Goto, Phase
  <2>3. Phase(t)' \in {Phase(t), "failed"}
    BY <1>14, <1>1 DEF MarkFailed, UpdateTaskStatus, Goto, Phase, TypeOK
  <2>4. CASE Phase(t)' = "failed"
    <3>1. Contract!Settle(t)
      BY <1>14, <2>1, <2>2, <2>4, Becomes
      DEF Contract!Settle, Phases, Tolds, MarkFailed, Goto, Holders, Holding
    <3> QED  BY <3>1 DEF Contract!Next
  <2> QED  BY <2>1, <2>2, <2>3, <2>4, Hidden
<1>15. CASE MarkCompleted(t)
  <2>1. Holders' = Holders
    BY <1>15, <1>1, HoldersSame DEF MarkCompleted, Holding
  <2>2. Phase(t) \in {"running", "canceled"} /\ callback'[t] = callback[t]
    BY <1>15 DEF MarkCompleted, Goto, Phase
  <2>3. Phase(t)' \in {Phase(t), "completed"}
    BY <1>15, <1>1 DEF MarkCompleted, UpdateTaskStatus, Goto, Phase, TypeOK
  <2>4. CASE Phase(t)' = "completed"
    <3>1. Contract!Settle(t)
      BY <1>15, <2>1, <2>2, <2>4, Becomes
      DEF Contract!Settle, Phases, Tolds, MarkCompleted, Goto, Holders, Holding
    <3> QED  BY <3>1 DEF Contract!Next
  <2> QED  BY <2>1, <2>2, <2>3, <2>4, Hidden
<1>16. CASE Acquire(t)
  <2>1. Holders' = Holders \cup {t} /\ t \notin Holders
    BY <1>16, <1>1 DEF Acquire, Goto, Holders, Holding, TypeOK
  <2>2. /\ Phase(t) = "pending" /\ Phase(t)' = Phase(t)
        /\ callback'[t] = callback[t] /\ callback[t].status = "none"
    BY <1>16, <1>1 DEF Acquire, Goto, Phase, cacheVars, TypeOK
  <2>3. Phases' = Phases /\ Tolds' = Tolds
    BY <2>2, ViewStep DEF Phases, Tolds
  <2>4. Cardinality(Holders) < MaxWorkers
    BY <1>16 DEF Acquire, IInv, PoolInv
  <2>5. Contract!Cardinality(Holders) = Cardinality(Holders)
    BY DEF Contract!Cardinality, Cardinality
  <2>6. Contract!Assign(t)
    BY <2>1, <2>2, <2>3, <2>4, <2>5 DEF Contract!Assign, Phases, Tolds
  <2> QED  BY <2>6 DEF Contract!Next
<1>17. CASE SendCallback(t)
  <2>1. Holders' = Holders
    BY <1>17, <1>1, HoldersSame DEF SendCallback, Holding
  <2>2. Phase(t)' = Phase(t) /\ Phase(t) = status[t]
    BY <1>17, <1>1 DEF SendCallback, Goto, Phase, cacheVars, TypeOK
  <2>3. CASE callback' = callback
    BY <2>1, <2>2, <2>3, Hidden
  <2>4. CASE callback'[t].status = status[t]
    <3>1. Phases' = Phases /\ Tolds' = [Tolds EXCEPT ![t] = Phases[t]]
      BY <2>2, <2>4, ViewStep DEF Phases
    <3>2. Contract!Report(t)
      BY <1>17, <2>1, <2>2, <3>1
      DEF Contract!Report, Contract!Outcomes, Phases, Tolds, SendCallback,
          Goto, Holders, Holding
    <3> QED  BY <3>2 DEF Contract!Next
  <2> QED  BY <1>17, <1>1, <2>3, <2>4 DEF SendCallback, TypeOK
<1>18. CASE Return(t)
  <2>1. Holders' = Holders \ {t} /\ t \in Holders
    BY <1>18, <1>1 DEF Return, Goto, Holders, Holding, TypeOK
  <2>2. Phase(t)' = Phase(t) /\ callback'[t] = callback[t]
    BY <1>18, <1>1 DEF Return, Goto, Phase, cacheVars, TypeOK
  <2>3. Phases' = Phases /\ Tolds' = Tolds
    BY <2>2, ViewStep DEF Phases, Tolds
  <2>4. Phase(t) \in Terminal
    BY <1>18 DEF Return, Goto, Phase
  <2>5. Contract!Release(t)
    BY <2>1, <2>3, <2>4 DEF Contract!Release, Contract!Outcomes, Phases, Tolds
  <2> QED  BY <2>5 DEF Contract!Next
<1>19. CASE FinishCancel(t)
  <2>1. Holders' = Holders /\ callback'[t] = callback[t]
    BY <1>19 DEF FinishCancel, managerVars, Holders
  <2>2. CASE CancelMarkEnd(t)
    <3>1. Phase(t)' = Phase(t)
      BY <1>19, <2>2 DEF FinishCancel, CancelMarkEnd, managerVars, Phase
    <3> QED  BY <2>1, <3>1, Hidden
  <2>3. CASE CancelMarkStatus(t)
    <3>1. status[t] = "running" /\ status'[t] = "canceled"
      BY <2>3, <1>1
      DEF CancelMarkStatus, IInv, TaskInv, CancelFits, TypeOK, CacheTypeOK
    <3>2. pc[t] \in Working
      BY <1>1, <3>1
      DEF IInv, TaskInv, StatusFits, TypeOK, Places, Holding
    <3>3. Phase(t) = "running" /\ Phase(t)' = "canceled"
      BY <1>19, <3>1, <3>2 DEF FinishCancel, managerVars, Phase
    <3>4. Contract!Cancel(t)
      BY <2>1, <3>2, <3>3, Becomes
      DEF Contract!Cancel, Phases, Holders, Holding
    <3> QED  BY <3>4 DEF Contract!Next
  <2> QED  BY <1>19, <2>2, <2>3 DEF FinishCancel
<1> QED
  BY <1>2, <1>3, <1>4, <1>5, <1>6, <1>7, <1>8, <1>9, <1>10,
     <1>11, <1>12, <1>13, <1>14, <1>15, <1>16, <1>17, <1>18, <1>19
  DEF TaskStep

\* Every step of the manager is a step of the contract or hidden by it.
LEMMA StepRefines ==
  ASSUME UniqueIDs, IInv, [Next]_vars
  PROVE  [Contract!Next]_(Contract!vars)
<1>1. CASE \E t \in Tasks : TaskStep(t)
  BY <1>1, TaskRefines
<1>2. CASE \/ Clean
           \/ \E id \in TaskIDs : CancelTask(id)
           \/ UNCHANGED vars
  <2>1. UNCHANGED <<pc, status, callback>>
    BY <1>2 DEF Clean, CleanExpiredTasks, CancelTask, CancelClose,
                managerVars, vars, cacheVars
  <2> QED  BY <2>1 DEF Contract!vars, Phase, Holders
<1> QED  BY <1>1, <1>2 DEF Next, TaskStep

LEMMA ContractInitially == Init => Contract!Init
BY DEF Init, CacheInit, NoCallback, Phase, Holders, Holding, Contract!Init

\* Refinement: with unique IDs, every behaviour of the manager is, seen
\* through polls and callbacks, a behaviour of the contract.
THEOREM Refines == UniqueIDs /\ Spec => KeepsContract
<1> SUFFICES ASSUME UniqueIDs PROVE Spec => KeepsContract
  OBVIOUS
<1>1. Init => Contract!Init
  BY ContractInitially
<1>2. IInv /\ [Next]_vars => [Contract!Next]_(Contract!vars)
  BY StepRefines
<1>3. Spec => []IInv
  BY InvAlways
<1> QED  BY <1>1, <1>2, <1>3, PTL DEF Spec, KeepsContract, Contract!Spec

-----------------------------------------------------------------------------
(***************************************************************************)
(* Cancellations.                                                          *)
(***************************************************************************)

\* Where a cancellation that the goroutine hears leads to.
HeardOrOver(t) == Heard(t) \/ (pc[t] \in After /\ status[t] = "canceled")

LEMMA HeardOwnStep ==
  ASSUME UniqueIDs, IInv, NEW t \in Tasks, HeardOrOver(t), TaskStep(t)
  PROVE  HeardOrOver(t)'
<1> USE DEF IInv, PoolInv, TypeOK, CacheTypeOK
<1>1. TaskInv(t)'
  BY OwnStep
<1>2. CASE LoopCheck(t) \/ ItemReturn(t) \/ ReadCanceled(t) \/ ReadStatus(t)
  BY <1>2 DEF LoopCheck, ItemReturn, ReadCanceled, ReadStatus, Goto, cacheVars,
              HeardOrOver, Heard, After
<1>3. CASE StoreResults(t)
  BY <1>3 DEF StoreResults, UpdateTaskResult, Goto, HeardOrOver, Heard, After
<1>4. CASE MarkCanceled(t)
  <2>1. pc'[t] = "report" /\ status'[t] \in {status[t], "canceled"}
    BY <1>4 DEF MarkCanceled, UpdateTaskStatus, Goto
  <2>2. status[t] \in {"running", "canceled"} /\ status'[t] \in Terminal
    BY <1>1, <1>4, <2>1
    DEF MarkCanceled, Goto, TaskInv, StatusFits, Working, After
  <2> QED  BY <2>1, <2>2 DEF HeardOrOver, After
<1>5. CASE SendCallback(t) \/ Return(t)
  BY <1>5 DEF SendCallback, Return, Goto, cacheVars, HeardOrOver, Heard, After
<1>6. CASE FinishCancel(t) \/ GrowOld(t)
  BY <1>6 DEF FinishCancel, CancelMarkStatus, CancelMarkEnd, GrowOld, Age,
              managerVars, HeardOrOver, Heard, After
<1>7. CASE Deadline(t) \/ Listener(t)
  BY <1>7 DEF Deadline, Listener, cacheVars, HeardOrOver, Heard, After
<1>8. CASE \/ CreateCheck(t)  \/ CreateAdd(t)  \/ Acquire(t)
           \/ MarkRunning(t)  \/ ReadDeadline(t)
           \/ MarkFailed(t)   \/ SetError(t)   \/ MarkCompleted(t)
  BY <1>8 DEF CreateCheck, CreateAdd, Acquire, MarkRunning, ReadDeadline,
              MarkFailed, SetError, MarkCompleted, Goto, HeardOrOver, Heard,
              After
<1> QED  BY <1>2, <1>3, <1>4, <1>5, <1>6, <1>7, <1>8 DEF TaskStep

LEMMA HeardStep ==
  ASSUME UniqueIDs, IInv, [Next]_vars, NEW t \in Tasks, HeardOrOver(t)
  PROVE  HeardOrOver(t)'
<1>1. ASSUME NEW u \in Tasks, TaskStep(u) PROVE HeardOrOver(t)'
  <2>1. CASE u = t
    BY <1>1, <2>1, HeardOwnStep
  <2>2. CASE u # t
    BY <1>1, <2>2, OthersSame DEF Same, HeardOrOver, Heard
  <2> QED  BY <2>1, <2>2
<1>2. CASE \/ Clean
           \/ \E id \in TaskIDs : CancelTask(id)
           \/ UNCHANGED vars
  BY <1>2 DEF Clean, CleanExpiredTasks, CancelTask, CancelClose, managerVars,
              vars, cacheVars, HeardOrOver, Heard
<1> QED  BY <1>1, <1>2 DEF Next, TaskStep

\* A cancellation that ends the context before executeTask looks at it is
\* final: no later read or write of the goroutine makes another outcome of it.
THEOREM HeardSafe == UniqueIDs /\ Spec => HeardIsFinal
<1> SUFFICES ASSUME UniqueIDs PROVE Spec => HeardIsFinal
  OBVIOUS
<1>1. ASSUME NEW t \in Tasks PROVE Spec => StaysHeard(t)
  <2>1. Heard(t) => HeardOrOver(t)
    BY DEF HeardOrOver
  <2>2. IInv /\ [Next]_vars /\ HeardOrOver(t) => HeardOrOver(t)'
    BY HeardStep
  <2>3. IInv /\ HeardOrOver(t) => status[t] \in {"running", "canceled"}
    BY DEF IInv, TaskInv, StatusFits, Working, HeardOrOver, Heard
  <2>4. Spec => []IInv
    BY InvAlways
  <2> QED  BY <2>1, <2>2, <2>3, <2>4, PTL DEF Spec, StaysHeard
<1>2. Spec => \A t \in Tasks : StaysHeard(t)
  BY <1>1
<1> QED  BY <1>2 DEF HeardIsFinal

-----------------------------------------------------------------------------
(***************************************************************************)
(* Progress.  The prover takes ENABLED as it stands, so these theorems     *)
(* take as a premise what its definition says of three kinds of steps:     *)
(* that they are possible when their guards hold.                          *)
(***************************************************************************)
GuardsOf(t) ==
    /\ pc[t] = "queued" /\ pool < MaxWorkers => CanGoOn(t)
    /\ pc[t] \in Holding \ {"item"} /\ LockFree => CanGoOn(t)
    /\ canceling = t => CanFinish(t)

TaskGuards == \A t \in Tasks : GuardsOf(t)

\* A pool without a free token has a goroutine that holds one.
LEMMA FullPoolIsHeld ==
  ASSUME PoolInv, ~(pool < MaxWorkers)
  PROVE  \E u \in Tasks : pc[u] \in Holding
<1>1. Cardinality(Holders) # 0
  BY WorkersPositive DEF PoolInv, TypeOK
<1>2. Holders # {}
  BY <1>1, FS_EmptySet
<1> QED  BY <1>2 DEF Holders

\* The mutex and the pool never make everybody wait for everybody:
\* for any number of tasks and workers, also with shared IDs.
THEOREM StuckNever == Spec /\ []TaskGuards => []NeverStuck
<1>1. PoolInv /\ TaskGuards => NeverStuck
  <2> SUFFICES ASSUME PoolInv, TaskGuards,
                      NEW t \in Tasks, Accepted(t), pc[t] # "done"
               PROVE  \E u \in Tasks :
                        CanGoOn(u) \/ CanFinish(u) \/ pc[u] = "item"
    BY DEF NeverStuck
  <2>1. CASE ~LockFree
    <3>1. canceling \in Tasks
      BY <2>1 DEF LockFree, PoolInv, TypeOK, CacheTypeOK
    <3> QED  BY <3>1 DEF TaskGuards, GuardsOf
  <2>2. ASSUME LockFree, NEW u \in Tasks, pc[u] \in Holding
        PROVE  CanGoOn(u) \/ pc[u] = "item"
    BY <2>2 DEF TaskGuards, GuardsOf
  <2>3. pc[t] = "queued" \/ pc[t] \in Holding
    BY DEF Accepted, PoolInv, TypeOK, Places
  <2>4. CASE pc[t] = "queued" /\ pool < MaxWorkers
    BY <2>4 DEF TaskGuards, GuardsOf
  <2>5. CASE ~(pool < MaxWorkers)
    BY <2>1, <2>2, <2>5, FullPoolIsHeld
  <2> QED  BY <2>1, <2>2, <2>3, <2>4, <2>5
<1> QED  BY <1>1, PoolAlways, PTL

\* On the way from the close of Task.Cancel to an outcome.
Marking(t) == cancelClosed[t] /\ canceling = t /\ status[t] = "running"
Settled(t) == cancelClosed[t] /\ status[t] \in Terminal

LEMMA ClosedFits ==
  ASSUME IInv, NEW t \in Tasks, cancelClosed[t]
  PROVE  Marking(t) \/ Settled(t)
BY DEF IInv, PoolInv, TypeOK, CacheTypeOK, TaskInv, CancelFits, Marking,
       Settled

LEMMA SettledOwnStep ==
  ASSUME UniqueIDs, IInv, NEW t \in Tasks, TaskStep(t), cancelClosed[t]
  PROVE  /\ cancelClosed'[t]
         /\ status[t] \in Terminal => status'[t] \in Terminal
<1> USE DEF IInv, PoolInv, TypeOK, CacheTypeOK
<1>1. status[t] # "pending" /\ pc[t] \notin Before
  BY DEF TaskInv, StatusFits, CancelFits
<1> QED
  BY <1>1
  DEF TaskStep, Before, CreateCheck, CreateAdd, AddTask, Acquire,
      MarkRunning, LoopCheck, ItemReturn, StoreResults, ReadCanceled,
      ReadStatus, MarkCanceled, ReadDeadline, MarkFailed, SetError,
      MarkCompleted, SendCallback, Return, Deadline, Listener, FinishCancel,
      CancelMarkStatus, CancelMarkEnd, GrowOld, Age, Goto, cacheVars,
      UpdateTaskStatus, UpdateTaskResult, managerVars

LEMMA SettledStep ==
  ASSUME UniqueIDs, IInv, [Next]_vars, NEW t \in Tasks, cancelClosed[t]
  PROVE  /\ cancelClosed'[t]
         /\ status[t] \in Terminal => status'[t] \in Terminal
<1>1. ASSUME NEW u \in Tasks, TaskStep(u)
      PROVE  /\ cancelClosed'[t]
             /\ status[t] \in Terminal => status'[t] \in Terminal
  <2>1. CASE u = t
    BY <1>1, <2>1, SettledOwnStep
  <2>2. CASE u # t
    BY <1>1, <2>2, OthersSame DEF Same
  <2> QED  BY <2>1, <2>2
<1>2. CASE \E id \in TaskIDs : CancelTask(id)
  BY <1>2 DEF CancelTask, CancelClose, IInv, PoolInv, TypeOK, CacheTypeOK
<1>3. CASE Clean \/ UNCHANGED vars
  BY <1>3 DEF Clean, CleanExpiredTasks, vars, cacheVars
<1> QED  BY <1>1, <1>2, <1>3 DEF Next, TaskStep

\* A successful CancelTask settles the task for good, with an executor that
\* hangs as well, for any number of tasks.
THEOREM CancelsSettle ==
  UniqueIDs /\ FairSpec /\ []TaskGuards => CancelSettles
<1> SUFFICES ASSUME UniqueIDs PROVE FairSpec /\ []TaskGuards => CancelSettles
  OBVIOUS
<1>1. ASSUME NEW t \in Tasks PROVE FairSpec /\ []TaskGuards => Settles(t)
  <2>1. IInv /\ cancelClosed[t] => Marking(t) \/ Settled(t)
    BY ClosedFits
  <2>2. IInv /\ IInv' /\ [Next]_vars /\ Marking(t) => (Marking(t) \/ Settled(t))'
    <3>1. IInv' /\ cancelClosed'[t] => (Marking(t) \/ Settled(t))'
      BY DEF IInv, PoolInv, TypeOK, CacheTypeOK, TaskInv, CancelFits, Marking,
             Settled
    <3> QED  BY <3>1, SettledStep DEF Marking
  <2>3. IInv /\ [Next]_vars /\ Settled(t) => Settled(t)'
    BY SettledStep DEF Settled
  <2>4. IInv /\ Marking(t) /\ <<FinishCancel(t)>>_<<status, canceling>>
        => Settled(t)'
    BY DEF Marking, Settled, FinishCancel, CancelMarkStatus, CancelMarkEnd,
           IInv, PoolInv, TypeOK, CacheTypeOK
  <2>5. TaskGuards /\ Marking(t) => CanFinish(t)
    BY DEF TaskGuards, GuardsOf, Marking
  <2>6. Settled(t) => status[t] \in Terminal
    BY DEF Settled
  <2>7. Fairness => FairTo(t)
    BY DEF Fairness
  <2>8. Spec => []IInv
    BY InvAlways
  <2> QED
    BY <2>1, <2>2, <2>3, <2>4, <2>5, <2>6, <2>7, <2>8, PTL
    DEF FairSpec, Spec, FairTo, CanFinish, Settles
<1>2. FairSpec /\ []TaskGuards => \A t \in Tasks : Settles(t)
  BY <1>1
<1> QED  BY <1>2 DEF CancelSettles
=============================================================================
