------------------------------ MODULE TaskCache ------------------------------
(***************************************************************************)
(* The in-memory task cache of the agent (biz/model/task.go): the map from *)
(* task IDs to *Task objects, the fields of those objects that several     *)
(* goroutines touch, and the operations that run under TaskCache.mutex.    *)
(*                                                                         *)
(* The cache hands out pointers, so an object that has been evicted or     *)
(* overwritten lives on for whoever still holds it.  The map (cache) and   *)
(* the objects (status, results, endTime, cancelClosed) are therefore      *)
(* different variables, and every update "by ID" reaches whatever object   *)
(* the map names at that moment.                                           *)
(***************************************************************************)
EXTENDS Integers, FiniteSets

CONSTANTS
    Tasks,      \* the *model.Task objects: one per call of CreateTask
    TaskIDs,    \* the task IDs callers use
    IdOf,       \* the ID each call uses; two calls may use the same one
    NumItems,   \* len(task.Items)
    NoTask      \* "no such key"; also "nobody is inside CancelTask"

ASSUME CacheConstants ==
    /\ IdOf \in [Tasks -> TaskIDs]
    /\ NumItems \in Nat
    /\ NoTask \notin Tasks
    /\ IsFiniteSet(Tasks)

VARIABLES
    cache,          \* TaskCache.tasks
    status,         \* Task.Status
    results,        \* Task.Results: who stored them and how many there are
    endTime,        \* Task.EndTime: zero value, set, or set 24 hours ago
    cancelClosed,   \* the channel Task.Cancel has been closed
    canceling       \* the object whose CancelTask is inside the mutex

cacheVars == <<cache, status, results, endTime, cancelClosed, canceling>>

Terminal == {"completed", "failed", "canceled"}
Statuses == {"pending", "running"} \cup Terminal
EndTimes == {"zero", "recent", "old"}
Results  == [by : Tasks \cup {NoTask}, n : 0..NumItems]

NoResults == [by |-> NoTask, n |-> 0]

CacheTypeOK ==
    /\ cache \in [TaskIDs -> Tasks \cup {NoTask}]
    /\ status \in [Tasks -> Statuses]
    /\ results \in [Tasks -> Results]
    /\ endTime \in [Tasks -> EndTimes]
    /\ cancelClosed \in [Tasks -> BOOLEAN]
    /\ canceling \in Tasks \cup {NoTask}

\* NewTaskCache, and the fields CreateTask gives to a fresh Task.
CacheInit ==
    /\ cache = [id \in TaskIDs |-> NoTask]
    /\ status = [t \in Tasks |-> "pending"]
    /\ results = [t \in Tasks |-> NoResults]
    /\ endTime = [t \in Tasks |-> "zero"]
    /\ cancelClosed = [t \in Tasks |-> FALSE]
    /\ canceling = NoTask

(***************************************************************************)
(* TaskCache.mutex.  Every operation below except CancelTask is one step,  *)
(* so the mutex is visible only while CancelTask is between its writes:    *)
(* goroutines that read a Task without the mutex can see those.            *)
(***************************************************************************)
LockFree == canceling = NoTask

(***************************************************************************)
(* Mutated forms of some operations below: plausible bugs that the         *)
(* properties must detect.  No specification uses them.                    *)
(***************************************************************************)

\* CancelTask without the check that the task is running.
CancelClose_AnyStatus(id) ==
    /\ LockFree
    /\ cache[id] # NoTask
    /\ ~cancelClosed[cache[id]]
    /\ cancelClosed' = [cancelClosed EXCEPT ![cache[id]] = TRUE]
    /\ canceling' = cache[id]
    /\ UNCHANGED <<cache, status, results, endTime>>

\* CancelTask forgets to write the status.
CancelMarkStatus_Missing(t) ==
    /\ canceling = t
    /\ endTime' = [endTime EXCEPT ![t] = "recent"]
    /\ canceling' = NoTask
    /\ UNCHANGED <<cache, status, results, cancelClosed>>

\* The cleaner looks at the age only.
Expired_AnyStatus == {t \in Tasks : endTime[t] # "recent"}

\* GetTask: the lookup, under the read lock.
GetTask(id) == cache[id]

\* AddTask: whatever the key held before is overwritten.
AddTask(t) ==
    /\ LockFree
    /\ cache' = [cache EXCEPT ![IdOf[t]] = t]
    /\ UNCHANGED <<status, results, endTime, cancelClosed, canceling>>

\* UpdateTaskStatus: a missing key changes nothing (the caller ignores FALSE).
UpdateTaskStatus(id, s) ==
    /\ LockFree
    /\ status' = [t \in Tasks |-> IF cache[id] = t THEN s ELSE status[t]]
    /\ endTime' = [t \in Tasks |-> IF cache[id] = t /\ s \in Terminal
                                   THEN "recent" ELSE endTime[t]]
    /\ UNCHANGED <<cache, results, cancelClosed, canceling>>

\* UpdateTaskResult: the same, for the results.
UpdateTaskResult(id, r) ==
    /\ LockFree
    /\ results' = [t \in Tasks |-> IF cache[id] = t THEN r ELSE results[t]]
    /\ UNCHANGED <<cache, status, endTime, cancelClosed, canceling>>

(***************************************************************************)
(* CancelTask, in the three writes it makes under the mutex.  A second     *)
(* close of Task.Cancel would panic; the deferred Unlock runs and nothing  *)
(* has been written, so that call is a stuttering step (~cancelClosed is   *)
(* no check in the code, and NoDoubleClose says it is never needed).       *)
(***************************************************************************)
CancelClose(id) ==
    /\ LockFree
    /\ cache[id] # NoTask
    /\ status[cache[id]] = "running"
    /\ ~cancelClosed[cache[id]]
    /\ cancelClosed' = [cancelClosed EXCEPT ![cache[id]] = TRUE]
    /\ canceling' = cache[id]
    /\ UNCHANGED <<cache, status, results, endTime>>

CancelMarkStatus(t) ==
    /\ canceling = t
    /\ status[t] # "canceled"
    /\ status' = [status EXCEPT ![t] = "canceled"]
    /\ UNCHANGED <<cache, results, endTime, cancelClosed, canceling>>

CancelMarkEnd(t) ==
    /\ canceling = t
    /\ status[t] = "canceled"
    /\ endTime' = [endTime EXCEPT ![t] = "recent"]
    /\ canceling' = NoTask
    /\ UNCHANGED <<cache, status, results, cancelClosed>>

\* What the cleaner may remove: EndTime + maxAge before now.  The zero time
\* is long past.
Expired == {t \in Tasks : status[t] \in Terminal /\ endTime[t] # "recent"}

\* cleanExpiredTasks: one pass over the map, under the mutex.
CleanExpiredTasks ==
    /\ LockFree
    /\ \E id \in TaskIDs : cache[id] \in Expired
    /\ cache' = [id \in TaskIDs |-> IF cache[id] \in Expired
                                    THEN NoTask ELSE cache[id]]
    /\ UNCHANGED <<status, results, endTime, cancelClosed, canceling>>

\* maxAge (24 hours) has passed since EndTime was set.
Age(t) ==
    /\ endTime[t] = "recent"
    /\ endTime' = [endTime EXCEPT ![t] = "old"]
    /\ UNCHANGED <<cache, status, results, cancelClosed, canceling>>
=============================================================================
