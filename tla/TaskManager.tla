----------------------------- MODULE TaskManager -----------------------------
(***************************************************************************)
(* The asynchronous task manager (biz/service/task_manager.go) on top of   *)
(* the task cache: CreateTask in two steps (look up, then add), one        *)
(* goroutine per task that takes a worker token, runs the items under a    *)
(* context with a deadline, decides the outcome and posts one callback,    *)
(* the goroutine that turns Task.Cancel into a cancelled context, callers  *)
(* of CancelTask, and the cache's cleaner.                                 *)
(*                                                                         *)
(* pc[t] is where the goroutine of task object t is: before that, where    *)
(* the CreateTask call that makes the object is.                           *)
(***************************************************************************)
EXTENDS TaskCache

CONSTANTS
    ConfiguredWorkers,  \* task_manager.max_workers of the configuration
    CallbackURL,        \* whether server.callback_url is configured
    Deaf                \* tasks with an executor that may never return

ASSUME ManagerConstants ==
    /\ ConfiguredWorkers \in Int
    /\ CallbackURL \in BOOLEAN
    /\ Deaf \subseteq Tasks

\* GetTaskManager: zero and negative settings mean ten workers.
MaxWorkers == IF ConfiguredWorkers <= 0 THEN 10 ELSE ConfiguredWorkers

VARIABLES
    pc,         \* control state of each task's goroutine
    n,          \* results gathered so far by the goroutine
    ctx,        \* the task's context: none yet, live, or why it ended
    pool,       \* tokens in the channel workerPool
    err,        \* Task.Error has been written
    callback    \* what the goroutine posted to the server, if anything

managerVars == <<pc, n, ctx, pool, err, callback>>
vars == <<cacheVars, managerVars>>

\* Where a goroutine is while it owns a token of the worker pool.
Holding == {"starting", "loop", "item", "store", "judge", "wasCanceled",
            "markCanceled", "judgeDeadline", "markFailed", "setError",
            "markCompleted", "report", "returning"}
Places == {"idle", "rejected", "checked", "queued", "done"} \cup Holding
Contexts == {"none", "live", "canceled", "deadline"}

Callbacks == [status : Statuses \cup {"none"}, results : Results,
              ended : BOOLEAN, err : BOOLEAN]
NoCallback == [status |-> "none", results |-> NoResults,
               ended |-> FALSE, err |-> FALSE]

\* Every variable ranges over the values the code can store in it.
TypeOK ==
    /\ CacheTypeOK
    /\ pc \in [Tasks -> Places]
    /\ n \in [Tasks -> 0..NumItems]
    /\ ctx \in [Tasks -> Contexts]
    /\ pool \in 0..MaxWorkers
    /\ err \in [Tasks -> BOOLEAN]
    /\ callback \in [Tasks -> Callbacks]

Init ==
    /\ CacheInit
    /\ pc = [t \in Tasks |-> "idle"]
    /\ n = [t \in Tasks |-> 0]
    /\ ctx = [t \in Tasks |-> "none"]
    /\ pool = 0
    /\ err = [t \in Tasks |-> FALSE]
    /\ callback = [t \in Tasks |-> NoCallback]

\* The goroutine of t goes from one place to another.
Goto(t, from, to) == pc[t] = from /\ pc' = [pc EXCEPT ![t] = to]

-----------------------------------------------------------------------------
(***************************************************************************)
(* Mutated forms of some actions below: plausible bugs that the properties *)
(* must detect.  No specification uses them.                               *)
(***************************************************************************)

\* A task counts as running from its creation on.
CreateAdd_Running(t) ==
    /\ LockFree
    /\ Goto(t, "checked", "queued")
    /\ cache' = [cache EXCEPT ![IdOf[t]] = t]
    /\ status' = [status EXCEPT ![t] = "running"]
    /\ UNCHANGED <<results, endTime, cancelClosed, canceling,
                   n, ctx, pool, err, callback>>

\* The loop runs one item too many.
LoopCheck_OffByOne(t) ==
    /\ Goto(t, "loop", IF n[t] <= NumItems /\ ctx[t] = "live" THEN "item"
                                                              ELSE "store")
    /\ UNCHANGED <<cacheVars, n, ctx, pool, err, callback>>

\* A worker is taken without waiting for one.
Acquire_NoBound(t) ==
    /\ Goto(t, "queued", "starting")
    /\ pool' = pool + 1
    /\ UNCHANGED <<cacheVars, n, ctx, err, callback>>

\* One token is never handed out.
Acquire_OneLess(t) ==
    /\ Goto(t, "queued", "starting")
    /\ pool < MaxWorkers - 1
    /\ pool' = pool + 1
    /\ UNCHANGED <<cacheVars, n, ctx, err, callback>>

\* A task whose deadline has passed counts as completed.
ReadDeadline_Ignored(t) ==
    /\ Goto(t, "judgeDeadline", "markCompleted")
    /\ UNCHANGED <<cacheVars, n, ctx, pool, err, callback>>

\* The callback leaves before the error text is written.
SetError_Late(t) ==
    /\ Goto(t, "setError", "report")
    /\ UNCHANGED <<cacheVars, n, ctx, pool, err, callback>>

\* The callback is posted with the results but before the outcome.
SendCallback_Early(t) ==
    /\ pc[t] \in {"markCompleted", "report"}
    /\ pc' = [pc EXCEPT ![t] = "returning"]
    /\ callback' = [callback EXCEPT ![t] =
            [status |-> status[t], results |-> results[t],
             ended |-> endTime[t] # "zero", err |-> err[t]]]
    /\ UNCHANGED <<cacheVars, n, ctx, pool, err>>

\* The first read of ctx.Err() is left out.
ReadCanceled_Skipped(t) ==
    /\ Goto(t, "judge", "judgeDeadline")
    /\ UNCHANGED <<cacheVars, n, ctx, pool, err, callback>>

\* CancelTask waits, under the mutex, for the goroutine to report.
FinishCancel_Waits(t) ==
    /\ CancelMarkStatus(t) \/ (pc[t] = "returning" /\ CancelMarkEnd(t))
    /\ UNCHANGED managerVars

\* The token is not given back.
Return_KeepsToken(t) ==
    /\ Goto(t, "returning", "done")
    /\ ctx' = [ctx EXCEPT ![t] = IF @ = "live" THEN "canceled" ELSE @]
    /\ UNCHANGED <<cacheVars, n, pool, err, callback>>

-----------------------------------------------------------------------------
(***************************************************************************)
(* CreateTask.                                                             *)
(***************************************************************************)

\* The ID is looked up; a known ID is refused.
CreateCheck(t) ==
    /\ LockFree
    /\ Goto(t, "idle", IF GetTask(IdOf[t]) = NoTask THEN "checked"
                                                    ELSE "rejected")
    /\ UNCHANGED <<cacheVars, n, ctx, pool, err, callback>>

\* The object is added, in a second critical section, and its goroutine
\* starts.
CreateAdd(t) ==
    /\ AddTask(t)
    /\ Goto(t, "checked", "queued")
    /\ UNCHANGED <<n, ctx, pool, err, callback>>

-----------------------------------------------------------------------------
(***************************************************************************)
(* executeTask.                                                            *)
(***************************************************************************)

\* The send on workerPool, which blocks while the channel is full.
Acquire(t) ==
    /\ Goto(t, "queued", "starting")
    /\ pool < MaxWorkers
    /\ pool' = pool + 1
    /\ UNCHANGED <<cacheVars, n, ctx, err, callback>>

\* The status becomes running; the context and its listener are created.
MarkRunning(t) ==
    /\ UpdateTaskStatus(IdOf[t], "running")
    /\ Goto(t, "starting", "loop")
    /\ ctx' = [ctx EXCEPT ![t] = "live"]
    /\ UNCHANGED <<n, pool, err, callback>>

\* The head of the loop: no items left, or the context has ended.
LoopCheck(t) ==
    /\ Goto(t, "loop", IF n[t] < NumItems /\ ctx[t] = "live" THEN "item"
                                                             ELSE "store")
    /\ UNCHANGED <<cacheVars, n, ctx, pool, err, callback>>

\* executeTaskItem returns: a result or an error, one entry either way.
ItemReturn(t) ==
    /\ Goto(t, "item", "loop")
    /\ n' = [n EXCEPT ![t] = @ + 1]
    /\ UNCHANGED <<cacheVars, ctx, pool, err, callback>>

\* UpdateTaskResult, before the status says that the task has ended.
StoreResults(t) ==
    /\ UpdateTaskResult(IdOf[t], [by |-> t, n |-> n[t]])
    /\ Goto(t, "store", "judge")
    /\ UNCHANGED <<n, ctx, pool, err, callback>>

\* The first of two separate reads of ctx.Err().
ReadCanceled(t) ==
    /\ Goto(t, "judge", IF ctx[t] = "canceled" THEN "wasCanceled"
                                               ELSE "judgeDeadline")
    /\ UNCHANGED <<cacheVars, n, ctx, pool, err, callback>>

\* task.Status is read without the mutex.
ReadStatus(t) ==
    /\ Goto(t, "wasCanceled", IF status[t] = "canceled" THEN "report"
                                                        ELSE "markCanceled")
    /\ UNCHANGED <<cacheVars, n, ctx, pool, err, callback>>

MarkCanceled(t) ==
    /\ UpdateTaskStatus(IdOf[t], "canceled")
    /\ Goto(t, "markCanceled", "report")
    /\ UNCHANGED <<n, ctx, pool, err, callback>>

\* The second read of ctx.Err().
ReadDeadline(t) ==
    /\ Goto(t, "judgeDeadline", IF ctx[t] = "deadline" THEN "markFailed"
                                                       ELSE "markCompleted")
    /\ UNCHANGED <<cacheVars, n, ctx, pool, err, callback>>

MarkFailed(t) ==
    /\ UpdateTaskStatus(IdOf[t], "failed")
    /\ Goto(t, "markFailed", "setError")
    /\ UNCHANGED <<n, ctx, pool, err, callback>>

\* task.Error is written without the mutex, on the goroutine's own object.
SetError(t) ==
    /\ Goto(t, "setError", "report")
    /\ err' = [err EXCEPT ![t] = TRUE]
    /\ UNCHANGED <<cacheVars, n, ctx, pool, callback>>

MarkCompleted(t) ==
    /\ UpdateTaskStatus(IdOf[t], "completed")
    /\ Goto(t, "markCompleted", "report")
    /\ UNCHANGED <<n, ctx, pool, err, callback>>

\* sendCallback: the fields are read without the mutex and posted once.
\* Whatever the post comes to, the code only logs it.
SendCallback(t) ==
    /\ Goto(t, "report", "returning")
    /\ callback' = IF CallbackURL
                   THEN [callback EXCEPT ![t] =
                            [status |-> status[t], results |-> results[t],
                             ended |-> endTime[t] # "zero", err |-> err[t]]]
                   ELSE callback
    /\ UNCHANGED <<cacheVars, n, ctx, pool, err>>

\* The deferred calls: cancel() ends the context, then the token goes back.
Return(t) ==
    /\ Goto(t, "returning", "done")
    /\ ctx' = [ctx EXCEPT ![t] = IF @ = "live" THEN "canceled" ELSE @]
    /\ pool' = pool - 1
    /\ UNCHANGED <<cacheVars, n, err, callback>>

-----------------------------------------------------------------------------
(***************************************************************************)
(* What happens to a task's context from outside its goroutine.            *)
(***************************************************************************)

\* The timer of context.WithTimeout; a context keeps its first error.
Deadline(t) ==
    /\ ctx[t] = "live"
    /\ ctx' = [ctx EXCEPT ![t] = "deadline"]
    /\ UNCHANGED <<cacheVars, pc, n, pool, err, callback>>

\* The listener goroutine wakes up on Task.Cancel and calls cancel().
Listener(t) ==
    /\ ctx[t] = "live"
    /\ cancelClosed[t]
    /\ ctx' = [ctx EXCEPT ![t] = "canceled"]
    /\ UNCHANGED <<cacheVars, pc, n, pool, err, callback>>

\* A caller of TaskManager.CancelTask, and the rest of its critical section.
CancelTask(id) == CancelClose(id) /\ UNCHANGED managerVars
FinishCancel(t) ==
    /\ CancelMarkStatus(t) \/ CancelMarkEnd(t)
    /\ UNCHANGED managerVars

\* The hourly cleaner, and the passing of the 24 hours it looks for.
Clean == CleanExpiredTasks /\ UNCHANGED managerVars
GrowOld(t) == Age(t) /\ UNCHANGED managerVars

-----------------------------------------------------------------------------
\* The steps of the goroutine of t that hang on nothing but the scheduler,
\* the mutex, the pool and the bounded post of the callback.
Own(t) ==
    \/ CreateAdd(t)     \/ Acquire(t)       \/ MarkRunning(t)
    \/ LoopCheck(t)     \/ StoreResults(t)  \/ ReadCanceled(t)
    \/ ReadStatus(t)    \/ MarkCanceled(t)  \/ ReadDeadline(t)
    \/ MarkFailed(t)    \/ SetError(t)      \/ MarkCompleted(t)
    \/ SendCallback(t)  \/ Return(t)

Next ==
    \/ \E t \in Tasks :
        \/ CreateCheck(t)   \/ CreateAdd(t)     \/ Acquire(t)
        \/ MarkRunning(t)   \/ LoopCheck(t)     \/ ItemReturn(t)
        \/ StoreResults(t)  \/ ReadCanceled(t)  \/ ReadStatus(t)
        \/ MarkCanceled(t)  \/ ReadDeadline(t)  \/ MarkFailed(t)
        \/ SetError(t)      \/ MarkCompleted(t) \/ SendCallback(t)
        \/ Return(t)        \/ Deadline(t)      \/ Listener(t)
        \/ FinishCancel(t)  \/ GrowOld(t)
    \/ \E id \in TaskIDs : CancelTask(id)
    \/ Clean

Spec == Init /\ [][Next]_vars

(***************************************************************************)
(* The Go scheduler runs every goroutine that can run, timers fire, and an *)
(* executor that honours its context returns.  Nobody owes the agent a     *)
(* call of CreateTask or CancelTask, a cleaning or the passing of a day,   *)
(* and an executor in Deaf may never return.  Nothing is asked of the      *)
(* listener either: the deadline ends the context if it never wakes up.    *)
(* (Each subscript names what every step of the action changes.)           *)
(***************************************************************************)
FairTo(t) ==
    /\ WF_pc(Own(t))
    /\ WF_ctx(Deadline(t))
    /\ WF_<<status, canceling>>(FinishCancel(t))
    /\ t \in Deaf \/ WF_n(ItemReturn(t))

Fairness == \A t \in Tasks : FairTo(t)

FairSpec == Spec /\ Fairness
-----------------------------------------------------------------------------
(***************************************************************************)
(* Safety.                                                                 *)
(***************************************************************************)
Holders == {t \in Tasks : pc[t] \in Holding}
Accepted(t) == pc[t] \notin {"idle", "rejected", "checked"}

\* "Callers never use an ID twice": what CreateTask assumes, and cannot
\* ensure for itself because it looks up and adds in two critical sections.
UniqueIDs == \A t, u \in Tasks : IdOf[t] = IdOf[u] => t = u

\* executeTask gives back exactly the tokens it takes: the tokens in
\* workerPool are those of the goroutines that are between the send and the
\* deferred receive, and at most MaxWorkers of them run items at a time.
PoolBound ==
    /\ pool = Cardinality(Holders)
    /\ Cardinality(Holders) <= MaxWorkers

\* A task that a poll reports as running has a goroutine behind it that owns
\* a token (executeTask sets Running only after the send, and a terminal
\* status before the receive).
RunningHoldsToken == \A t \in Tasks : status[t] = "running" => t \in Holders

\* What sendCallback posts is the outcome, and stays the outcome: the status
\* in the callback is terminal and equals what polls of this task answer from
\* then on, and so do the results; a failure is reported with its error text,
\* completed and failed tasks with their end time, and no task returns
\* unreported.
CallbackAgrees ==
    \A t \in Tasks :
        /\ callback[t].status # "none" =>
            /\ callback[t].status = status[t]
            /\ status[t] \in Terminal
            /\ callback[t].results = results[t]
            /\ (status[t] = "failed" => callback[t].err)
            /\ status[t] # "canceled" => callback[t].ended
        /\ CallbackURL /\ pc[t] \in {"returning", "done"} =>
            callback[t].status # "none"

\* A task is completed only when every item was run and its own results are
\* in the cache: no deadline or cancellation that cut the loop short ends
\* there (the loop and the two reads of ctx.Err() are separate steps).
CompletedHasAllResults ==
    \A t \in Tasks :
        status[t] = "completed" => results[t] = [by |-> t, n |-> NumItems]

\* CancelTask never closes Task.Cancel twice: whenever its guard lets it in,
\* the channel is still open (a second close would panic).
NoDoubleClose ==
    \A id \in TaskIDs :
        /\ LockFree
        /\ cache[id] # NoTask
        => ~(status[cache[id]] = "running" /\ cancelClosed[cache[id]])

\* An accepted task can be polled until its end is 24 hours old: neither the
\* cleaner nor AddTask makes the cache forget it earlier, running or not.
Retained ==
    \A t \in Tasks :
        Accepted(t) /\ endTime[t] # "old" => cache[IdOf[t]] = t

\* No step changes the status or the results of a completed or failed task:
\* not a late cancel, not the end of the context.
OutcomeFinal ==
    [][\A t \in Tasks : status[t] \in {"completed", "failed"} =>
            status'[t] = status[t] /\ results'[t] = results[t]]_vars

\* The result of CancelTask: success was answered and the mutex released.
CancelSucceeded(t) == cancelClosed[t] /\ canceling # t

\* cancel_task.go answers "task cancelled" once CancelTask has succeeded, and
\* executeTask counts on the status being Canceled already; this says that a
\* task whose cancellation succeeded is a canceled task from then on.
CancelIsFinal ==
    \A t \in Tasks : CancelSucceeded(t) => status[t] = "canceled"

\* What holds instead: a cancellation that has ended the context before the
\* goroutine reads ctx.Err() for the first time is final.  Polls answer
\* running, until CancelTask has marked the task, or canceled, never another
\* outcome; only a listener that comes later can be overtaken.
Heard(t) ==
    /\ ctx[t] = "canceled"
    /\ pc[t] \in {"loop", "item", "store", "judge", "wasCanceled",
                  "markCanceled"}
StaysHeard(t) == [](Heard(t) => [](status[t] \in {"running", "canceled"}))
HeardIsFinal == \A t \in Tasks : StaysHeard(t)

\* As long as an accepted task is not done somebody can go on: its goroutine,
\* one that it waits for at the pool or at the mutex, or else an executor is
\* at work.  (The mutex is held by CancelTask, the tokens by goroutines that
\* need the mutex.)
CanGoOn(t)   == ENABLED <<Own(t)>>_pc
CanFinish(t) == ENABLED <<FinishCancel(t)>>_<<status, canceling>>
NeverStuck ==
    (\E t \in Tasks : Accepted(t) /\ pc[t] # "done") =>
        \E u \in Tasks : CanGoOn(u) \/ CanFinish(u) \/ pc[u] = "item"

\* The callback tells the server that the task is over: it never carries a
\* status that is not an outcome.
CallbackIsOutcome ==
    \A t \in Tasks : callback[t].status \in Terminal \cup {"none"}

-----------------------------------------------------------------------------
(***************************************************************************)
(* The contract of a task, and how the manager implements it.              *)
(***************************************************************************)
Phase(t) == IF pc[t] \in {"idle", "checked"} THEN "new"
            ELSE IF pc[t] = "rejected" THEN "refused"
            ELSE status[t]

Contract == INSTANCE TaskContract WITH
    Workers <- MaxWorkers,
    phase <- [t \in Tasks |-> Phase(t)],
    told <- [t \in Tasks |-> callback[t].status],
    busy <- Holders

\* The task manager implements TaskContract: what polls and callbacks show of
\* a task is a behaviour of the contract, step by step.
KeepsContract == Contract!Spec

-----------------------------------------------------------------------------
(***************************************************************************)
(* Liveness.                                                               *)
(***************************************************************************)

\* Every worker is held by an executor that ignores its context and hangs.
PoolHangs ==
    /\ Cardinality(Holders) = MaxWorkers
    /\ \A u \in Holders : u \in Deaf /\ pc[u] = "item"

\* The deadline bounds every accepted task: also when it has to wait for a
\* worker, its goroutine takes a token, runs, reports and returns, unless all
\* the workers hang for good.
AcceptedFinishes ==
    \A t \in Tasks \ Deaf :
        pc[t] = "queued" ~> (pc[t] = "done" \/ []PoolHangs)

\* A successful CancelTask settles the task: soon some outcome, and only
\* outcomes from then on, is what polls answer; this holds when the
\* cancellation races the end of the work, and for an executor that hangs.
Settles(t) == cancelClosed[t] ~> [](status[t] \in Terminal)
CancelSettles == \A t \in Tasks : Settles(t)
=============================================================================
