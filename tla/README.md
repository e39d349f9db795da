# candy-agent in TLA+

candy-agent is the inspection agent of a Kubernetes cluster: a server posts
inspection tasks to it, polls or cancels them, and manages alert rules through
it. This directory holds TLA+ models of its stateful parts, the TLC
configurations that check them on small instances, and TLAPS proofs of their
main properties for every instance.

    tlc -config tm_safety.cfg MCTaskPool.tla         # any run of the table below
    tlapm TaskManagerProofs.tla                      # any *Proofs module

## 1. The system

| Component | State | Operations | Talks to |
|---|---|---|---|
| Task cache, `biz/model/task.go` | map ID -> `*Task`, guarded by one mutex; the `Task` objects | AddTask, GetTask, UpdateTaskStatus, UpdateTaskResult, CancelTask, hourly cleaner | hands out pointers: objects are also read and written without the mutex |
| Task manager, `biz/service/task_manager.go` | worker pool (a channel of tokens), one goroutine, one context and one cancel listener per task | CreateTask, GetTask, CancelTask, executeTask, sendCallback | cache, executors, the server's callback URL |
| Status and cancel services, `get_task_status.go`, `cancel_task.go` | none | poll, cancel | task manager |
| Synchronous execution, `execute_task.go` | one request's results, status, message, context | Run | executor registry, executors |
| Executor registry, `biz/executor/factory.go` | map type -> executor, filled at start | Register, Create, InitExecutors | configuration |
| Executors: SSH, Prometheus, VictoriaMetrics, Kubernetes | none across calls (the last is never registered); within a call of SSH a runner goroutine, a channel, a connection | Execute | remote systems |
| Alert rule manager, `biz/dal/alertrule/k8s_manager.go` | none of its own: the rules live in the Kubernetes API | Create/Update/Delete/Get/ListRules | Kubernetes API, with other clients |
| Alert rule services, `biz/service/*_alert_rule.go` | none | create, update, delete, get, list, sync | alert rule manager |
| Heartbeat, `heartbeat.go` (its start is commented out in `main.go`) | node count, version, stop channel | Start, Stop, sendHeartbeat | server |
| Process, `main.go`, `biz/dal/**/init.go` | the start's progress, the server's goroutine, the signal, the log's buffer | start, serve, shut down | Hertz, the container, everything above |
| Configuration, health checks, router, handlers, generated code | read once, or none | | |

At this commit the HTTP handler runs tasks through the synchronous service;
`TaskManager.CreateTask` is exported but no handler calls it yet (readme.md
says the current version is synchronous and gives the asynchronous one as the
next). Polling and cancelling do go through the manager. The models take both
paths as their code stands: `ExecuteTask` the one that requests take today,
`TaskManager` every order of calls its exported functions allow.

What is hard here: goroutines that share `Task` objects partly under a mutex
and partly without; a context that ends for two reasons, decided by two
separate reads; a pool whose tokens depend on executors that may ignore their
context; updates "by ID" that reach whatever object the map holds by then;
read-modify-write chains against an API server that others write to; an SSH
command that outlives the call that started it; a cluster that changes while it
is inspected; a process that ends while tasks run and lines are buffered. The full
list, each at its line, is under "hazards" in `PROJECT.json`.

What correctness means, component by component:

* task cache: an accepted task is not forgotten before its time; a channel is
  never closed twice; a final status and its results are final;
* task manager: no more than `max_workers` tasks run; every accepted task
  ends, once, with an outcome that polls and the callback agree on, also when it
  had to wait for a worker; a
  cancellation settles the task;
* synchronous execution: the answer has a result for every item unless the
  deadline cut it short, and shows every failure;
* SSH executor: an answer that is no failure has the whole output of a command
  that succeeded; Execute returns and its runner ends, whatever the host does;
* Kubernetes executor: an issue that lasts through the inspection is shown and
  counted, what is in order is not shown otherwise, and the counts fit, whatever
  else changes meanwhile;
* process: no request meets a half-initialised agent, a signal ends the process,
  a clean end has written the log, and while the process lives tasks go on;
* metric executors: an item warns when, and only when, its answer has a value
  above the threshold, and names the highest;
* alert rules: no update is lost or resurrects a rule, an acknowledged write
  is the one stored, every request looks like at most one step on one rule, a
  sync finds every rule.

## 2. Modules

| Module | Models | Notes |
|---|---|---|
| `TaskCache` | `biz/model/task.go` | operations of the cache over the map `cache` and the objects `status`, `results`, `endTime`, `cancelClosed` |
| `TaskManager` | `task_manager.go`, extends `TaskCache` | the state machine: calls, goroutines, listener, timers, cleaner |
| `TaskContract` | nothing by itself: what the manager promises to the server | abstract specification; `TaskManager!KeepsContract` is the refinement |
| `MCTaskManager` | | IDs for the runs: one per call (`OwnID`), or one for all (`SameID`) |
| `MCTaskPool` | | more tasks than workers: `PoolSpec` has one task, `Hog`, that does nothing but hang with a worker |
| `TaskManagerProofs` | | TLAPS |
| `AlertRules`, `MCAlertRules`, `AlertRulesProofs` | `k8s_manager.go` and the six services | requests as chains of API calls |
| `RuleContract` | nothing by itself: what a request promises to a client | abstract specification; `AlertRules!KeepsRules` is the refinement |
| `ExecuteTask`, `ExecuteTaskProofs` | `execute_task.go`, `factory.go` | one request; executors are abstract |
| `SSHExecutor` | `ssh.go` | any number of calls under one context |
| `SSHTask`, `SSHTaskProofs` | `execute_task.go` over `ssh.go` | composes the two above, and implements `ExecuteTask` |
| `KubernetesExecutor`, `MCKubernetesExecutor`, `KubernetesProofs` | `kubenetes.go` | one inspection of a changing cluster |
| `Lifecycle`, `MCLifecycle`, `LifecycleProofs` | `main.go`, `biz/dal/**/init.go`, `conf.go`, extends `TaskManager` | the process around the task manager |
| `MetricQuery`, `MCMetricQuery`, `MetricQueryProofs` | `prometheus.go`, `vm.go` | one item on one of the two metric stores |

Every module has a section of mutated forms (names like `Acquire_OneLess`):
plausible bugs, used only to see that each property notices one.

### TaskCache and TaskManager

A task object is a member of `Tasks`, one for each call of CreateTask; `IdOf`
gives the ID the call uses. Objects and map are separate variables because
pointers outlive map entries. Cache operations are one step each, as the mutex
makes them, but CancelTask is three (`CancelClose`, `CancelMarkStatus`,
`CancelMarkEnd`, with `canceling` for the held mutex), because executeTask reads
the status, and sendCallback all fields, without it.

`pc[t]` is the line executeTask is at:
`queued` (blocked on the pool) - `starting` - `loop`/`item` - `store` - `judge`
(first `ctx.Err()`) - `wasCanceled`/`markCanceled`, or `judgeDeadline` (second
`ctx.Err()`) - `markFailed`/`setError` or `markCompleted` - `report` -
`returning` (deferred calls) - `done`. Before `queued` it is where the call of
CreateTask is: `idle`, then `checked` or `rejected`. `Deadline` and `Listener`
end the context from outside, in any order.

Abstracted: a result is counted, not looked into (`executeTaskItem` gives one
entry whether it fails or not); an end time is unset, recent, or older than the
24 hours the cleaner waits for; a callback is the record of the fields that
matter, and since its fate is only logged, its delivery is not state.
StartTime is set once and never read by a decision. sendCallback's reads are one
step: the only writers they can race are the three writes of CancelTask, which
are steps.

### TaskContract

Per task: `new -> pending -> running -> outcome`, or `refused`; a worker is
held from before `running` until after the report; the server is told once, the
current outcome, and what it was told does not change. A cancellation may
still turn into another outcome until then: that is what the code does
(finding `tm_cancel`), and the contract says no more than the code keeps.

### AlertRules

A request is a chain of API calls (`pc[r]` is the next one): create; or
GetRule followed by nothing, by Get and Update, or by Delete; or one list; or
sync's two lists. Between calls other requests and `Foreign` writers act. The
API server is external: each write gets a new `resourceVersion`, an Update with a
stale one is refused. A spec is told apart by who wrote it and whether it is the
wrapped form CreateRule builds for content that is not JSON. A write's answer may be
lost after it was applied (`AnswerWrite`). `missed` records which of sync's lists
failed (the code only logs that). A request that is refused before its first call
(`FirstCall`) keeps only its operation (`Kept`), as nothing looks at the rest of it
again. Only one namespace is modelled: every call uses the request's, or
`monitoring`.

`RuleContract` is what is left when versions, reads and the calls in between are
not seen: a store of rules on which each request takes effect at most once, in one
step, on the rule it names. A create makes a rule where there is none, an update
replaces the content of a rule and keeps its other labels, a delete removes one.
The mapping drops the version of a stored rule, and a request is `open` from its
first call to its answer. The contract keeps what the code does not promise
otherwise: an error may hide a write whose answer was lost, and a delete removes
whatever has the name by then. It also lets any request be refused, so that it has
nothing to say of the type name `vm`, which is documented and refused; that is what
`SyncFindsAll` shows.

### ExecuteTask

The handler refuses what it cannot bind and what has no task ID or no items
(`Accept`). Run is a loop over `items`: check of the context, lookup of the executor,
execution, one result. Executors are external and may return anything. The
deadline may pass at any point, between the check and the execution as well.

### SSHExecutor and SSHTask

`at[c]` is where call `c` of Execute is: `idle` - `dial` - `session` - `select` -
`returned`; `runner[c]` is the goroutine that is in `Session.Run` and then puts
its error into the channel (`done[c]`). The select of `WaitEnds` takes any branch
that is ready: the context, the timer (at any time) or the channel. Every return
closes the connection. External: the host, which may answer nothing and never end
the command, the network, which may drop the connection, and `Session.Run`, by its
documentation in golang.org/x/crypto/ssh. Output is counted in pieces, copied into the buffer by
the session (`CopyOutput`); `mark` is the piece with the threshold's text. Left
out: stderr, the wording, and the port (see the hazard at ssh.go:52).

`SSHTask` runs item `i` of a request as call `i`, under the request's context:
Run's steps are those of `ExecuteTask`, except that an ssh item is the machine
above. A call that has returned leaves its runner behind, which is still there
while the next items run. `RefinesExecuteTask` is ExecuteTask's `Spec` itself: its
variables are those of SSHTask, so the mapping is the identity on Run and hides
the calls.

### KubernetesExecutor

`cluster` is what the API server has, `saw` what Execute has read of it; `Change`
may make, alter or delete any object until the last answer. Nodes, pods and
deployments are one list or one Get; services are one call for the names and then
one for the endpoints of each (`todo`). Every call may fail. `sick` and `well` are
history: the objects that were an issue, or in order, from the start of Execute
until now. What counts as an issue is the code's own definition (`Unhealthy`,
`Healthy`, `Other`), a different one for each operation. The answer has the counts
of the value, the number of issues that the message gives, and what the details say:
of deployments and services every object with its state, of nodes and pods those
that are not in order (`Detailed`). `skipped` are the services left out because
their endpoints could not be read.

### Lifecycle

`proc` is where main is: `config`, `executors`, `k8s` (the parts of dal.Init, in the
order that the first GetConf gives), `setup`, `waiting`, `shutdown`, or `off`. Every failure of the
start is an `Exit` with the code the program gives (2 for a panic, 1 for Fatalf and
os.Exit). `Exit` resets all memory, the task manager's too; `Boot` is the
container's restart. The task manager's steps happen only while the process lives
(`TasksRun`); once the listener is closed no call of CreateTask or CancelTask
begins. `open` counts the requests in progress, whatever they ask for. Hertz is
external: Shutdown fails at once while the server does not run, starts the hooks
in a goroutine, and returns when requests and hooks have ended or at its
deadline, then with or without an error. `unsaved` says whether the log's buffer
has lines from before and from after the signal.

### MetricQuery

One call of Execute of either metric executor: `query` - `parse` - `check` -
(`nodes`, one step per entry of the map that Go ranges over in any order) -
`done`. The executors are near copies; `executor` selects where they differ:
what they make of an answer without data, which point of a matrix they take, and
whether they say that all is within the threshold. An answer is any the API can
give: no two series share all labels, but several may share the `instance` label,
which is all that `Instance` keeps (an empty one is a name for VictoriaMetrics
only). VictoriaMetrics' text answers never decode. Values are integers and `NaN`, which exceeds
nothing; `Text` is what does not parse as a number; `None` is a threshold that is
absent or does not parse. Not modelled: the wording, and the details text (there
vm.go:220 writes over the list of exceeding nodes that line 201 has added).

## 3. Runs

| Run | Instance | Checks | Result |
|---|---|---|---|
| `tm_safety` | 3 tasks, own IDs, 2 items, 2 workers; one task that hangs with a worker from the start or never comes, one of the others with an executor that may hang; fair | TypeOK, PoolBound, RunningHoldsToken, CallbackAgrees, CompletedHasAllResults, NoDoubleClose, Retained, OutcomeFinal, KeepsContract, NeverStuck, HeardIsFinal, AcceptedFinishes, CancelSettles | pass, 250,015 states |
| `tm_cancel` | 1 task | CancelIsFinal | violated |
| `tm_twice` | 2 tasks, one ID, 2 workers | CallbackIsOutcome | violated |
| `ar_rules` | 2 requests, 1 name in 2 kinds, 3 creations and updates, any removals | AckedIsStored, PanicsWriteNothing, NoLostUpdate, KeepsRules | pass, 1,575,837 states |
| `ar_sync` | the same, 1 write | SyncFindsAll | violated |
| `ar_fallback` | the same, 1 write | FallbackWorks | violated |
| `et_ssh` | up to 2 items, 3 types (ssh, one registered, one not), 1 piece of output, fair | NothingDropped, FailuresShow, AnswersAreWhole, RefinesExecuteTask, RunnersEnd, Answered | pass, 441,932 states |
| `mq_verdict` | vectors of 3 samples over 6 series, values -1 to 2 and NaN, 6 thresholds | LastSampleDecides, NamesHighest, AllWithinOnePerInstance | pass, 1,822,672 states |
| `mq_within` | the same, 2 samples | AllWithin | violated |
| `ke_inspect` | 3 names, one of them the built-in service, up to 2 replicas | LastingIssuesShow, CountsFit | pass, 63,942 states |
| `lc_life` | 1 task, 1 worker, 2 requests, fair | ReadyTellsTruth, LogSurvives, LivesKeepContract, SignalEnds, LivingFinishes | pass, 122,084 states |
| `lc_drain` | 1 task, 1 worker | TasksFinishFirst | violated |

Why the bounds are enough. Goroutines of the manager meet only in the pool, the
cache and, with a shared ID, in one map entry, so two tasks show every pairwise
race; two items let the context end before, between and after items; a task's end
can get old and be cleaned at any time. For the pool there must be more tasks than
workers: in `tm_safety` a third task, `Hog`, takes one of the two workers, before
the others are created, and never gives it back, or is not created at all. With it
the two other tasks share one worker, so that one waits while the other runs, for
good if that one hangs as well, and gets its token afterwards if it does not;
without it both run side by side. `Hog` does nothing else, since three tasks that
are free to do everything are more than TLC can visit; the proofs take any number
of tasks and workers. `PoolSpec` is `Spec` with fewer steps, and with the
fairness of the two tasks. With the same ID (`tm_twice`) the first object can be
overwritten before, while and after it runs. For rules, three numbered writes are
what a lost update needs (a rule, a write in between, the update) and what deletion
and re-creation behind a read needs (a rule, the new rule, the update; a removal
takes no number, as it leaves no object behind); the proofs lift all bounds but
`MaxRev`, which they take as any number. Two items are
two ssh items, so that the runner of the first outlives its call into the second,
or an ssh item before or after another outcome; one piece of output can be
unsent, uncopied, copied, and be the one with the threshold's text or not (the
proofs take any number of both). Three objects are one each that stays sick, stays
well and changes, or, of services, is left out. Processes meet tasks only in their end, so
one task that is anywhere in its life suffices for the lifecycle; two requests are
one that ends before the signal and one that does not. Three
samples are two that share a name and one that does not, in every order, and up to
three nodes to rank; the values lie below, at and above zero, where the highest
value starts, and the thresholds are the same numbers. Of a matrix only the first
series is judged, so one is enough.

No run checks deadlock: task goroutines end, requests end and the bounds stop
the API's writers, so the systems do come to rest.

### Fairness

`FairSpec` assumes weak fairness for: each goroutine's own steps (the Go
scheduler, the mutex and the 10-second limit on the callback's post), the timer,
the rest of CancelTask's critical section, and the return of executors outside
`Deaf`. It assumes nothing for callers, the cleaner, the passing of a day, the
cancel listener (nothing needs it: the deadline ends the context if it does not),
or executors in `Deaf`, which may never return: in the SSH executor the dial's
handshake and the opening of a session are under no timeout (`SSHTask!Answered`
has that case). Weak fairness of `Acquire` says less than Go's channel, which serves
those who wait in their order, and is enough because a task that waits is only ever
overtaken by finitely many others. `MCTaskPool!PoolSpec` owes the same to
all tasks but `Hog`.

`SSHTask!FairTaskSpec`: Run, the select and the runner are scheduled, timers fire,
and the metric executors return because their HTTP requests have a timeout.
Nothing is assumed of dial, session, host and network; that the runner ends
rests on Execute returning and closing the connection, which ends Session.Run.
`Lifecycle!FairLifeSpec`: main, the server's goroutine and Shutdown's timer, and
tasks as above while there is a process. Requests, the sync of the log and
restarts owe nothing.

### The violated properties

* `CancelIsFinal` (`tm_cancel`): CancelTask succeeds while executeTask is past, or
  between, its reads of `ctx.Err()`; the status goes from canceled to completed
  or failed and the callback says so, though the client was told it was cancelled.
  `HeardIsFinal` is what holds instead: a cancellation that has ended the context
  before the first of these reads is final.
* `CallbackIsOutcome` (`tm_twice`): two calls of CreateTask with one ID pass the
  check together; the second object replaces the first in the map, the first
  goroutine's updates reach the second object, and its callback says `pending`. With
  IDs that are used once the property holds (theorem `OutcomeTold`).
* `TasksFinishFirst` (`lc_drain`): the readme's graceful end, "finish the current
  tasks, then exit", holds for requests within five seconds only; main does not wait
  for the goroutines of tasks, and they and their callbacks end with the process.
  `LivingFinishes` is what holds instead, and `LivesKeepContract`: what is lost is
  lost whole, no task of a later life starts half done.
* `SyncFindsAll` (`ar_sync`): sync asks for the type `vm`; getGVRByType knows
  `victoriaMetrics`. The error is logged, the answer is success.
  `agent.proto:162` documents the type as `vm` too.
* `FallbackWorks` (`ar_fallback`): the fallback spec of UpdateRule is not
  deep-copyable, SetNestedMap panics (the recovery middleware answers 500).
  `PanicsWriteNothing` is what holds instead: nothing else panics, and nothing of
  the request is stored.
* `AllWithin` (`mq_within`): the samples of a vector are put in a map by instance,
  so of two series of one instance the last hides the first, and "all nodes are
  within the threshold" is said although a sample is above it. `LastSampleDecides`
  is what holds instead, and `AllWithinOnePerInstance`: collisions are all that makes
  the answer false.

## 4. Proofs

Each `*Proofs` module has one inductive invariant, one lemma per question, and
short temporal theorems at its end.

`TaskManagerProofs`. `PoolInv` (types, at most `NumItems` results gathered, `pool`
is the number of goroutines that hold a token) is inductive without any assumption
on IDs and gives `TypeCorrect` and `PoolSafe`. The others assume `UniqueIDs`:
`IInv` adds `KeysFit` (the map holds an object only under its ID) and `TaskInv(t)`,
which says for each place of the goroutine which statuses, end times, results and
callbacks are possible (`StatusFits`, `EndTimeFits`, `CancelFits`, `CachedFits`,
`WorkFits`, `CallbackFits`). It is needed because the properties speak of the end
of the goroutine only: that the results are complete when the status says completed
rests on what `judge` knew, which rests on what the loop did, and that an update by
ID reaches the goroutine's own object rests on the cleaner never having removed an
object that is not final. A step of one task leaves the others' `TaskInv` alone
(`OthersSame`), so each action is one lemma about one task. `Refines` maps each
step to a step of `TaskContract` or to a stutter. `OutcomeTold` and `HeardSafe` are
the two violated properties with the condition under which they hold.
`StuckNever` needs `PoolInv` only: a full pool is held by somebody
(`FullPoolIsHeld`), and who has the mutex needs no token. `CancelsSettle` is
liveness: from the close of the channel the task is `Marking`, until the fair
FinishCancel makes it `Settled`, and `IInv` keeps it so.

`AlertRulesProofs`. Versions only grow and every write takes a new one
(`StoreStep`); so what a request has read (`SawFits`) or was acknowledged
(`AckFits`) is what is stored as long as the version is the current one. This gives
`VersionIsObject` (a request that holds a rule's current version holds the current
rule), and from it `AckedIsStored` and `NoLostUpdate`, for any number of requests,
names and writes. `RulesKeepContract` maps the steps to those of `RuleContract`: a
read that a write follows is a stutter, and `SawFits` makes the write of an
update one step on the rule as it is now. `EndInv` adds what a request has not
done yet: a request that has no answer yet is the author of no rule (`AuthorStep`: a rule gets its author from the
request that writes it). It gives `PanicsLeaveNothing`.

`ExecuteTaskProofs`. `Results` (the results are those of the first items) and
`Progress` (what each place of Run knows) give `NothingDropped` and
`FailuresShow` for requests of any length.

`SSHTaskProofs`. A step of a call leaves Run alone, a step of Run is one of
ExecuteTask, and the invariant says what a returned call may have answered;
with it `TaskRefinesExecuteTask` holds step by step, and the theorems of
`ExecuteTaskProofs` carry over by the refinement (`TaskDropsNothing`,
`TaskShowsFailures`). `AnswersWhole` rests on what the runner knows when it sends: nil only
after a command that ended with 0 and whose output has been copied, after which
neither changes. `RunnersNeverBlock` (the channel is empty whenever the runner is
about to send) is what keeps the runner from leaking, without fairness; `RunnersAllEnd`, with
fairness, is that it ends: once Execute has returned the connection is closed,
a closed connection ends Session.Run, and the send does not wait.

`KubernetesProofs`. `Lasting` (what has been sick or well all along is so now), `Seen`
(and was so when it was read) and `Covered` (and is read or still to be read, if in
scope) hold on the way; the answer is then counting: the sick and the healthy are
disjoint parts of what was seen, and what is seen is shown as it was seen.

`LifecycleProofs`. `TaskManagerProofs`' invariants hold for every life of the
process: a step of the process leaves the tasks alone, or ends them all and is Init
again; so does the contract, with Init of the contract for the ends
(`LivesRefine`). `ReadyTellsTruth` follows from the order of the start, `LogSurvives` from the
hook having run after the last early line, and `SignalAlwaysEnds` from there being a
server while main waits and no way back from the signal.

`MetricQueryProofs`. `Scanned` says what the loop knows of the nodes it has
visited, independently of their order: which exceed the threshold, and that the
highest value, once it has left 0, is the value of the named node and of no node
less. `Collected` says what is in the map, the last sample of every name; that
there is a last one rests on the well-foundedness of the naturals. Together they
give `LastSampleDecides` and `NamesHighest` for answers of any size. The verdict
needs no assumption on the threshold, `NamesHighest` one that is not negative, and
`WithinIsTrue` one series per instance.

The assumptions on the constants are the named ASSUMEs of the modules
(`CacheConstants`, `ManagerConstants`, `RuleConstants`, `ExecuteConstants`,
`MetricConstants`, `SSHTaskConstants`, `KubernetesConstants`,
`LifecycleConstants`), and `UniqueIDs` where a theorem says so.

Theorems about progress (`StuckNever`, `CancelsSettle`, `RunnersAllEnd`,
`SignalAlwaysEnds`) have one more premise: `TaskGuards`,
`CallGuards` or `MainGuards`. The prover takes ENABLED as a word it does not know,
so these say what its definition gives for a few steps, that a step is
possible in a state where its guard holds. They hold in every state by the
definition of the actions, which assign every variable, and restrict no behaviour;
that the guards come true is what the proofs show. In the runs TLC evaluates
ENABLED itself, in `NeverStuck` and in the fairness of the liveness properties.

Only model-checked: `AcceptedFinishes` (a task that waits for a worker gets one and
finishes, unless all of them hang), `LivingFinishes` and `Answered`. They count
down items, and tasks in front of the pool, and an induction over those inside
a temporal formula is beyond the prover. The violated properties are not theorems;
those that hold under a condition are proved with it.

## 5. Not modelled, and the plan

Not modelled:

* the heartbeat: nothing makes or starts it, its lines in main.go are comments
  (the model would be of dead code, though it would be next once they are not);
* update_config.go, a stub that logs and answers success; the health answers,
  which are constants (what "ready" rests on is `ReadyTellsTruth`);
* binding and wrapping in the handlers beyond the checks that ExecuteTask has, the
  empty middleware functions, generated code;
* which of file and environment gives a configuration value; the wording of messages and details;
  the nil rule manager that every service but create checks for (`ReadyTellsTruth`
  shows that no request meets it).

Left for later:

1. a contract of the task manager that also holds with shared IDs;
2. the composition of the metric executors with `ExecuteTask`, as `SSHTask` does it
   for ssh.
