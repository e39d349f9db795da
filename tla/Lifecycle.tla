------------------------------ MODULE Lifecycle ------------------------------
(***************************************************************************)
(* The life of the agent's process (main.go, biz/dal/init.go, conf/conf.go *)
(* and what they call) around the task manager: the start in its order,    *)
(* the HTTP server, which runs in a goroutine of its own, the signal that  *)
(* ends it, the five seconds of Shutdown, the buffered log, and the        *)
(* container that starts the process again.  Nothing is persisted: every   *)
(* end of the process is the end of all tasks and of the lines that only   *)
(* the log's buffer has.                                                   *)
(*                                                                         *)
(* External: Hertz.  Its Shutdown fails at once while the server does not  *)
(* run; otherwise it closes the listener, starts the OnShutdown hooks and  *)
(* returns when they and the requests have ended, or when its context has; *)
(* whether it then returns an error is left open.                          *)
(***************************************************************************)
EXTENDS TaskManager

CONSTANT MaxOpen    \* bound: requests in progress, but for CreateTask's

ASSUME LifecycleConstants == MaxOpen \in Nat

VARIABLES
    proc,       \* where main is, or that there is no process
    exitCode,   \* how the last process ended
    config,     \* conf.conf has been loaded
    registry,   \* InitExecutors has filled the executor registry
    ruleManager,\* alertrule.k8sRuleManager is set
    server,     \* the HTTP server
    quit,       \* a signal is in the channel quit
    late,       \* the context of Shutdown has ended
    open,       \* requests in progress
    hook,       \* the OnShutdown hook, which syncs the log
    unsaved     \* lines that only the log's buffer has, by when they were
                \* logged: before or after main has seen the signal

processVars == <<proc, exitCode, config, registry, ruleManager, server, quit,
                 late, open, hook, unsaved>>
lifeVars == <<vars, processVars>>

Starting == {"config", "executors", "k8s", "setup"}
Up == {"waiting", "shutdown"}

LifeTypeOK ==
    /\ TypeOK
    /\ proc \in {"off"} \cup Starting \cup Up
    /\ exitCode \in {"none", "0", "1", "2", "killed"}
    /\ config \in BOOLEAN
    /\ registry \in BOOLEAN
    /\ ruleManager \in BOOLEAN
    /\ server \in {"none", "starting", "running", "closing"}
    /\ quit \in BOOLEAN
    /\ late \in BOOLEAN
    /\ open \in 0..MaxOpen
    /\ hook \in {"none", "running", "done"}
    /\ unsaved \subseteq {"early", "late"}

NoProcess ==
    /\ proc = "off"
    /\ config = FALSE /\ registry = FALSE /\ ruleManager = FALSE
    /\ server = "none" /\ quit = FALSE /\ late = FALSE
    /\ open = 0
    /\ hook = "none"

LifeInit == Init /\ NoProcess /\ exitCode = "none" /\ unsaved = {}

\* The requests that Shutdown waits for: open ones, and those that are in
\* CreateTask or CancelTask.
InProgress ==
    \/ open > 0
    \/ canceling # NoTask
    \/ \E t \in Tasks : pc[t] = "checked"

\* A line is logged.
Log == unsaved' = unsaved \cup {IF proc = "waiting" THEN "early" ELSE "late"}

\* The process ends.  Its memory is gone; unsaved keeps what never reached
\* the log, until the next start.
Exit(code) ==
    /\ exitCode' = code
    /\ proc' = "off"
    /\ config' = FALSE /\ registry' = FALSE /\ ruleManager' = FALSE
    /\ server' = "none" /\ quit' = FALSE /\ late' = FALSE
    /\ open' = 0
    /\ hook' = "none"
    /\ cache' = [id \in TaskIDs |-> NoTask]
    /\ status' = [t \in Tasks |-> "pending"]
    /\ results' = [t \in Tasks |-> NoResults]
    /\ endTime' = [t \in Tasks |-> "zero"]
    /\ cancelClosed' = [t \in Tasks |-> FALSE]
    /\ canceling' = NoTask
    /\ pc' = [t \in Tasks |-> "idle"]
    /\ n' = [t \in Tasks |-> 0]
    /\ ctx' = [t \in Tasks |-> "none"]
    /\ pool' = 0
    /\ err' = [t \in Tasks |-> FALSE]
    /\ callback' = [t \in Tasks |-> NoCallback]
    /\ UNCHANGED unsaved

-----------------------------------------------------------------------------
(***************************************************************************)
(* Mutated forms of some actions below: plausible bugs that the properties *)
(* must detect.  No specification uses them.                               *)
(***************************************************************************)

\* A rule manager that cannot be made is only logged.
InitK8s_OnlyLogs ==
    /\ proc = "k8s"
    /\ proc' = "setup"
    /\ ruleManager' \in BOOLEAN
    /\ UNCHANGED <<vars, exitCode, config, registry, server, quit, late, open,
                   hook, unsaved>>

\* The log is not synced at the shutdown.
Quit_NoHook ==
    /\ proc = "waiting" /\ quit
    /\ server = "running"
    /\ proc' = "shutdown"
    /\ server' = "closing"
    /\ quit' = FALSE
    /\ hook' = "done"
    /\ UNCHANGED <<vars, exitCode, config, registry, ruleManager, late, open,
                   unsaved>>

\* Shutdown gets a context without a timeout.
ShutdownTimeout_Never == FALSE /\ UNCHANGED lifeVars

\* A panic in a task's goroutine is recovered and the token given back, but
\* nobody settles the task.
Crash_Recovered ==
    /\ proc # "off"
    /\ \E t \in Holders : pc' = [pc EXCEPT ![t] = "done"]
    /\ pool' = pool - 1
    /\ UNCHANGED <<cacheVars, n, ctx, err, callback, processVars>>

-----------------------------------------------------------------------------
(***************************************************************************)
(* The start.                                                              *)
(***************************************************************************)

\* The container starts the process (again).
Boot ==
    /\ proc = "off"
    /\ proc' = "config"
    /\ unsaved' = {}
    /\ UNCHANGED <<vars, exitCode, config, registry, ruleManager, server,
                   quit, late, open, hook>>

\* The first GetConf: what cannot be read, parsed or validated panics.
InitConf ==
    /\ proc = "config"
    /\ \/ /\ proc' = "executors"
          /\ config' = TRUE
          /\ UNCHANGED <<vars, exitCode, registry, ruleManager, server, quit,
                         late, open, hook, unsaved>>
       \/ Exit("2")

\* InitExecutors: an executor that cannot be made ends the process.
InitExecutors ==
    /\ proc = "executors"
    /\ \/ /\ proc' = "k8s"
          /\ registry' = TRUE
          /\ UNCHANGED <<vars, exitCode, config, ruleManager, server, quit,
                         late, open, hook, unsaved>>
       \/ Exit("1")

\* InitK8sClient: so does a rule manager.
InitK8s ==
    /\ proc = "k8s"
    /\ \/ /\ proc' = "setup"
          /\ ruleManager' = TRUE
          /\ UNCHANGED <<vars, exitCode, config, registry, server, quit, late,
                         open, hook, unsaved>>
       \/ Exit("1")

\* The server is made, with its middleware (from here on the log goes to the
\* buffer), and its routes; signals are caught, and h.Run is started.
Setup ==
    /\ proc = "setup"
    /\ proc' = "waiting"
    /\ server' = "starting"
    /\ UNCHANGED <<vars, exitCode, config, registry, ruleManager, quit, late,
                   open, hook, unsaved>>

\* h.Run listens, or fails (Fatalf).
Run ==
    /\ server = "starting"
    /\ \/ /\ server' = "running"
          /\ UNCHANGED <<vars, proc, exitCode, config, registry, ruleManager,
                         quit, late, open, hook, unsaved>>
       \/ Exit("1")

-----------------------------------------------------------------------------
(***************************************************************************)
(* The end.                                                                *)
(***************************************************************************)

\* SIGINT or SIGTERM.  Until main has asked for them they kill the process;
\* the channel holds one, more are dropped.
Signal ==
    \/ /\ proc \in Up
       /\ quit' = TRUE
       /\ UNCHANGED <<vars, proc, exitCode, config, registry, ruleManager,
                      server, late, open, hook, unsaved>>
    \/ proc \in Starting /\ Exit("killed")

\* main receives the signal and calls Shutdown, which fails at once (Fatalf)
\* while the server does not run yet.
Quit ==
    /\ proc = "waiting" /\ quit
    /\ \/ /\ server = "running"
          /\ proc' = "shutdown"
          /\ server' = "closing"
          /\ quit' = FALSE
          /\ hook' = "running"
          /\ UNCHANGED <<vars, exitCode, config, registry, ruleManager, late,
                         open, unsaved>>
       \/ server = "starting" /\ Exit("1")

\* The buffer is written to the log file: by the hook, and every minute.
HookSyncs ==
    /\ hook = "running"
    /\ hook' = "done"
    /\ unsaved' = {}
    /\ UNCHANGED <<vars, proc, exitCode, config, registry, ruleManager,
                   server, quit, late, open>>

Flush ==
    /\ proc \in Up /\ unsaved # {}
    /\ unsaved' = {}
    /\ UNCHANGED <<vars, proc, exitCode, config, registry, ruleManager,
                   server, quit, late, open, hook>>

\* The five seconds are over.
ShutdownTimeout ==
    /\ proc = "shutdown" /\ ~late
    /\ late' = TRUE
    /\ UNCHANGED <<vars, proc, exitCode, config, registry, ruleManager,
                   server, quit, open, hook, unsaved>>

\* Shutdown returns, and main does: nothing waits for the tasks.
ShutdownReturns ==
    /\ proc = "shutdown"
    /\ \/ ~InProgress /\ (hook = "done" \/ late) /\ Exit("0")
       \/ InProgress /\ late /\ \E code \in {"0", "1"} : Exit(code)

\* A panic in a goroutine without recovery, the kernel or the container ends
\* the process.
Crash == proc # "off" /\ Exit("killed")

-----------------------------------------------------------------------------
(***************************************************************************)
(* What the process is for.                                                *)
(***************************************************************************)

\* A request arrives, and ends; both are logged.
Arrive ==
    /\ server = "running"
    /\ open < MaxOpen
    /\ open' = open + 1
    /\ Log
    /\ UNCHANGED <<vars, proc, exitCode, config, registry, ruleManager,
                   server, quit, late, hook>>

Answer ==
    /\ open > 0
    /\ open' = open - 1
    /\ Log
    /\ UNCHANGED <<vars, proc, exitCode, config, registry, ruleManager,
                   server, quit, late, hook>>

\* The task manager works while the process lives; once the listener is
\* closed no call of CreateTask or CancelTask begins.
TasksRun ==
    /\ \/ server = "running" /\ Next
       \/ /\ server = "closing"
          /\ \/ \E t \in Tasks :
                    \/ Own(t)       \/ ItemReturn(t)    \/ Deadline(t)
                    \/ Listener(t)  \/ FinishCancel(t)  \/ GrowOld(t)
             \/ Clean
    /\ UNCHANGED processVars

LifeNext ==
    \/ Boot     \/ InitConf     \/ InitExecutors    \/ InitK8s
    \/ Setup    \/ Run          \/ Signal           \/ Quit
    \/ Flush    \/ HookSyncs    \/ ShutdownTimeout  \/ ShutdownReturns
    \/ Crash    \/ Arrive       \/ Answer           \/ TasksRun

LifeSpec == LifeInit /\ [][LifeNext]_lifeVars

(***************************************************************************)
(* main and the server's goroutine are scheduled, and the timer of         *)
(* Shutdown fires; tasks as in TaskManager, as long as there is a process. *)
(* Requests and the sync of the log may hang for ever.                     *)
(***************************************************************************)
MainFairness ==
    /\ WF_lifeVars(Run)              /\ WF_lifeVars(Quit)
    /\ WF_lifeVars(ShutdownTimeout)  /\ WF_lifeVars(ShutdownReturns)

WhileLiving(A) == server # "none" /\ A /\ UNCHANGED processVars

LivingFairness ==
    \A t \in Tasks :
        /\ WF_lifeVars(WhileLiving(Own(t)))
        /\ WF_lifeVars(WhileLiving(Deadline(t)))
        /\ WF_lifeVars(WhileLiving(FinishCancel(t)))
        /\ t \in Deaf \/ WF_lifeVars(WhileLiving(ItemReturn(t)))

FairLifeSpec == LifeSpec /\ MainFairness /\ LivingFairness

-----------------------------------------------------------------------------
(***************************************************************************)
(* Properties.                                                             *)
(***************************************************************************)

\* "ready" is true: ReadyCheck looks at nothing but the configuration, and
\* yet no request meets an empty registry or a rule manager that is nil,
\* because only a start in which every step succeeded gets to h.Run.
ReadyTellsTruth ==
    server \in {"running", "closing"} => config /\ registry /\ ruleManager

\* When the process ends with code 0 within the five seconds, every line that
\* was logged before the signal is on the disk: Shutdown waits for the hook,
\* also when no request is left.  (Lines logged while it waits may be lost.)
LogSurvives ==
    [][proc = "shutdown" /\ proc' = "off" /\ exitCode' = "0" /\ ~late
        => "early" \notin unsaved']_lifeVars

\* Once main waits for it a signal ends the process, whatever requests,
\* tasks and the sync of the log do.
SignalEnds == proc = "waiting" /\ quit ~> proc = "off"

\* As long as the process lives an accepted task is worked on and reported,
\* also while the server is shutting down: only the end of the process can
\* lose it.
LivingFinishes ==
    \A t \in Tasks \ Deaf :
        pc[t] = "queued" ~> (pc[t] = "done" \/ proc = "off")

\* Seen through all lives of the process, the tasks keep TaskContract, but
\* for the ends of the process, each of which makes all of them new at once:
\* none is left running, on a worker, or told of without having a status.
LivesKeepContract ==
    /\ Contract!Init
    /\ [][Contract!Next \/ (proc' = "off" /\ Contract!Init')]_(Contract!vars)

\* readme.md promises a graceful end, "finish the current tasks, then exit":
\* a process that ends with code 0 leaves no accepted task unfinished.
TasksFinishFirst ==
    [][proc = "shutdown" /\ proc' = "off" /\ exitCode' = "0"
        => \A t \in Tasks : Accepted(t) => pc[t] = "done"]_lifeVars
=============================================================================
