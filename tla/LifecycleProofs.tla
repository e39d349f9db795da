--------------------------- MODULE LifecycleProofs ---------------------------
(***************************************************************************)
(* Proofs about Lifecycle, for any number of tasks, workers and open       *)
(* requests, and through any number of ends and restarts of the process.   *)
(***************************************************************************)
EXTENDS Lifecycle, TaskManagerProofs

-----------------------------------------------------------------------------
(***************************************************************************)
(* For the task manager a step of the process is a step of its own, or the *)
(* beginning of a new life, so its invariants hold through restarts.       *)
(***************************************************************************)

LEMMA ExitResets ==
  ASSUME NEW code, Exit(code)
  PROVE  proc' = "off" /\ Init'
BY DEF Exit, Init, CacheInit

LEMMA LifeSteps ==
  ASSUME LifeNext
  PROVE  [Next]_vars \/ (proc' = "off" /\ Init')
<1>1. CASE TasksRun
  BY <1>1 DEF TasksRun, Next, Own
<1>2. CASE \/ Boot   \/ Setup           \/ Flush    \/ HookSyncs
           \/ Arrive \/ ShutdownTimeout \/ Answer
  BY <1>2 DEF Boot, Setup, Flush, HookSyncs, Arrive, Answer, ShutdownTimeout
<1>3. CASE InitConf \/ InitExecutors \/ InitK8s
  BY <1>3, ExitResets DEF InitConf, InitExecutors, InitK8s
<1>4. CASE Run \/ Signal \/ Quit
  BY <1>4, ExitResets DEF Run, Signal, Quit
<1>5. CASE ShutdownReturns \/ Crash
  BY <1>5, ExitResets DEF ShutdownReturns, Crash
<1> QED  BY <1>1, <1>2, <1>3, <1>4, <1>5 DEF LifeNext

LEMMA PoolAgain == Init' => PoolInv'
BY PoolInitially, PTL

LEMMA LifePoolStep == PoolInv /\ [LifeNext]_lifeVars => PoolInv'
<1>1. CASE LifeNext
  BY <1>1, LifeSteps, PoolStep, PoolAgain
<1>2. CASE UNCHANGED lifeVars
  BY <1>2, PoolStep DEF lifeVars
<1> QED  BY <1>1, <1>2

\* No end of the process loses or leaves behind a worker token: in every life
\* the tokens are those of the goroutines that hold one.
THEOREM LifePoolSafe == LifeSpec => []PoolBound
<1>1. LifeInit => PoolInv
  BY PoolInitially DEF LifeInit
<1>2. PoolInv => PoolBound
  BY HoldersFinite DEF PoolInv, PoolBound, TypeOK
<1> QED  BY <1>1, <1>2, LifePoolStep, PTL DEF LifeSpec

LEMMA InvAgain == Init' => IInv'
BY InvInitially, PTL

LEMMA LifeInvStep ==
  ASSUME UniqueIDs, IInv, [LifeNext]_lifeVars
  PROVE  IInv'
<1>1. CASE LifeNext
  BY <1>1, LifeSteps, InvStep, InvAgain
<1>2. CASE UNCHANGED lifeVars
  BY <1>2, InvStep DEF lifeVars
<1> QED  BY <1>1, <1>2

LEMMA LifeInvAlways == UniqueIDs /\ LifeSpec => []IInv
<1> SUFFICES ASSUME UniqueIDs PROVE LifeSpec => []IInv
  OBVIOUS
<1>1. LifeInit => IInv
  BY InvInitially DEF LifeInit
<1>2. IInv /\ [LifeNext]_lifeVars => IInv'
  BY LifeInvStep
<1> QED  BY <1>1, <1>2, PTL DEF LifeSpec

\* The callback agrees with what polls answer in every life of the process,
\* as long as no ID is used twice.
THEOREM LifeCallbackSafe == UniqueIDs /\ LifeSpec => []CallbackAgrees
BY CallbacksFit, LifeInvAlways, PTL

\* So it is with the rest of what the task manager promises to its callers:
\* no restart leaves a task running without a goroutine, completed without
\* its results, or unknown to the cache.
THEOREM LifeRunningSafe == UniqueIDs /\ LifeSpec => []RunningHoldsToken
BY RunningFits, LifeInvAlways, PTL

\* A completed task has the results of all its items, in every life.
THEOREM LifeCompletedSafe == UniqueIDs /\ LifeSpec => []CompletedHasAllResults
BY CompletedFits, LifeInvAlways, PTL

\* An accepted task can be polled, in every life.
THEOREM LifeRetainedSafe == UniqueIDs /\ LifeSpec => []Retained
BY RetainedFits, LifeInvAlways, PTL

LEMMA ContractAgain == Init' => Contract!Init'
BY ContractInitially, PTL

\* Through all lives the tasks keep their contract, one life after another:
\* what an end of the process makes of them is the contract's beginning.
THEOREM LivesRefine == UniqueIDs /\ LifeSpec => LivesKeepContract
<1> SUFFICES ASSUME UniqueIDs PROVE LifeSpec => LivesKeepContract
  OBVIOUS
<1>1. LifeInit => Contract!Init
  BY ContractInitially DEF LifeInit
<1>2. IInv /\ [LifeNext]_lifeVars =>
        [Contract!Next \/ (proc' = "off" /\ Contract!Init')]_(Contract!vars)
  <2> SUFFICES ASSUME IInv, [LifeNext]_lifeVars
               PROVE  \/ [Contract!Next]_(Contract!vars)
                      \/ proc' = "off" /\ Contract!Init'
    OBVIOUS
  <2>1. CASE LifeNext
    BY <2>1, LifeSteps, StepRefines, ContractAgain
  <2>2. CASE UNCHANGED lifeVars
    BY <2>2, StepRefines DEF lifeVars
  <2> QED  BY <2>1, <2>2
<1>3. LifeSpec => []IInv
  BY LifeInvAlways
<1> QED  BY <1>1, <1>2, <1>3, PTL DEF LifeSpec, LivesKeepContract

-----------------------------------------------------------------------------
(***************************************************************************)
(* The start and the log.                                                  *)
(***************************************************************************)

\* How far main has come tells what the start has achieved; there is a server
\* only while main waits or shuts down.
StartFits ==
    /\ proc \in {"executors", "k8s", "setup"} \cup Up => config
    /\ proc \in {"k8s", "setup"} \cup Up => registry
    /\ proc \in {"setup"} \cup Up => ruleManager
    /\ proc \notin Up => server = "none"
    /\ proc = "waiting" => server \in {"starting", "running"}

\* The hook is there only in a shutdown; once it is done, the lines from
\* before the signal are on the disk, and no line can become one of them.
HookFits ==
    /\ hook # "none" => proc = "shutdown"
    /\ hook = "done" => "early" \notin unsaved

LifeInv == LifeTypeOK /\ StartFits /\ HookFits

LEMMA ExitFits ==
  ASSUME LifeInv, PoolInv', NEW code \in {"0", "1", "2", "killed"},
         Exit(code)
  PROVE  LifeInv'
<1>1. TypeOK'
  BY DEF PoolInv
<1>2. open' = 0 /\ open' \in 0..MaxOpen
  BY LifecycleConstants DEF Exit
<1>3. HookFits'
  BY DEF Exit, HookFits
<1>4. StartFits'
  BY DEF Exit, StartFits, Up
<1>5. LifeTypeOK'
  BY <1>1, <1>2 DEF Exit, LifeInv, LifeTypeOK
<1> QED  BY <1>3, <1>4, <1>5 DEF LifeInv

LEMMA LifeStep ==
  ASSUME LifeInv, PoolInv', [LifeNext]_lifeVars
  PROVE  LifeInv'
<1> USE LifecycleConstants
    DEF LifeInv, LifeTypeOK, StartFits, HookFits, PoolInv, Starting, Up
<1>1. CASE Boot  BY <1>1 DEF Boot
<1>2. CASE InitConf
  <2>1. CASE Exit("2")
    BY <2>1, ExitFits
  <2>2. CASE ~Exit("2")
    BY <1>2, <2>2 DEF InitConf
  <2> QED  BY <2>1, <2>2
<1>3. CASE InitExecutors
  <2>1. CASE Exit("1")
    BY <2>1, ExitFits
  <2>2. CASE ~Exit("1")
    BY <1>3, <2>2 DEF InitExecutors
  <2> QED  BY <2>1, <2>2
<1>4. CASE InitK8s  BY <1>4, ExitFits DEF InitK8s
<1>5. CASE Setup  BY <1>5 DEF Setup
<1>6. CASE Run  BY <1>6, ExitFits DEF Run
<1>7. CASE Signal  BY <1>7, ExitFits DEF Signal
<1>8. CASE Quit
  <2>1. CASE Exit("1")
    BY <2>1, ExitFits
  <2>2. CASE ~Exit("1")
    <3>1. LifeTypeOK'
      BY <1>8, <2>2 DEF Quit
    <3>2. /\ proc = "waiting" /\ proc' = "shutdown"
          /\ hook' = "running"
          /\ UNCHANGED <<config, registry, ruleManager, unsaved>>
      BY <1>8, <2>2 DEF Quit
    <3>3. config /\ registry /\ ruleManager
      BY <3>2
    <3>4. StartFits' /\ HookFits'
      BY <3>2, <3>3
    <3> QED  BY <3>1, <3>4
  <2> QED  BY <2>1, <2>2
<1>9. CASE HookSyncs  BY <1>9 DEF HookSyncs
<1>10. CASE Flush  BY <1>10 DEF Flush
<1>11. CASE ShutdownTimeout  BY <1>11 DEF ShutdownTimeout
<1>12. CASE ShutdownReturns  BY <1>12, ExitFits DEF ShutdownReturns
<1>13. CASE Crash  BY <1>13, ExitFits DEF Crash
<1>14. CASE Arrive  BY <1>14 DEF Arrive, Log
<1>15. CASE Answer  BY <1>15 DEF Answer, Log
<1>16. CASE TasksRun  BY <1>16 DEF TasksRun, processVars
<1>17. CASE UNCHANGED lifeVars  BY <1>17 DEF lifeVars, processVars
<1> QED
  BY <1>1, <1>2, <1>3, <1>4, <1>5, <1>6, <1>7, <1>8, <1>9, <1>10, <1>11,
     <1>12, <1>13, <1>14, <1>15, <1>16, <1>17
  DEF LifeNext

LEMMA LifeAlways == LifeSpec => []LifeInv
<1>1. LifeInit => PoolInv
  BY PoolInitially DEF LifeInit
<1>2. LifeInit /\ PoolInv => LifeInv
  <2> SUFFICES ASSUME LifeInit, PoolInv PROVE LifeInv
    OBVIOUS
  <2>1. LifeTypeOK
    <3>1. open \in 0..MaxOpen /\ unsaved \subseteq {"early", "late"}
      BY LifecycleConstants DEF LifeInit, NoProcess
    <3>2. TypeOK
      BY DEF PoolInv
    <3> QED  BY <3>1, <3>2, Zenon DEF LifeInit, NoProcess, LifeTypeOK
  <2>2. StartFits /\ HookFits
    BY DEF LifeInit, NoProcess, StartFits, HookFits, Up
  <2> QED  BY <2>1, <2>2 DEF LifeInv
<1>3. LifeInv /\ PoolInv' /\ [LifeNext]_lifeVars => LifeInv'
  BY LifeStep
<1> QED  BY <1>1, <1>2, <1>3, LifePoolStep, PTL DEF LifeSpec

\* The variables of the process and of the task manager keep their types.
THEOREM LifeTypes == LifeSpec => []LifeTypeOK
<1>1. LifeInv => LifeTypeOK
  BY DEF LifeInv
<1> QED  BY <1>1, LifeAlways, PTL

\* Whenever a request can be answered, the configuration, the registry and
\* the rule manager are there: "ready" is never a lie.
THEOREM ReadySafe == LifeSpec => []ReadyTellsTruth
<1>1. LifeInv => ReadyTellsTruth
  BY DEF LifeInv, StartFits, ReadyTellsTruth
<1> QED  BY <1>1, LifeAlways, PTL

\* An orderly end within the five seconds loses no line that was logged
\* before the signal.
THEOREM LogSafe == LifeSpec => LogSurvives
<1> DEFINE Kept == proc = "shutdown" /\ proc' = "off" /\ exitCode' = "0"
                        /\ ~late => "early" \notin unsaved'
<1>1. LifeInv /\ [LifeNext]_lifeVars => [Kept]_lifeVars
  <2> SUFFICES ASSUME LifeInv, LifeNext, proc = "shutdown", proc' = "off",
                      exitCode' = "0", ~late
               PROVE  "early" \notin unsaved'
    OBVIOUS
  <2>1. ShutdownReturns
    BY DEF LifeNext, LifeInv, StartFits, Boot, InitConf, InitExecutors,
           InitK8s, Setup, Run, Signal, Quit, Exit, HookSyncs, Flush,
           ShutdownTimeout, Crash, Arrive, Answer, TasksRun, processVars,
           Starting, Up
  <2>2. hook = "done" /\ unsaved' = unsaved
    BY <2>1 DEF ShutdownReturns, Exit
  <2> QED  BY <2>2 DEF LifeInv, HookFits
<1> QED  BY <1>1, LifeAlways, PTL DEF LifeSpec, LogSurvives

-----------------------------------------------------------------------------
(***************************************************************************)
(* A signal ends the process.  The prover takes ENABLED as it stands, so   *)
(* the theorem takes as a premise what its definition says of main's three *)
(* last steps: each is possible when its guard holds.                      *)
(***************************************************************************)
MainGuards ==
    /\ proc = "waiting" /\ quit /\ server \in {"starting", "running"} =>
            ENABLED <<Quit>>_lifeVars
    /\ proc = "shutdown" /\ ~late => ENABLED <<ShutdownTimeout>>_lifeVars
    /\ proc = "shutdown" /\ late => ENABLED <<ShutdownReturns>>_lifeVars

\* The way from the signal to the end.
Signalled == proc = "waiting" /\ quit
Draining  == proc = "shutdown" /\ ~late
Late      == proc = "shutdown" /\ late
Ended     == proc = "off"

\* Nothing leads back on the way, and main's step leads on.
LEMMA SignalStays ==
  ASSUME LifeInv, [LifeNext]_lifeVars
  PROVE  /\ Signalled => (Signalled \/ Draining \/ Late \/ Ended)'
         /\ Draining => (Draining \/ Late \/ Ended)'
         /\ Late => (Late \/ Ended)'
BY DEF LifeInv, LifeTypeOK, StartFits, Signalled, Draining, Late, Ended,
       lifeVars, processVars, LifeNext, Boot, InitConf, InitExecutors, InitK8s,
       Setup, Run, Signal, Quit, Exit, HookSyncs, Flush, ShutdownTimeout,
       ShutdownReturns, Crash, Arrive, Answer, TasksRun, Starting, Up

\* A signal ends the process in the end, however many requests and tasks
\* there are and whatever they do.
THEOREM SignalAlwaysEnds == FairLifeSpec /\ []MainGuards => SignalEnds
<1>1. LifeInv /\ [LifeNext]_lifeVars /\ Signalled
        => (Signalled \/ Draining \/ Late \/ Ended)'
  BY SignalStays
<1>2. LifeInv /\ [LifeNext]_lifeVars /\ Draining => (Draining \/ Late \/ Ended)'
  BY SignalStays
<1>3. LifeInv /\ [LifeNext]_lifeVars /\ Late => (Late \/ Ended)'
  BY SignalStays
<1>4. <<Quit>>_lifeVars => (Draining \/ Late \/ Ended)'
  BY DEF Quit, Exit, Draining, Late, Ended
<1>5. <<ShutdownTimeout>>_lifeVars => Late'
  BY DEF ShutdownTimeout, Late
<1>6. <<ShutdownReturns>>_lifeVars => Ended'
  BY DEF ShutdownReturns, Exit, Ended
<1>7. LifeInv /\ MainGuards /\ Signalled => ENABLED <<Quit>>_lifeVars
  BY DEF MainGuards, Signalled, LifeInv, StartFits
<1>8. MainGuards /\ Draining => ENABLED <<ShutdownTimeout>>_lifeVars
  BY DEF MainGuards, Draining
<1>9. MainGuards /\ Late => ENABLED <<ShutdownReturns>>_lifeVars
  BY DEF MainGuards, Late
<1>10. FairLifeSpec => LifeSpec /\ MainFairness
  BY DEF FairLifeSpec
<1>11. SignalEnds <=> (Signalled ~> Ended)
  BY PTL DEF SignalEnds, Signalled, Ended
<1> QED
  BY <1>1, <1>2, <1>3, <1>4, <1>5, <1>6, <1>7, <1>8, <1>9, <1>10, <1>11,
     LifeAlways, PTL
  DEF LifeSpec, MainFairness
=============================================================================
