---------------------------- MODULE SSHTaskProofs ----------------------------
(***************************************************************************)
(* Proofs about SSHTask, for requests of any length and commands of any    *)
(* output: the answers of ssh items, and that a task with ssh items is a   *)
(* task as ExecuteTask describes it.                                       *)
(***************************************************************************)
EXTENDS SSHTask, ExecuteTaskProofs

(***************************************************************************)
(* Until it has sent its error the runner leaves the channel empty, and it *)
(* sends nil only when the command was seen through, which no later step   *)
(* can undo; Execute decides on a whole answer from nothing but that nil.  *)
(***************************************************************************)
Whole(c) ==
    /\ command[c] = "zero"
    /\ copied[c] = out[c]

CallInv(c) ==
    /\ at[c] \in {"idle", "dial", "session"} => runner[c] = "none"
    /\ at[c] # "returned" => answer[c].status = "none"
    /\ at[c] = "returned" => answer[c].status # "none"
    /\ runner[c] # "ended" => done[c] = "empty"
    /\ runner[c] = "sendNil" => Whole(c)
    /\ done[c] = "nil" => Whole(c)
    /\ answer[c].status \in {"normal", "warning"} =>
            /\ Whole(c)
            /\ answer[c] = SSH!Judge(c)

CallsInv == SSH!TypeOK /\ \A c \in 1..MaxItems : CallInv(c)

LEMMA AnswerTypes ==
  ASSUME NEW c \in 1..MaxItems, SSH!TypeOK
  PROVE  /\ {SSH!Refusal, SSH!CommandFailed, SSH!Judge(c)} \subseteq SSH!Answers
         /\ SSH!Refusal.status = "failed" /\ SSH!CommandFailed.status = "failed"
         /\ SSH!Judge(c).status \in {"normal", "warning"}
BY SSHTaskConstants
DEF SSH!Refusal, SSH!CommandFailed, SSH!Answers, SSH!Judge, SSH!TypeOK

\* A return changes the call it is of, and nothing else.
LEMMA Returned ==
  ASSUME NEW c \in 1..MaxItems, SSH!TypeOK, NEW from,
         NEW a \in SSH!Answers, SSH!Return(c, from, a)
  PROVE  /\ at[c] = from /\ at'[c] = "returned" /\ answer'[c] = a
         /\ conn'[c] = IF conn[c] = "none" THEN "none" ELSE "closed"
         /\ at' \in [1..MaxItems -> {"idle", "dial", "session", "select",
                                     "returned"}]
         /\ conn' \in [1..MaxItems -> {"none", "open", "lost", "closed"}]
         /\ answer' \in [1..MaxItems -> SSH!Answers]
         /\ \A d \in 1..MaxItems \ {c} :
                UNCHANGED <<at[d], conn[d], answer[d]>>
BY DEF SSH!Return, SSH!Goto, SSH!TypeOK

\* A step of one call keeps the types.
LEMMA CallTypes ==
  ASSUME NEW c \in 1..MaxItems, SSH!TypeOK, ctx' \in {"live", "deadline"},
         SSH!Start(c) \/ SSH!Step(c)
  PROVE  SSH!TypeOK'
<1>1. CASE SSH!Start(c)
  BY <1>1, Returned, AnswerTypes, SSHTaskConstants DEF SSH!Start, SSH!Goto, SSH!TypeOK
<1>2. CASE SSH!DialReturns(c)
  BY <1>2, Returned, AnswerTypes, SSHTaskConstants DEF SSH!DialReturns, SSH!Goto, SSH!TypeOK
<1>3. CASE SSH!SessionReturns(c)
  BY <1>3, Returned, AnswerTypes, SSHTaskConstants DEF SSH!SessionReturns, SSH!Goto, SSH!TypeOK
<1>4. CASE SSH!WaitEnds(c)
  BY <1>4, Returned, AnswerTypes, SSHTaskConstants DEF SSH!WaitEnds, SSH!Goto, SSH!TypeOK
<1>5. CASE SSH!RunReturns(c)
  BY <1>5, SSHTaskConstants DEF SSH!RunReturns, SSH!TypeOK
<1>6. CASE SSH!SendDone(c)
  BY <1>6, SSHTaskConstants DEF SSH!SendDone, SSH!TypeOK
<1>7. CASE SSH!CopyOutput(c)
  BY <1>7, SSHTaskConstants DEF SSH!CopyOutput, SSH!TypeOK
<1>8. CASE SSH!CommandStarts(c)
  BY <1>8, SSHTaskConstants DEF SSH!CommandStarts, SSH!TypeOK
<1>9. CASE SSH!CommandWrites(c)
  BY <1>9, SSHTaskConstants DEF SSH!CommandWrites, SSH!TypeOK
<1>10. CASE SSH!CommandEnds(c)
  BY <1>10, SSHTaskConstants DEF SSH!CommandEnds, SSH!TypeOK
<1>11. CASE SSH!ConnectionLost(c)
  BY <1>11, SSHTaskConstants DEF SSH!ConnectionLost, SSH!TypeOK
<1> QED
  BY <1>1, <1>2, <1>3, <1>4, <1>5, <1>6,
     <1>7, <1>8, <1>9, <1>10, <1>11
  DEF SSH!Step

\* What one call does leaves the others alone.
LEMMA OtherCall ==
  ASSUME NEW c \in 1..MaxItems, NEW d \in 1..MaxItems, c # d, SSH!TypeOK,
         SSH!Start(c) \/ SSH!Step(c)
  PROVE  UNCHANGED <<at[d], param[d], conn[d], runner[d], done[d], command[d],
                     out[d], copied[d], answer[d]>>
<1>1. CASE SSH!Start(c)
  <2>1. CASE SSH!Return(c, "idle", SSH!Refusal)
    BY <1>1, <2>1, Returned, AnswerTypes
    DEF SSH!Start, SSH!TypeOK
  <2>2. CASE ~SSH!Return(c, "idle", SSH!Refusal)
    BY <1>1, <2>2
    DEF SSH!Start, SSH!Goto, SSH!TypeOK
  <2> QED  BY <2>1, <2>2
<1>2. CASE SSH!DialReturns(c)
  <2>1. CASE SSH!Return(c, "dial", SSH!Refusal)
    BY <1>2, <2>1, Returned, AnswerTypes
    DEF SSH!DialReturns, SSH!TypeOK
  <2>2. CASE ~SSH!Return(c, "dial", SSH!Refusal)
    BY <1>2, <2>2
    DEF SSH!DialReturns, SSH!Goto, SSH!TypeOK
  <2> QED  BY <2>1, <2>2
<1>3. CASE SSH!SessionReturns(c)
  <2>1. CASE SSH!Return(c, "session", SSH!Refusal)
    <3>1. at'[c] = "returned" /\ UNCHANGED <<at[d], conn[d], answer[d]>>
      BY <2>1, Returned, AnswerTypes
    <3>2. UNCHANGED <<runner, param, done, command, out, copied>>
      BY <1>3, <3>1 DEF SSH!SessionReturns, SSH!Goto, SSH!TypeOK
    <3> QED  BY <3>1, <3>2
  <2>2. CASE ~SSH!Return(c, "session", SSH!Refusal)
    BY <1>3, <2>2
    DEF SSH!SessionReturns, SSH!Goto, SSH!TypeOK
  <2> QED  BY <2>1, <2>2
<1>4. CASE SSH!WaitEnds(c)
  BY <1>4, Returned, AnswerTypes DEF SSH!WaitEnds, SSH!Goto, SSH!TypeOK
<1>5. CASE SSH!RunReturns(c)
  BY <1>5 DEF SSH!RunReturns, SSH!TypeOK
<1>6. CASE SSH!SendDone(c)
  BY <1>6 DEF SSH!SendDone, SSH!TypeOK
<1>7. CASE SSH!CopyOutput(c)
  BY <1>7 DEF SSH!CopyOutput, SSH!TypeOK
<1>8. CASE SSH!CommandStarts(c)
  BY <1>8 DEF SSH!CommandStarts, SSH!TypeOK
<1>9. CASE SSH!CommandWrites(c)
  BY <1>9 DEF SSH!CommandWrites, SSH!TypeOK
<1>10. CASE SSH!CommandEnds(c)
  BY <1>10 DEF SSH!CommandEnds, SSH!TypeOK
<1>11. CASE SSH!ConnectionLost(c)
  BY <1>11 DEF SSH!ConnectionLost, SSH!TypeOK
<1> QED
  BY <1>1, <1>2, <1>3, <1>4, <1>5, <1>6,
     <1>7, <1>8, <1>9, <1>10, <1>11
  DEF SSH!Step

LEMMA CallFrame ==
  ASSUME NEW c \in 1..MaxItems, NEW d \in 1..MaxItems, c # d, SSH!TypeOK,
         SSH!Start(c) \/ SSH!Step(c), CallInv(d)
  PROVE  CallInv(d)'
BY OtherCall DEF CallInv, Whole, SSH!Judge

\* One step of a call keeps its invariant.
LEMMA CallSelf ==
  ASSUME NEW c \in 1..MaxItems, SSH!TypeOK, CallInv(c),
         SSH!Start(c) \/ SSH!Step(c)
  PROVE  CallInv(c)'
<1>1. CASE SSH!Start(c)
  <2>1. CASE SSH!Return(c, "idle", SSH!Refusal)
    <3>1. /\ at[c] = "idle" /\ at'[c] = "returned"
          /\ answer'[c].status = "failed"
      BY <2>1, Returned, AnswerTypes
    <3>2. UNCHANGED <<runner, done, command, out, copied>>
      BY <1>1 DEF SSH!Start
    <3> QED  BY <3>1, <3>2 DEF CallInv, Whole
  <2>2. CASE ~SSH!Return(c, "idle", SSH!Refusal)
    BY <1>1, <2>2
    DEF SSH!Start, SSH!Goto, CallInv, Whole, SSH!TypeOK,
        SSH!Judge
  <2> QED  BY <2>1, <2>2
<1>2. CASE SSH!DialReturns(c)
  <2>1. CASE SSH!Return(c, "dial", SSH!Refusal)
    BY <1>2, <2>1, Returned, AnswerTypes
    DEF SSH!DialReturns, CallInv, Whole, SSH!TypeOK,
        SSH!Judge
  <2>2. CASE ~SSH!Return(c, "dial", SSH!Refusal)
    BY <1>2, <2>2
    DEF SSH!DialReturns, SSH!Goto, CallInv, Whole, SSH!TypeOK,
        SSH!Judge
  <2> QED  BY <2>1, <2>2
<1>3. CASE SSH!SessionReturns(c)
  <2>1. CASE SSH!Return(c, "session", SSH!Refusal)
    <3>1. /\ at[c] = "session" /\ at'[c] = "returned"
          /\ answer'[c].status = "failed"
      BY <2>1, Returned, AnswerTypes
    <3>2. UNCHANGED <<runner, done, command, out, copied>>
      BY <1>3, <3>1 DEF SSH!SessionReturns, SSH!Goto, SSH!TypeOK
    <3> QED  BY <3>1, <3>2 DEF CallInv, Whole
  <2>2. CASE ~SSH!Return(c, "session", SSH!Refusal)
    BY <1>3, <2>2
    DEF SSH!SessionReturns, SSH!Goto, CallInv, Whole, SSH!TypeOK,
        SSH!Judge
  <2> QED  BY <2>1, <2>2
<1>4. CASE SSH!WaitEnds(c)
  BY <1>4, Returned, AnswerTypes DEF SSH!WaitEnds, SSH!Goto, CallInv, Whole, SSH!TypeOK, SSH!Judge
<1>5. CASE SSH!RunReturns(c)
  BY <1>5 DEF SSH!RunReturns, CallInv, Whole, SSH!TypeOK, SSH!Judge
<1>6. CASE SSH!SendDone(c)
  BY <1>6 DEF SSH!SendDone, CallInv, Whole, SSH!TypeOK, SSH!Judge
<1>7. CASE SSH!CopyOutput(c)
  BY <1>7 DEF SSH!CopyOutput, CallInv, Whole, SSH!TypeOK, SSH!Judge
<1>8. CASE SSH!CommandStarts(c)
  BY <1>8 DEF SSH!CommandStarts, CallInv, Whole, SSH!TypeOK, SSH!Judge
<1>9. CASE SSH!CommandWrites(c)
  BY <1>9 DEF SSH!CommandWrites, CallInv, Whole, SSH!TypeOK, SSH!Judge
<1>10. CASE SSH!CommandEnds(c)
  BY <1>10 DEF SSH!CommandEnds, CallInv, Whole, SSH!TypeOK, SSH!Judge
<1>11. CASE SSH!ConnectionLost(c)
  BY <1>11 DEF SSH!ConnectionLost, CallInv, Whole, SSH!TypeOK, SSH!Judge
<1> QED
  BY <1>1, <1>2, <1>3, <1>4, <1>5, <1>6,
     <1>7, <1>8, <1>9, <1>10, <1>11
  DEF SSH!Step

-----------------------------------------------------------------------------
(***************************************************************************)
(* The composition.                                                        *)
(***************************************************************************)

LEMMA OneCall ==
  ASSUME NEW c \in 1..MaxItems, CallsInv, ctx' \in {"live", "deadline"},
         SSH!Start(c) \/ SSH!Step(c)
  PROVE  CallsInv'
<1>1. SSH!TypeOK'
  BY CallTypes DEF CallsInv
<1>2. ASSUME NEW d \in 1..MaxItems PROVE CallInv(d)'
  BY CallFrame, CallSelf DEF CallsInv
<1> QED  BY <1>1, <1>2 DEF CallsInv

LEMMA NoCall ==
  ASSUME CallsInv, ctx' \in {"live", "deadline"}, UNCHANGED callVars
  PROVE  CallsInv'
BY DEF CallsInv, CallInv, Whole, SSH!Judge, SSH!TypeOK, callVars

LEMMA CallsInitially == TaskInit => CallsInv
<1> SUFFICES ASSUME TaskInit PROVE CallsInv
  OBVIOUS
<1>1. /\ SSH!NoParams \in SSH!Params
      /\ SSH!NoAnswer \in SSH!Answers /\ SSH!NoAnswer.status = "none"
      /\ 0 \in 0..MaxOut
  BY SSHTaskConstants
  DEF SSH!Params, SSH!NoParams, SSH!Answers, SSH!NoAnswer
<1>2. SSH!TypeOK
  BY <1>1 DEF TaskInit, Init, SSH!CallsInit, SSH!TypeOK
<1>3. ASSUME NEW c \in 1..MaxItems PROVE CallInv(c)
  BY <1>1 DEF TaskInit, SSH!CallsInit, CallInv
<1> QED  BY <1>2, <1>3 DEF CallsInv

\* The item at hand is a call of this task.
LEMMA CurrentCall == TypeOK /\ AtSSH => Current \in 1..MaxItems
<1> SUFFICES ASSUME TypeOK, AtSSH PROVE Current \in 1..MaxItems
  OBVIOUS
<1> QED  BY ExecuteConstants DEF TypeOK, AtSSH, Requests

\* Every step of the task with its calls is one of ExecuteTask or hidden.
LEMMA TaskStepRefines ==
  ASSUME TypeOK, CallsInv, [TaskNext]_taskVars
  PROVE  [Next]_vars
<1>1. CASE SSHReturns
  <2> DEFINE a == answer[Current]
  <2>1. Current \in 1..MaxItems
    BY <1>1, CurrentCall DEF SSHReturns
  <2>2. a.status \in {"normal", "warning", "failed"}
    BY <1>1, <2>1 DEF SSHReturns, CallsInv, CallInv, SSH!TypeOK, SSH!Answers
  <2>3. a.status \in Verdicts
    BY <2>2 DEF Verdicts
  <2>4. ExecuteReturns
    BY <1>1, <2>3 DEF SSHReturns, ExecuteReturns
  <2> QED  BY <2>4 DEF Next
<1>2. CASE RunSteps \/ SSHCalled \/ OtherCalled \/ OtherReturns \/ Expire
  BY <1>2 DEF RunSteps, SSHCalled, OtherCalled, OtherReturns, Expire, Next
<1>3. CASE CallSteps \/ UNCHANGED taskVars
  BY <1>3 DEF CallSteps, taskVars
<1> QED  BY <1>1, <1>2, <1>3 DEF TaskNext

LEMMA CallsStep ==
  ASSUME TypeOK, TypeOK', CallsInv, [TaskNext]_taskVars
  PROVE  CallsInv'
<1>0. ctx' \in {"live", "deadline"}
  BY DEF TypeOK
<1>1. CASE SSHCalled
  BY <1>0, <1>1, CurrentCall, OneCall DEF SSHCalled
<1>2. CASE CallSteps
  BY <1>0, <1>2, OneCall DEF CallSteps
<1>3. CASE \/ RunSteps \/ SSHReturns \/ OtherCalled \/ OtherReturns \/ Expire
           \/ UNCHANGED taskVars
  <2>1. UNCHANGED callVars
    BY <1>3 DEF RunSteps, SSHReturns, OtherCalled, OtherReturns, Expire,
                taskVars
  <2> QED  BY <1>0, <2>1, NoCall
<1> QED  BY <1>1, <1>2, <1>3 DEF TaskNext

LEMMA RunInvTypes == RunInv => TypeOK
BY DEF RunInv

LEMMA TaskAlways == TaskSpec => [](RunInv /\ CallsInv)
<1>1. TaskInit => RunInv /\ CallsInv
  BY RunInvInit, CallsInitially DEF TaskInit
<1>2. RunInv /\ CallsInv /\ [TaskNext]_taskVars => (RunInv /\ CallsInv)'
  <2> SUFFICES ASSUME RunInv, CallsInv, [TaskNext]_taskVars
               PROVE  RunInv' /\ CallsInv'
    OBVIOUS
  <2>1. RunInv'
    BY TaskStepRefines, RunInvStep, RunInvTypes
  <2>2. TypeOK'
    BY <2>1 DEF RunInv
  <2> QED  BY <2>1, <2>2, CallsStep, RunInvTypes
<1> QED  BY <1>1, <1>2, PTL DEF TaskSpec

\* The variables of Run and of its calls keep their types.
THEOREM TaskTypes == TaskSpec => []TaskTypeOK
<1>1. RunInv /\ CallsInv => TaskTypeOK
  BY DEF RunInv, CallsInv, TaskTypeOK
<1> QED  BY <1>1, TaskAlways, PTL

\* Refinement: seen without the inside of its calls, a task with ssh items is
\* a task as ExecuteTask describes it.
THEOREM TaskRefinesExecuteTask == TaskSpec => RefinesExecuteTask
<1>1. TaskInit => Init
  BY DEF TaskInit
<1>2. RunInv /\ CallsInv /\ [TaskNext]_taskVars => [Next]_vars
  BY TaskStepRefines, RunInvTypes
<1> QED  BY <1>1, <1>2, TaskAlways, PTL DEF TaskSpec, RefinesExecuteTask, Spec

\* So nothing of it is dropped,
THEOREM TaskDropsNothing == TaskSpec => []NothingDropped
BY TaskRefinesExecuteTask, RunDropsNothing, PTL DEF RefinesExecuteTask

\* and its failures show.
THEOREM TaskShowsFailures == TaskSpec => []FailuresShow
BY TaskRefinesExecuteTask, RunShowsFailures, PTL DEF RefinesExecuteTask

\* An ssh item that is answered normal or warning has seen its command
\* through, and the answer has all of its output.
THEOREM AnswersWhole == TaskSpec => []AnswersAreWhole
<1>1. CallsInv => AnswersAreWhole
  <2> SUFFICES ASSUME CallsInv, NEW c \in 1..MaxItems,
                      answer[c].status \in {"normal", "warning"}
               PROVE  /\ command[c] = "zero"
                      /\ answer[c].value = out[c]
                      /\ (answer[c].status = "warning") =
                            (param[c].threshold
                                /\ param[c].mark \in 1..out[c])
    BY DEF AnswersAreWhole, SSH!AnswerIsWhole
  <2>1. Whole(c) /\ answer[c] = SSH!Judge(c)
    BY DEF CallsInv, CallInv
  <2> QED  BY <2>1 DEF Whole, SSH!Judge
<1> QED  BY <1>1, TaskAlways, PTL

\* The runner never waits for a receiver: whenever it has an error to send,
\* the channel has room, whether or not Execute is still there.
THEOREM RunnersNeverBlock == TaskSpec => []SSH!NeverBlocks
<1>1. CallsInv => SSH!NeverBlocks
  BY DEF CallsInv, CallInv, SSH!NeverBlocks
<1> QED  BY <1>1, TaskAlways, PTL

-----------------------------------------------------------------------------
(***************************************************************************)
(* The end of the runner.  It rests on the connection: whatever Session.Run *)
(* waits for, Execute returns, closes the connection, and so ends it.      *)
(***************************************************************************)
Entered(c) ==
    /\ at[c] = "session" => conn[c] # "none"
    /\ at[c] = "select" => conn[c] # "none" /\ runner[c] # "none"

\* The stages on the way.
Selecting(c) == at[c] = "select" /\ conn[c] # "none" /\ runner[c] # "none"
Left(c)    == at[c] = "returned" /\ conn[c] = "closed" /\ runner[c] = "running"
Sending(c) == at[c] = "returned" /\ runner[c] \in {"sendNil", "sendError"}
Gone(c)    == runner[c] = "ended"

OnTheWay(c) == Selecting(c) \/ Left(c) \/ Sending(c) \/ Gone(c)

\* What a step of the call itself does to its stage.
LEMMA StageStep ==
  ASSUME NEW c \in 1..MaxItems, SSH!TypeOK, Entered(c),
         SSH!Start(c) \/ SSH!Step(c)
  PROVE  /\ Entered(c)'
         /\ Selecting(c) => OnTheWay(c)'
         /\ Left(c) => (Left(c) \/ Sending(c) \/ Gone(c))'
         /\ Sending(c) => (Sending(c) \/ Gone(c))'
<1> USE DEF Entered, OnTheWay, Selecting, Left, Sending, Gone
<1>1. CASE SSH!Start(c)
  BY <1>1 DEF SSH!Start, SSH!Return, SSH!Goto, SSH!TypeOK
<1>2. CASE SSH!DialReturns(c)
  BY <1>2 DEF SSH!DialReturns, SSH!Return, SSH!Goto, SSH!TypeOK
<1>3. CASE SSH!SessionReturns(c)
  BY <1>3 DEF SSH!SessionReturns, SSH!Return, SSH!Goto, SSH!TypeOK
<1>4. CASE SSH!WaitEnds(c)
  <2>1. /\ at[c] = "select" /\ at'[c] = "returned" /\ UNCHANGED runner
        /\ conn'[c] = IF conn[c] = "none" THEN "none" ELSE "closed"
    BY <1>4 DEF SSH!WaitEnds, SSH!Return, SSH!Goto, SSH!TypeOK
  <2>2. runner[c] \in {"none", "running", "sendNil", "sendError", "ended"}
    BY DEF SSH!TypeOK
  <2> QED  BY <2>1, <2>2
<1>5. CASE SSH!RunReturns(c)
  BY <1>5 DEF SSH!RunReturns, SSH!TypeOK
<1>6. CASE SSH!SendDone(c)
  BY <1>6 DEF SSH!SendDone, SSH!TypeOK
<1>7. CASE \/ SSH!CopyOutput(c)     \/ SSH!CommandStarts(c)
           \/ SSH!CommandWrites(c)  \/ SSH!CommandEnds(c)
  BY <1>7 DEF SSH!CopyOutput, SSH!CommandStarts, SSH!CommandWrites,
              SSH!CommandEnds
<1>8. CASE SSH!ConnectionLost(c)
  BY <1>8 DEF SSH!ConnectionLost, SSH!TypeOK
<1> QED
  BY <1>1, <1>2, <1>3, <1>4, <1>5, <1>6, <1>7, <1>8 DEF SSH!Step

\* And a step of the task.
LEMMA StageTaskStep ==
  ASSUME TypeOK, CallsInv, [TaskNext]_taskVars, NEW c \in 1..MaxItems,
         Entered(c)
  PROVE  /\ Entered(c)'
         /\ Selecting(c) => OnTheWay(c)'
         /\ Left(c) => (Left(c) \/ Sending(c) \/ Gone(c))'
         /\ Sending(c) => (Sending(c) \/ Gone(c))'
<1>1. ASSUME NEW d \in 1..MaxItems, SSH!Start(d) \/ SSH!Step(d)
      PROVE  /\ Entered(c)'
             /\ Selecting(c) => OnTheWay(c)'
             /\ Left(c) => (Left(c) \/ Sending(c) \/ Gone(c))'
             /\ Sending(c) => (Sending(c) \/ Gone(c))'
  <2>1. CASE d = c
    BY <1>1, <2>1, StageStep DEF CallsInv
  <2>2. CASE d # c
    <3>1. UNCHANGED <<at[c], conn[c], runner[c]>>
      BY <1>1, <2>2, OtherCall DEF CallsInv
    <3> QED
      BY <3>1 DEF Entered, OnTheWay, Selecting, Left, Sending, Gone
  <2> QED  BY <2>1, <2>2
<1>2. CASE SSHCalled
  BY <1>1, <1>2, CurrentCall DEF SSHCalled
<1>3. CASE CallSteps
  BY <1>1, <1>3 DEF CallSteps
<1>4. CASE \/ RunSteps \/ SSHReturns \/ OtherCalled \/ OtherReturns \/ Expire
           \/ UNCHANGED taskVars
  <2>1. UNCHANGED <<at, conn, runner>>
    BY <1>4 DEF RunSteps, SSHReturns, OtherCalled, OtherReturns, Expire,
                taskVars, callVars
  <2> QED  BY <2>1 DEF Entered, OnTheWay, Selecting, Left, Sending, Gone
<1> QED  BY <1>2, <1>3, <1>4 DEF TaskNext

(***************************************************************************)
(* The prover takes ENABLED as it stands; the theorem takes as a premise   *)
(* what its definition says of the steps of Execute and the runner: that   *)
(* they are possible when their guards hold.                               *)
(***************************************************************************)
CanWait(c) == ENABLED <<SSH!WaitEnds(c)>>_(SSH!vars)
CanRun(c)  == ENABLED <<SSH!RunReturns(c)>>_(SSH!vars)
CanSend(c) == ENABLED <<SSH!SendDone(c)>>_(SSH!vars)

GuardsOf(c) ==
    /\ at[c] = "select" => CanWait(c)
    /\ runner[c] = "running" /\ conn[c] = "closed" => CanRun(c)
    /\ runner[c] \in {"sendNil", "sendError"} /\ done[c] = "empty" => CanSend(c)

CallGuards == \A c \in 1..MaxItems : GuardsOf(c)

\* No runner goroutine is left behind, for any number of calls: also when its
\* command never ends and when the call was answered long ago.
THEOREM RunnersAllEnd == FairTaskSpec /\ []CallGuards => RunnersEnd
<1>1. ASSUME NEW c \in 1..MaxItems
      PROVE  FairTaskSpec /\ []CallGuards => SSH!RunnerEnds(c)
  <2> DEFINE Inv == RunInv /\ CallsInv
  <2>1. TaskInit => Entered(c)
    BY DEF TaskInit, SSH!CallsInit, Entered
  <2>2. Inv /\ Entered(c) /\ [TaskNext]_taskVars => Entered(c)'
    BY StageTaskStep, RunInvTypes
  <2>3. Entered(c) /\ at[c] = "select" => Selecting(c)
    BY DEF Entered, Selecting
  <2>4. Inv /\ Entered(c) /\ [TaskNext]_taskVars /\ Selecting(c)
          => (Selecting(c) \/ Left(c) \/ Sending(c) \/ Gone(c))'
    BY StageTaskStep, RunInvTypes DEF OnTheWay
  <2>5. Inv /\ Entered(c) /\ [TaskNext]_taskVars /\ Left(c)
          => (Left(c) \/ Sending(c) \/ Gone(c))'
    BY StageTaskStep, RunInvTypes
  <2>6. Inv /\ Entered(c) /\ [TaskNext]_taskVars /\ Sending(c)
          => (Sending(c) \/ Gone(c))'
    BY StageTaskStep, RunInvTypes
  <2>7. Inv /\ Entered(c) /\ <<SSH!WaitEnds(c)>>_(SSH!vars) /\ Selecting(c)
          => (Left(c) \/ Sending(c) \/ Gone(c))'
    <3> SUFFICES ASSUME Inv, SSH!WaitEnds(c), Selecting(c)
                 PROVE  (Left(c) \/ Sending(c) \/ Gone(c))'
      OBVIOUS
    <3>1. /\ at'[c] = "returned" /\ UNCHANGED runner
          /\ conn'[c] = IF conn[c] = "none" THEN "none" ELSE "closed"
      BY DEF SSH!WaitEnds, SSH!Return, SSH!Goto, SSH!TypeOK, CallsInv
    <3>2. runner[c] \in {"none", "running", "sendNil", "sendError", "ended"}
      BY DEF SSH!TypeOK, CallsInv
    <3> QED  BY <3>1, <3>2 DEF Selecting, Left, Sending, Gone
  <2>8. Inv /\ <<SSH!RunReturns(c)>>_(SSH!vars) /\ Left(c)
          => (Sending(c) \/ Gone(c))'
    BY DEF SSH!RunReturns, SSH!TypeOK, CallsInv, Left, Sending
  <2>9. Inv /\ <<SSH!SendDone(c)>>_(SSH!vars) => Gone(c)'
    BY DEF SSH!SendDone, SSH!TypeOK, CallsInv, Gone
  <2>10. CallGuards /\ Selecting(c) => CanWait(c)
    BY DEF CallGuards, GuardsOf, Selecting
  <2>11. CallGuards /\ Left(c) => CanRun(c)
    BY DEF CallGuards, GuardsOf, Left
  <2>12. CallGuards /\ Inv /\ Sending(c) => CanSend(c)
    BY DEF CallGuards, GuardsOf, Sending, CallsInv, CallInv
  <2>13. SSH!Fairness => SSH!FairTo(c)
    BY DEF SSH!Fairness
  <2>14. FairTaskSpec => TaskSpec /\ SSH!Fairness
    BY DEF FairTaskSpec
  <2>15. TaskSpec => []Inv
    BY TaskAlways
  <2>16. Gone(c) => runner[c] = "ended"
    BY DEF Gone
  <2> HIDE DEF Inv
  <2> QED
    BY <2>1, <2>2, <2>3, <2>4, <2>5, <2>6, <2>7, <2>8, <2>9, <2>10, <2>11,
       <2>12, <2>13, <2>14, <2>15, <2>16, PTL
    DEF TaskSpec, SSH!FairTo, SSH!RunnerEnds, CanWait, CanRun, CanSend
<1>2. FairTaskSpec /\ []CallGuards => \A c \in 1..MaxItems : SSH!RunnerEnds(c)
  BY <1>1
<1> QED  BY <1>2 DEF RunnersEnd, SSH!RunnersEnd
=============================================================================
