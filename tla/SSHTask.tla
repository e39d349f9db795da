------------------------------- MODULE SSHTask -------------------------------
(***************************************************************************)
(* ExecuteTask with its ssh items taken through SSHExecutor: item i runs   *)
(* as call i, under the context of Run.  A call that has returned is over  *)
(* for Run; its runner may live on while the next items run.               *)
(***************************************************************************)
EXTENDS ExecuteTask

CONSTANT MaxOut     \* bound: pieces of output of one command

ASSUME SSHTaskConstants == MaxOut \in Nat

VARIABLES at, param, conn, runner, done, command, out, copied, answer

SSH == INSTANCE SSHExecutor WITH Calls <- 1..MaxItems

callVars == <<at, param, conn, runner, done, command, out, copied, answer>>
taskVars == <<vars, callVars>>

TaskTypeOK == TypeOK /\ SSH!TypeOK

TaskInit == Init /\ SSH!CallsInit

AtSSH == Current \in DOMAIN items /\ items[Current] = "ssh"

\* (A mutated form: an answer that comes after the deadline is dropped.)
SSHReturns_Drops ==
    /\ pc = "execute" /\ AtSSH
    /\ at[Current] = "returned"
    /\ pc' = "loop"
    /\ IF ctx = "live" /\ ~answer[Current].error
       THEN Record(answer[Current].status,
                   ConvertResultStatus(answer[Current].status))
       ELSE UNCHANGED results
    /\ UNCHANGED <<items, ctx, status, message, callVars>>

\* SSHExecutor.Execute is called and has returned.
SSHCalled == AtSSH /\ Execute /\ SSH!Start(Current)
SSHReturns ==
    /\ pc = "execute" /\ AtSSH
    /\ at[Current] = "returned"
    /\ pc' = "loop"
    /\ IF answer[Current].error
       THEN Record("error", "failed")
       ELSE Record(answer[Current].status,
                   ConvertResultStatus(answer[Current].status))
    /\ UNCHANGED <<items, ctx, status, message, callVars>>

\* The other executors stay as ExecuteTask has them.
OtherCalled == ~AtSSH /\ Execute /\ UNCHANGED callVars
OtherReturns == ~AtSSH /\ ExecuteReturns /\ UNCHANGED callVars

\* The steps of Run itself.
RunSteps ==
    /\ Accept \/ Interrupt \/ NoExecutor \/ LoopEnds \/ Finish
    /\ UNCHANGED callVars

Expire == Deadline /\ UNCHANGED callVars

CallSteps ==
    /\ \E i \in 1..MaxItems : SSH!Step(i)
    /\ UNCHANGED vars

TaskNext ==
    \/ RunSteps     \/ SSHCalled    \/ SSHReturns   \/ OtherCalled
    \/ OtherReturns \/ Expire       \/ CallSteps

TaskSpec == TaskInit /\ [][TaskNext]_taskVars

(***************************************************************************)
(* Run is scheduled; the metric executors return, because their requests   *)
(* have a timeout and end with the context; the calls have the fairness of *)
(* SSHExecutor.                                                            *)
(***************************************************************************)
RunFairness ==
    /\ WF_taskVars(RunSteps \/ SSHCalled \/ SSHReturns \/ OtherCalled)
    /\ WF_taskVars(OtherReturns)

FairTaskSpec == TaskSpec /\ RunFairness /\ SSH!Fairness

-----------------------------------------------------------------------------
(***************************************************************************)
(* Properties.                                                             *)
(***************************************************************************)

\* For Run an ssh item is an executor like any other: what happens inside
\* the calls, before or after they return, shows only as one of the outcomes
\* ExecuteTask allows, so its properties hold of tasks with ssh items.
RefinesExecuteTask == Spec

\* The properties of SSHExecutor, for the calls of this task.
AnswersAreWhole == SSH!AnswerIsWhole
RunnersEnd == SSH!RunnersEnd

\* A task with ssh items is answered whatever its commands do, unless a dial
\* or the opening of a session hangs for ever: neither is under the task's
\* context or the executor's timeout.
Unreachable == pc = "execute" /\ AtSSH /\ at[Current] \in {"dial", "session"}
Answered == pc = "loop" ~> (pc = "done" \/ []Unreachable)
=============================================================================
