----------------------------- MODULE SSHExecutor -----------------------------
(***************************************************************************)
(* SSHExecutor.Execute (biz/executor/ssh.go): the parameters are checked,  *)
(* the host is dialled, a session is opened, and a goroutine of its own    *)
(* (the runner) runs the command and puts its error into the channel done, *)
(* while Execute waits for that, for its context or for its timeout,       *)
(* whichever it notices first.  Every return closes the connection.        *)
(*                                                                         *)
(* Several calls run under one context, one for each member of Calls.      *)
(* External: the host, which answers the dial, starts the command, writes  *)
(* output and ends it as it likes or never; the network, which may drop    *)
(* the connection; and Session.Run, which returns nil when the command     *)
(* ended with status 0 and all its output has been copied, and otherwise   *)
(* an error, at the latest when the connection is gone.                    *)
(***************************************************************************)
EXTENDS Integers

CONSTANTS
    Calls,      \* the calls of Execute
    MaxOut      \* bound: pieces of output of one command

VARIABLES
    ctx,        \* the context of the calls: live, or ended by its deadline
    at,         \* where each call of Execute is
    param,      \* its parameters
    conn,       \* its connection to the host
    runner,     \* the goroutine that is in Session.Run
    done,       \* the content of the channel done
    command,    \* what has become of the command
    out,        \* pieces of output the command has sent
    copied,     \* pieces of it that are in the buffer stdout
    answer      \* what Execute returns

callVars == <<at, param, conn, runner, done, command, out, copied, answer>>
vars == <<ctx, callVars>>

\* given: whether the parameters are complete and the key can be parsed.
\* mark: the piece of the command's output with the text that the threshold
\* names, 0 if it never comes; threshold: whether the parameter is given.
Params == [given : {"missing", "badKey", "all"}, threshold : BOOLEAN,
           mark : 0..MaxOut]
NoParams == [given |-> "missing", threshold |-> FALSE, mark |-> 0]

\* error: whether Execute returns an error next to the result.
Answers == [status : {"none", "normal", "warning", "failed"},
            error : BOOLEAN, value : 0..MaxOut]
NoAnswer == [status |-> "none", error |-> FALSE, value |-> 0]
Refusal == [status |-> "failed", error |-> TRUE, value |-> 0]
CommandFailed == [status |-> "failed", error |-> FALSE, value |-> 0]

TypeOK ==
    /\ ctx \in {"live", "deadline"}
    /\ at \in [Calls -> {"idle", "dial", "session", "select", "returned"}]
    /\ param \in [Calls -> Params]
    /\ conn \in [Calls -> {"none", "open", "lost", "closed"}]
    /\ runner \in [Calls -> {"none", "running", "sendNil", "sendError",
                             "ended"}]
    /\ done \in [Calls -> {"empty", "nil", "error"}]
    /\ command \in [Calls -> {"none", "running", "zero", "nonzero"}]
    /\ out \in [Calls -> 0..MaxOut]
    /\ copied \in [Calls -> 0..MaxOut]
    /\ answer \in [Calls -> Answers]

CallsInit ==
    /\ at = [c \in Calls |-> "idle"]
    /\ param = [c \in Calls |-> NoParams]
    /\ conn = [c \in Calls |-> "none"]
    /\ runner = [c \in Calls |-> "none"]
    /\ done = [c \in Calls |-> "empty"]
    /\ command = [c \in Calls |-> "none"]
    /\ out = [c \in Calls |-> 0]
    /\ copied = [c \in Calls |-> 0]
    /\ answer = [c \in Calls |-> NoAnswer]

Init == ctx = "live" /\ CallsInit

Goto(c, from, to) == at[c] = from /\ at' = [at EXCEPT ![c] = to]

\* Execute returns a; the deferred calls close session and client.
Return(c, from, a) ==
    /\ Goto(c, from, "returned")
    /\ answer' = [answer EXCEPT ![c] = a]
    /\ conn' = [conn EXCEPT ![c] = IF @ = "none" THEN @ ELSE "closed"]

\* The result when Run returned nil: the output, and a warning when it
\* contains the threshold.
Judge(c) ==
    [status |-> IF param[c].threshold /\ param[c].mark \in 1..copied[c]
                THEN "warning" ELSE "normal",
     error |-> FALSE, value |-> copied[c]]

-----------------------------------------------------------------------------
(***************************************************************************)
(* Mutated forms of some actions below: plausible bugs that the properties *)
(* must detect.  No specification uses them.                               *)
(***************************************************************************)

\* The runner calls Session.Start, which does not wait for the output.
RunReturns_Early(c) ==
    /\ runner[c] = "running"
    /\ \/ /\ command[c] # "none"
          /\ runner' = [runner EXCEPT ![c] = "sendNil"]
       \/ /\ conn[c] # "open"
          /\ runner' = [runner EXCEPT ![c] = "sendError"]
    /\ UNCHANGED <<ctx, at, param, conn, done, command, out, copied, answer>>

\* The channel done has no buffer: the send waits for a receiver.
SendDone_Unbuffered(c) ==
    /\ runner[c] \in {"sendNil", "sendError"}
    /\ at[c] = "select"
    /\ runner' = [runner EXCEPT ![c] = "ended"]
    /\ done' = [done EXCEPT ![c] =
                    IF runner[c] = "sendNil" THEN "nil" ELSE "error"]
    /\ UNCHANGED <<ctx, at, param, conn, command, out, copied, answer>>

\* The runner's error is awaited without a select.
WaitEnds_DoneOnly(c) ==
    /\ done[c] # "empty"
    /\ Return(c, "select", IF done[c] = "nil" THEN Judge(c)
                           ELSE CommandFailed)
    /\ UNCHANGED <<ctx, param, runner, done, command, out, copied>>

-----------------------------------------------------------------------------
(***************************************************************************)
(* Execute.                                                                *)
(***************************************************************************)

\* The parameters and the client configuration; whatever is missing or does
\* not parse ends the call.
Start(c) ==
    \E p \in Params :
        /\ param' = [param EXCEPT ![c] = p]
        /\ IF p.given = "all"
           THEN Goto(c, "idle", "dial") /\ UNCHANGED <<conn, answer>>
           ELSE Return(c, "idle", Refusal)
        /\ UNCHANGED <<ctx, runner, done, command, out, copied>>

\* ssh.Dial returns.  It knows nothing of the context.
DialReturns(c) ==
    /\ \/ /\ Goto(c, "dial", "session")
          /\ conn' = [conn EXCEPT ![c] = "open"]
          /\ UNCHANGED answer
       \/ Return(c, "dial", Refusal)
    /\ UNCHANGED <<ctx, param, runner, done, command, out, copied>>

\* NewSession returns; with a session, the buffers and the channel are made
\* and the runner starts.
SessionReturns(c) ==
    /\ \/ /\ conn[c] = "open"
          /\ Goto(c, "session", "select")
          /\ runner' = [runner EXCEPT ![c] = "running"]
          /\ UNCHANGED <<conn, answer>>
       \/ Return(c, "session", Refusal) /\ UNCHANGED runner
    /\ UNCHANGED <<ctx, param, done, command, out, copied>>

\* The select: the context, the timer of time.After or the runner's error,
\* any of them that is ready.  A command that failed is a result, no error.
WaitEnds(c) ==
    /\ \/ /\ ctx # "live"
          /\ Return(c, "select", Refusal)
       \/ Return(c, "select", Refusal)
       \/ /\ done[c] = "nil"
          /\ Return(c, "select", Judge(c))
       \/ /\ done[c] = "error"
          /\ Return(c, "select", CommandFailed)
    /\ UNCHANGED <<ctx, param, runner, done, command, out, copied>>

-----------------------------------------------------------------------------
(***************************************************************************)
(* The runner.                                                             *)
(***************************************************************************)

\* Session.Run returns.
RunReturns(c) ==
    /\ runner[c] = "running"
    /\ \/ /\ command[c] = "zero" /\ copied[c] = out[c]
          /\ runner' = [runner EXCEPT ![c] = "sendNil"]
       \/ /\ \/ command[c] = "nonzero" /\ copied[c] = out[c]
             \/ command[c] = "none"
             \/ conn[c] # "open"
          /\ runner' = [runner EXCEPT ![c] = "sendError"]
    /\ UNCHANGED <<ctx, at, param, conn, done, command, out, copied, answer>>

\* The send on done, which has room for one error.
SendDone(c) ==
    /\ runner[c] \in {"sendNil", "sendError"}
    /\ done[c] = "empty"
    /\ runner' = [runner EXCEPT ![c] = "ended"]
    /\ done' = [done EXCEPT ![c] =
                    IF runner[c] = "sendNil" THEN "nil" ELSE "error"]
    /\ UNCHANGED <<ctx, at, param, conn, command, out, copied, answer>>

\* The session copies output into the buffer stdout.
CopyOutput(c) ==
    /\ runner[c] = "running" /\ conn[c] = "open"
    /\ copied[c] < out[c]
    /\ copied' = [copied EXCEPT ![c] = @ + 1]
    /\ UNCHANGED <<ctx, at, param, conn, runner, done, command, out, answer>>

-----------------------------------------------------------------------------
(***************************************************************************)
(* The host and the network.                                               *)
(***************************************************************************)
CommandStarts(c) ==
    /\ runner[c] = "running" /\ conn[c] = "open" /\ command[c] = "none"
    /\ command' = [command EXCEPT ![c] = "running"]
    /\ UNCHANGED <<ctx, at, param, conn, runner, done, out, copied, answer>>

CommandWrites(c) ==
    /\ command[c] = "running" /\ conn[c] = "open"
    /\ out[c] < MaxOut
    /\ out' = [out EXCEPT ![c] = @ + 1]
    /\ UNCHANGED <<ctx, at, param, conn, runner, done, command, copied,
                   answer>>

CommandEnds(c) ==
    /\ command[c] = "running" /\ conn[c] = "open"
    /\ \E s \in {"zero", "nonzero"} : command' = [command EXCEPT ![c] = s]
    /\ UNCHANGED <<ctx, at, param, conn, runner, done, out, copied, answer>>

ConnectionLost(c) ==
    /\ conn[c] = "open"
    /\ conn' = [conn EXCEPT ![c] = "lost"]
    /\ UNCHANGED <<ctx, at, param, runner, done, command, out, copied,
                   answer>>

\* The deadline of the task.
Deadline ==
    /\ ctx = "live"
    /\ ctx' = "deadline"
    /\ UNCHANGED callVars

\* The steps of one call after its start.
Step(c) ==
    \/ DialReturns(c)    \/ SessionReturns(c)  \/ WaitEnds(c)
    \/ RunReturns(c)     \/ SendDone(c)        \/ CopyOutput(c)
    \/ CommandStarts(c)  \/ CommandWrites(c)   \/ CommandEnds(c)
    \/ ConnectionLost(c)

Next == Deadline \/ \E c \in Calls : Start(c) \/ Step(c)

Spec == Init /\ [][Next]_vars

(***************************************************************************)
(* The scheduler runs Execute and the runner, and timers fire.  The host   *)
(* and the network owe nothing: the dial, the handshake and the opening of *)
(* the session may hang for ever, and the command may never end.           *)
(***************************************************************************)
FairTo(c) ==
    WF_vars(WaitEnds(c)) /\ WF_vars(RunReturns(c)) /\ WF_vars(SendDone(c))

Fairness == \A c \in Calls : FairTo(c)

FairSpec == Spec /\ Fairness

-----------------------------------------------------------------------------
(***************************************************************************)
(* Properties.                                                             *)
(***************************************************************************)

\* A call that answers normal or warning has seen the command through: it
\* ended with status 0 (no timeout, cancellation or lost connection in
\* between), the value is all that it wrote, and a warning is given exactly
\* when the threshold's text is in it.  (The buffers are filled by other
\* goroutines; only the receive from done orders them before the read.)
AnswerIsWhole ==
    \A c \in Calls :
        answer[c].status \in {"normal", "warning"} =>
            /\ command[c] = "zero"
            /\ answer[c].value = out[c]
            /\ (answer[c].status = "warning") =
                    (param[c].threshold /\ param[c].mark \in 1..out[c])

\* The runner never waits for a receiver, so it cannot outlive its session,
\* whether or not Execute is still there when Run returns.
NeverBlocks ==
    \A c \in Calls :
        runner[c] \in {"sendNil", "sendError"} => done[c] = "empty"

\* Once the runner is started Execute returns and the runner ends: also when
\* the command never ends, and when the answer was a timeout.
RunnerEnds(c) == at[c] = "select" ~> runner[c] = "ended"
RunnersEnd == \A c \in Calls : RunnerEnds(c)
=============================================================================
