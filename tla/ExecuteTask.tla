----------------------------- MODULE ExecuteTask -----------------------------
(***************************************************************************)
(* The synchronous execution of one task (biz/service/execute_task.go),    *)
(* from the handler's checks to the answer, with the executor registry it  *)
(* looks types up in (biz/executor/factory.go).  The registry is filled    *)
(* before the server starts and only read afterwards, and requests share   *)
(* nothing else, so one request is the whole system; what it races is the  *)
(* end of its context.                                                     *)
(*                                                                         *)
(* Executors are external: an execution ends with an error or with a       *)
(* result of any status, whether the context is live or not.               *)
(***************************************************************************)
EXTENDS Integers, Sequences

CONSTANTS
    Types,          \* item types that requests name
    Configured,     \* the executors whose URL is configured
    MaxItems        \* bound: items in a request

ASSUME ExecuteConstants ==
    /\ "ssh" \in Types
    /\ Configured \subseteq Types
    /\ MaxItems \in Nat

\* InitExecutors: the metric stores that have a URL, and ssh always.
Registered == Configured \cup {"ssh"}

VARIABLES
    items,      \* the types of the request's items
    pc,         \* control state of Run
    ctx,        \* the context of Run: live, or ended by its deadline
    results,    \* resp.Results
    status,     \* resp.Status
    message     \* resp.Message

vars == <<items, pc, ctx, results, status, message>>

\* The items of the requests.
Requests == UNION {[1..k -> Types] : k \in 0..MaxItems}

\* model.ResultStatus, with "odd" for a value that is none of the constants.
Verdicts == {"normal", "warning", "critical", "failed", "odd"}
\* What became of an item: a verdict, or why there is none.
Outcomes == Verdicts \cup {"error", "noExecutor"}
ResultStatuses == {"normal", "warning", "failed", "unknown"}
Messages == {"", "interrupted", "completed", "failures"}

TypeOK ==
    /\ items \in Requests
    /\ pc \in {"new", "loop", "execute", "end", "done", "rejected"}
    /\ ctx \in {"live", "deadline"}
    /\ results \in Seq([item : 1..MaxItems, outcome : Outcomes,
                        status : ResultStatuses])
    /\ status \in {"completed", "failed"}
    /\ message \in Messages

Init ==
    /\ items \in Requests
    /\ pc = "new"
    /\ ctx = "live"
    /\ results = <<>>
    /\ status = "completed"
    /\ message = ""

\* (A mutated form: a critical result counts as a warning.)
ConvertResultStatus_Mild(v) ==
    CASE v \in {"normal", "warning"}    -> v
      [] v = "critical"                 -> "warning"
      [] v = "failed"                   -> "failed"
      [] v = "odd"                      -> "unknown"

\* convertResultStatus.
ConvertResultStatus(v) ==
    CASE v \in {"normal", "warning"}    -> v
      [] v \in {"critical", "failed"}   -> "failed"
      [] v = "odd"                      -> "unknown"

\* The item Run is at: every item before it has its result.
Current == Len(results) + 1

Record(outcome, s) ==
    results' = Append(results,
                      [item |-> Current, outcome |-> outcome, status |-> s])

-----------------------------------------------------------------------------
(***************************************************************************)
(* Mutated forms of some definitions: plausible bugs that the properties   *)
(* must detect.  No specification uses them.                               *)
(***************************************************************************)

\* The loop ends quietly when the context has ended.
Interrupt_Quiet ==
    /\ pc = "loop"
    /\ Current <= Len(items)
    /\ ctx = "deadline"
    /\ pc' = "end"
    /\ UNCHANGED <<items, ctx, results, status, message>>

-----------------------------------------------------------------------------
\* The handler refuses what it cannot bind, a request without a task ID (for
\* both of which it does not matter what its items are) and one without items.
Accept ==
    /\ pc = "new"
    /\ \/ items # <<>> /\ pc' = "loop"
       \/ pc' = "rejected"
    /\ UNCHANGED <<items, ctx, results, status, message>>

\* The timeout of the request (30 seconds if it has none).
Deadline ==
    /\ pc \in {"loop", "execute", "end"}
    /\ ctx = "live"
    /\ ctx' = "deadline"
    /\ UNCHANGED <<items, pc, results, status, message>>

\* The check at the head of the loop: the remaining items are dropped.
Interrupt ==
    /\ pc = "loop"
    /\ Current <= Len(items)
    /\ ctx = "deadline"
    /\ pc' = "end"
    /\ status' = "failed"
    /\ message' = "interrupted"
    /\ UNCHANGED <<items, ctx, results>>

\* ExecutorFactory.Create fails: the item has failed, the loop goes on.
NoExecutor ==
    /\ pc = "loop"
    /\ Current <= Len(items)
    /\ ctx = "live"
    /\ items[Current] \notin Registered
    /\ Record("noExecutor", "failed")
    /\ UNCHANGED <<items, pc, ctx, status, message>>

\* ExecutorFactory.Create succeeds; Execute is called.
Execute ==
    /\ pc = "loop"
    /\ Current <= Len(items)
    /\ ctx = "live"
    /\ items[Current] \in Registered
    /\ pc' = "execute"
    /\ UNCHANGED <<items, ctx, results, status, message>>

\* Execute returns.
ExecuteReturns ==
    /\ pc = "execute"
    /\ \/ Record("error", "failed")
       \/ \E v \in Verdicts : Record(v, ConvertResultStatus(v))
    /\ pc' = "loop"
    /\ UNCHANGED <<items, ctx, status, message>>

LoopEnds ==
    /\ pc = "loop"
    /\ Current > Len(items)
    /\ pc' = "end"
    /\ UNCHANGED <<items, ctx, results, status, message>>

\* The answer: the message is written over, and a task that is not failed
\* is looked through for failed items.
Finish ==
    /\ pc = "end"
    /\ message' = IF /\ status # "failed"
                     /\ \E i \in DOMAIN results : results[i].status = "failed"
                  THEN "failures" ELSE "completed"
    /\ pc' = "done"
    /\ UNCHANGED <<items, ctx, results, status>>

Next ==
    \/ Accept   \/ Deadline         \/ Interrupt    \/ NoExecutor
    \/ Execute  \/ ExecuteReturns   \/ LoopEnds     \/ Finish

Spec == Init /\ [][Next]_vars

-----------------------------------------------------------------------------
(***************************************************************************)
(* Properties.                                                             *)
(***************************************************************************)

\* Nothing is dropped silently: a request answered "completed" has one result
\* for each of its items, in their order, and only a request whose context
\* ended before its last item was begun is answered "failed".  (The check of
\* the context, the two early continues and the final status are far apart.)
NothingDropped ==
    pc = "done" =>
        /\ \A i \in DOMAIN results : results[i].item = i
        /\ IF status = "completed" THEN Len(results) = Len(items)
                                   ELSE /\ Len(results) < Len(items)
                                        /\ ctx = "deadline"

\* A failure is never answered as a plain success: when an executor was
\* missing, returned an error or found something critical or failed, that
\* item's result says failed and the message does not say that the task just
\* completed, unless the whole task is failed.
FailuresShow ==
    pc = "done" =>
        \A i \in DOMAIN results :
            results[i].outcome \in {"noExecutor", "error", "critical", "failed"} =>
                /\ results[i].status = "failed"
                /\ status = "failed" \/ message = "failures"
=============================================================================
