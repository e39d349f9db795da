---------------------------- MODULE TaskContract -----------------------------
(***************************************************************************)
(* What the task manager promises to the server, task by task, when every  *)
(* task has an ID of its own: a task runs only on one of Workers workers,  *)
(* ends in one of three outcomes, the server is told only of an outcome    *)
(* and only while the task's worker is still busy with it, and what the    *)
(* server is told never changes afterwards.  A cancellation is a request:  *)
(* until the server is told, a canceled task may still turn out completed  *)
(* or failed.                                                              *)
(***************************************************************************)
EXTENDS Integers, FiniteSets

CONSTANTS Tasks, Workers

VARIABLES
    phase,  \* what a poll of the task would answer
    told,   \* the outcome the server was called back with, or "none"
    busy    \* the tasks that occupy a worker

vars == <<phase, told, busy>>

Outcomes == {"completed", "failed", "canceled"}
Phases == {"new", "refused", "pending", "running"} \cup Outcomes

TypeOK ==
    /\ phase \in [Tasks -> Phases]
    /\ told \in [Tasks -> Outcomes \cup {"none"}]
    /\ busy \subseteq Tasks

Init ==
    /\ phase = [t \in Tasks |-> "new"]
    /\ told = [t \in Tasks |-> "none"]
    /\ busy = {}

Become(t, p) == phase' = [phase EXCEPT ![t] = p] /\ UNCHANGED <<told, busy>>

Submit(t) == phase[t] = "new" /\ (Become(t, "pending") \/ Become(t, "refused"))

Assign(t) ==
    /\ phase[t] = "pending"
    /\ t \notin busy
    /\ told[t] = "none"
    /\ Cardinality(busy) < Workers
    /\ busy' = busy \cup {t}
    /\ UNCHANGED <<phase, told>>

Start(t)  == phase[t] = "pending" /\ t \in busy /\ Become(t, "running")
Cancel(t) == phase[t] = "running" /\ t \in busy /\ Become(t, "canceled")

Settle(t) ==
    /\ phase[t] \in {"running", "canceled"}
    /\ t \in busy
    /\ told[t] = "none"
    /\ \E o \in {"completed", "failed"} : Become(t, o)

Report(t) ==
    /\ t \in busy
    /\ told[t] = "none"
    /\ phase[t] \in Outcomes
    /\ told' = [told EXCEPT ![t] = phase[t]]
    /\ UNCHANGED <<phase, busy>>

Release(t) ==
    /\ t \in busy
    /\ phase[t] \in Outcomes
    /\ busy' = busy \ {t}
    /\ UNCHANGED <<phase, told>>

Next == \E t \in Tasks :
    \/ Submit(t)  \/ Assign(t)  \/ Start(t)  \/ Cancel(t)
    \/ Settle(t)  \/ Report(t)  \/ Release(t)

Spec == Init /\ [][Next]_vars
=============================================================================
