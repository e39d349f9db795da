----------------------------- MODULE MCTaskPool ------------------------------
(***************************************************************************)
(* An instance of TaskManager with more tasks than workers.  One more task *)
(* than the properties need, Hog, has nothing to do but take a worker and  *)
(* hang, so that the others meet a pool with one worker less: it is never  *)
(* created, or it is created before the others, takes its token, outlives  *)
(* its deadline in its first item and stays there.  PoolSpec owes Hog      *)
(* nothing, so that it may also stop for good on its way to a worker; its  *)
(* safe behaviours are behaviours of Spec.                                 *)
(***************************************************************************)
EXTENDS MCTaskManager

CONSTANT Hog    \* the task that keeps a worker, a member of Deaf

Hung == pc[Hog] = "item" /\ ctx[Hog] = "deadline"
Others(state) == \A t \in Tasks \ {Hog} : state[t] = "idle"

PoolNext ==
    /\ Next
    /\ n'[Hog] = 0 /\ ~cancelClosed'[Hog]
    /\ \/ pc[Hog] = "idle" /\ pc'[Hog] = "idle"
       \/ Others(pc) /\ Others(pc') /\ (ctx'[Hog] = "deadline" => pc[Hog] = "item")
       \/ Hung

PoolSpec == /\ Init /\ [][PoolNext]_vars
            /\ \A t \in Tasks \ {Hog} : FairTo(t)
=============================================================================
