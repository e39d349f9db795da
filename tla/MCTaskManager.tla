---------------------------- MODULE MCTaskManager ----------------------------
(* Instances of TaskManager for TLC. *)
EXTENDS TaskManager

\* Every call of CreateTask uses an ID of its own.
OwnID == [t \in Tasks |-> t]

\* Every call uses the same ID.
SameID == [t \in Tasks |-> CHOOSE id \in TaskIDs : TRUE]
=============================================================================
