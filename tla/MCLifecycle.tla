----------------------------- MODULE MCLifecycle -----------------------------
(* Instances of Lifecycle for TLC. *)
EXTENDS Lifecycle

\* Every call of CreateTask uses an ID of its own.
OwnID == [t \in Tasks |-> t]
=============================================================================
