------------------------- MODULE MCKubernetesExecutor ------------------------
(* Instances of KubernetesExecutor for TLC. *)
EXTENDS KubernetesExecutor, TLC

CONSTANTS n1, n2, kubernetes

\* The service "kubernetes" differs from the other names.
Perms == Permutations({n1, n2})
=============================================================================
