---------------------------- MODULE MCAlertRules -----------------------------
(* Instances of AlertRules for TLC: requests are interchangeable. *)
EXTENDS AlertRules, TLC

Perms == Permutations(Reqs)
=============================================================================
