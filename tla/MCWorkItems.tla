------------------------------ MODULE MCWorkItems ------------------------------
(* WorkItems on a small instance. *)
EXTENDS WorkItems, TLC

Symmetric == Permutations(Ids) \cup Permutations(Requests)
===============================================================================
