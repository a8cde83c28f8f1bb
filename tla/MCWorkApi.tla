------------------------------- MODULE MCWorkApi -------------------------------
(* WorkApi on a small instance. *)
EXTENDS WorkApi, TLC

Symmetric == Permutations(Ids) \cup Permutations(Keyed) \cup Permutations(Keys)
===============================================================================
