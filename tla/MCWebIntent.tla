------------------------------ MODULE MCWebIntent ------------------------------
(* WebIntent on a small instance. *)
EXTENDS WebIntent, TLC

Symmetric == Permutations(Requests)
===============================================================================
