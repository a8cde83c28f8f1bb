-------------------------- MODULE MCIdempotencyStore --------------------------
(* IdempotencyStore on a small instance. *)
EXTENDS IdempotencyStore
===============================================================================
