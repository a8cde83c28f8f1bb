----------------------------- MODULE MCTeamArchive -----------------------------
(* TeamArchive on a small instance: the same user owns every shared team. *)
EXTENDS TeamArchive

Owners == [t \in Shared |-> CHOOSE u \in Users : TRUE]
===============================================================================
