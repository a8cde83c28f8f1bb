------------------------------ MODULE OncePerKey ------------------------------
(***************************************************************************)
(* What the idempotency table promises: an attempt takes effect only while *)
(* none did under its key; the answer kept for a key is that attempt's and *)
(* is never replaced; who is answered from the table has no effect of its  *)
(* own, and asked the same of the same key.                                *)
(***************************************************************************)

CONSTANTS
    Attempts, Keys, None,
    Request     \* what an attempt may ask for: records with a key and a body

VARIABLES
    req,        \* what each attempt asks for
    effects,    \* the attempts that took effect
    answer,     \* answer[k]: the attempt whose answer is kept for key k
    reply       \* reply[a]: the attempt whose answer attempt a was given

Init ==
    /\ req \in [Attempts -> Request]
    /\ effects = {}
    /\ answer = [k \in Keys |-> None]
    /\ reply = [a \in Attempts |-> None]

Perform(a) ==
    /\ \A b \in effects : req[b].key # req[a].key
    /\ effects' = effects \cup {a}
    /\ UNCHANGED <<req, answer, reply>>

Keep(a) ==
    /\ a \in effects
    /\ answer[req[a].key] = None
    /\ answer' = [answer EXCEPT ![req[a].key] = a]
    /\ UNCHANGED <<req, effects, reply>>

Replay(a) ==
    LET b == answer[req[a].key] IN
    /\ b # None
    /\ a \notin effects
    /\ reply[a] = None
    /\ req[b].body = req[a].body
    /\ reply' = [reply EXCEPT ![a] = b]
    /\ UNCHANGED <<req, effects, answer>>

Next == \E a \in Attempts : Perform(a) \/ Keep(a) \/ Replay(a)

Spec == Init /\ [][Next]_<<req, effects, answer, reply>>
===============================================================================
