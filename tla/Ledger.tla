-------------------------------- MODULE Ledger --------------------------------
(***************************************************************************)
(* What the usage wallet promises: an entry is posted at most once, keeps  *)
(* its amount, and is taken off the balance in the step that posts it.     *)
(***************************************************************************)
EXTENDS Integers

CONSTANTS Entries, None

VARIABLES
    balance,    \* what is left
    credit,     \* what was put in
    posted      \* posted[e]: the amount of entry e, None while it is not posted

Init == balance = 0 /\ credit = 0 /\ posted = [e \in Entries |-> None]

Adjust ==
    /\ balance' \in Int
    /\ credit' = credit + (balance' - balance)
    /\ UNCHANGED posted

Post(e) ==
    /\ posted[e] = None
    /\ posted'[e] \in Nat
    /\ posted' = [posted EXCEPT ![e] = posted'[e]]
    /\ balance' = balance - posted'[e]
    /\ UNCHANGED credit

Next == Adjust \/ \E e \in Entries : Post(e)

Spec == Init /\ [][Next]_<<balance, credit, posted>>
===============================================================================
