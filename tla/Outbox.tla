--------------------------------- MODULE Outbox ---------------------------------
(***************************************************************************)
(* What the overdue scan promises: a notice is settled only after it was   *)
(* delivered, a settled one is not delivered again, one that is not may be *)
(* repeated once for each scan that failed, and what was withdrawn does    *)
(* not come back.                                                          *)
(***************************************************************************)
EXTENDS Naturals

CONSTANT Notices

VARIABLES
    status,     \* status[m]: how far notice m has got
    delivered,  \* delivered[m]: how often it was delivered
    failures    \* how many scans failed

Init ==
    /\ status \in [Notices -> {"unsent", "open"}]
    /\ delivered = [m \in Notices |-> 0]
    /\ failures = 0

Open(m) ==
    /\ status[m] = "unsent"
    /\ status' = [status EXCEPT ![m] = "open"]
    /\ UNCHANGED <<delivered, failures>>

\* A scan may have a notice in its hands while it is withdrawn.
Deliver(m) ==
    /\ status[m] \in {"open", "withdrawn"}
    /\ delivered[m] <= failures
    /\ delivered' = [delivered EXCEPT ![m] = @ + 1]
    /\ UNCHANGED <<status, failures>>

Settle(m) ==
    /\ status[m] = "open"
    /\ delivered[m] > 0
    /\ status' = [status EXCEPT ![m] = "settled"]
    /\ UNCHANGED <<delivered, failures>>

Withdraw(ms) ==
    /\ \A m \in ms : status[m] \in {"open", "settled"}
    /\ status' = [m \in Notices |-> IF m \in ms THEN "withdrawn" ELSE status[m]]
    /\ UNCHANGED <<delivered, failures>>

Fail == failures' = failures + 1 /\ UNCHANGED <<status, delivered>>

Next ==
    \/ Fail
    \/ \E m \in Notices : Open(m) \/ Deliver(m) \/ Settle(m)
    \/ \E ms \in SUBSET Notices : Withdraw(ms)

Spec == Init /\ [][Next]_<<status, delivered, failures>>
===============================================================================
