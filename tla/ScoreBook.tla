------------------------------- MODULE ScoreBook -------------------------------
(***************************************************************************)
(* What recording an engagement promises: the entry and the points it adds *)
(* appear in one step, once per request and per key, the score is cut at   *)
(* the cap each time, and only entries that are there are announced.       *)
(***************************************************************************)
EXTENDS Integers

CONSTANTS
    Subjects,   \* what is scored
    Requests, Keys, None, Points, Cap,
    NoEntry

VARIABLES
    score,      \* score[v]: the score of subject v
    entries,    \* entries[r]: what request r entered, or NoEntry
    announced   \* the requests whose entry was announced

Entry == [visit: Subjects, key: Keys \cup {None}, points: Points]

Capped(n) == IF n <= Cap THEN n ELSE Cap

Init ==
    /\ score = [v \in Subjects |-> 0]
    /\ entries = [r \in Requests |-> NoEntry]
    /\ announced = {}

Enter(r, e) ==
    /\ entries[r] = NoEntry
    /\ e.key # None => \A q \in Requests : entries[q].key # e.key
    /\ entries' = [entries EXCEPT ![r] = e]
    /\ score' = [score EXCEPT ![e.visit] = Capped(@ + e.points)]
    /\ UNCHANGED announced

Announce(r) ==
    /\ entries[r] # NoEntry
    /\ announced' = announced \cup {r}
    /\ UNCHANGED <<score, entries>>

Next == \E r \in Requests : Announce(r) \/ \E e \in Entry : Enter(r, e)

Spec == Init /\ [][Next]_<<score, entries, announced>>
===============================================================================
