-------------------------------- MODULE WorkApi --------------------------------
(***************************************************************************)
(* POST /work-management/{workItem}/complete: the work items composed with *)
(* the idempotency store.  A keyed request goes through begin(), loads and *)
(* completes the item, and stores its response; other requests (the web    *)
(* board, PATCH) change the items without a key at the same time.          *)
(***************************************************************************)
EXTENDS Naturals, FiniteSets

CONSTANTS
    Ids, Asked, MaxExpect,  \* as in WorkItems
    Keyed,                  \* completions that carry an Idempotency-Key
    Plain,                  \* requests that carry none
    Keys,                   \* the keys
    EmptyBody,              \* the body of every completion: the route takes none
    None

ASSUME KeyedOrPlain == Keyed \cap Plain = {}
ASSUME DefaultIsAsked == "pending" \in Asked  \* the default status is one of those to choose from

VARIABLES
    items, audits, pc, op, snap,        \* WorkItems
    table, stage, req, reply, effects   \* IdempotencyStore; stage is its pc

Requests == Keyed \cup Plain

Work == INSTANCE WorkItems
Store == INSTANCE IdempotencyStore
            WITH Attempts <- Keyed, Targets <- Ids, Bodies <- {EmptyBody}, pc <- stage

workVars == <<items, audits, pc, op, snap>>

storeVars == <<table, stage, req, reply, effects>>

vars == <<workVars, storeVars>>

Init == Work!Init /\ Store!Init

Create(i, recurring) == Work!Create(i, "pending", recurring) /\ UNCHANGED storeVars

PlainRequest(r) ==
    /\ \/ \E o \in Work!Updates \cup Work!Completions : Work!Load(r, o)
       \/ Work!Refuse(r)
       \/ Work!Commit(r)
       \/ Work!RollBack(r)
    /\ UNCHANGED storeVars

\* replayIdempotent(): begin() and what the controller answers on its result.
Begin(r) ==
    /\ Store!Select(r) \/ Store!Insert(r) \/ Store!InsertDuplicate(r)
    /\ UNCHANGED workVars

CompletionOf(r) == {o \in Work!Completions : o.item = req[r].target}

\* findOrFail() finds the item.
Find(r) ==
    /\ stage[r] = "running"
    /\ \E o \in CompletionOf(r) : Work!Load(r, o)
    /\ UNCHANGED storeVars

\* findOrFail() throws.
FindFails(r) ==
    /\ pc[r] = "idle"
    /\ ~items[req[r].target].present
    /\ Store!HandlerThrows(r)
    /\ UNCHANGED workVars

\* CompleteWorkItem throws on its checks; the key is not released.
Refuse(r) == Work!Refuse(r) /\ Store!HandlerThrows(r)

\* The transaction of CompleteWorkItem fails.
RollBack(r) == Work!RollBack(r) /\ Store!HandlerThrows(r)

\* The transaction of CompleteWorkItem commits.
Execute(r) == Work!Commit(r) /\ Store!Execute(r)

\* completeIdempotent(), or the worker dies before it.
Finish(r) ==
    /\ Store!Complete(r) \/ Store!Crash(r)
    /\ UNCHANGED workVars

Expire(k) == Store!Expire(k) /\ UNCHANGED workVars

Next ==
    \/ \E i \in Ids, b \in BOOLEAN : Create(i, b)
    \/ \E r \in Plain : PlainRequest(r)
    \/ \E r \in Keyed :
          \/ Begin(r)
          \/ Find(r)
          \/ FindFails(r)
          \/ Refuse(r)
          \/ RollBack(r)
          \/ Execute(r)
          \/ Finish(r)
    \/ \E k \in Keys : Expire(k)

Spec == Init /\ [][Next]_vars

-------------------------------------------------------------------------------

\* A client that retries a completion under one key completes the item once,
\* so a recurring item gets one successor from it, not one per retry.
OneCompletionPerKey ==
    \A r, s \in Keyed : pc[r] = "done" /\ pc[s] = "done" /\ req[r].key = req[s].key => r = s

DoneCompletions(i) ==
    {r \in Requests : pc[r] = "done" /\ op[r].kind = "complete" /\ op[r].item = i}

\* End to end: an item has no more successors than the keys under which it was completed
\* and the completions that carried none, however often each key was repeated, whatever
\* failed or died, and whoever loaded the item before another completed it.  Two racing
\* completions with different keys, or without one, do make a successor each.
SuccessorsPerKey ==
    \A i \in Ids :
        Cardinality(Work!Successors(i)) <=
            Cardinality({req[r].key : r \in Keyed \cap DoneCompletions(i)})
            + Cardinality(Plain \cap DoneCompletions(i))

\* The specifications of both parts, which hold by the way the actions above are put
\* together; the proofs carry the theorems about the parts over with it.
ImplementsParts == Store!Spec /\ Work!Spec
===============================================================================
