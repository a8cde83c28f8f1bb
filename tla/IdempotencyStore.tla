--------------------------- MODULE IdempotencyStore ---------------------------
(***************************************************************************)
(* The idempotency table of the API (modules/api-access, IdempotencyStore) *)
(* and the way the controllers use it: begin() before the handler,         *)
(* complete() after it.  begin() is a SELECT followed by an INSERT, each   *)
(* its own autocommit statement, so attempts interleave between the two.   *)
(* An attempt is one HTTP request of one identity carrying an              *)
(* Idempotency-Key; a client retries by making another attempt.            *)
(***************************************************************************)
EXTENDS Naturals, FiniteSets

CONSTANTS
    Attempts,   \* HTTP requests that carry an Idempotency-Key
    Keys,       \* the keys one identity uses
    Targets,    \* what the URL addresses: endpoint and record
    Bodies,     \* request bodies, told apart by their sha256
    None        \* SQL NULL

ASSUME NoneIsNoAttempt == None \notin Attempts

VARIABLES
    table,      \* table[k]: the row of api_idempotency_keys for k
    pc,         \* pc[a]: how far attempt a has got
    req,        \* req[a]: what attempt a asks for
    reply,      \* reply[a]: the attempt whose stored response a was answered with
    effects     \* the attempts whose handler has committed its effect

vars == <<table, pc, req, reply, effects>>

Request == [key: Keys, target: Targets, body: Bodies]

Row == [present: BOOLEAN, live: BOOLEAN, hash: Bodies \cup {None},
        response: Attempts \cup {None}]

NoRow == [present |-> FALSE, live |-> FALSE, hash |-> None, response |-> None]

PcStates == {"sent", "inserting", "running", "executed",
             "answered", "replayed", "conflict", "refused", "error"}

\* The PHP worker is done with the attempt.
Finished == {"answered", "replayed", "conflict", "refused", "error"}

\* The attempt owns the row of its key and its handler is under way.
Handling == {"running", "executed"}

Init ==
    /\ table = [k \in Keys |-> NoRow]
    /\ pc = [a \in Attempts |-> "sent"]
    /\ req \in [Attempts -> Request]
    /\ reply = [a \in Attempts |-> None]
    /\ effects = {}

RowOf(a) == table[req[a].key]

\* WHERE identity_ref = ? AND key = ? AND expires_at > now()
Found(a) == RowOf(a).present /\ RowOf(a).live

SelectMiss(a) ==
    /\ pc[a] = "sent"
    /\ ~Found(a)
    /\ pc' = [pc EXCEPT ![a] = "inserting"]
    /\ UNCHANGED <<table, req, reply, effects>>

\* 'Idempotency key was reused with a different request.'
SelectOtherBody(a) ==
    /\ pc[a] = "sent"
    /\ Found(a)
    /\ RowOf(a).hash # req[a].body
    /\ pc' = [pc EXCEPT ![a] = "refused"]
    /\ UNCHANGED <<table, req, reply, effects>>

\* The row has no response yet: 409 'The idempotent request is still being processed.'
SelectPending(a) ==
    /\ pc[a] = "sent"
    /\ Found(a)
    /\ RowOf(a).hash = req[a].body
    /\ RowOf(a).response = None
    /\ pc' = [pc EXCEPT ![a] = "conflict"]
    /\ UNCHANGED <<table, req, reply, effects>>

\* Mutant of SelectReplay: the request hash is not compared.
SelectReplayAnyBody(a) ==
    /\ pc[a] = "sent"
    /\ Found(a)
    /\ RowOf(a).response # None
    /\ pc' = [pc EXCEPT ![a] = "replayed"]
    /\ reply' = [reply EXCEPT ![a] = RowOf(a).response]
    /\ UNCHANGED <<table, req, effects>>

SelectReplay(a) ==
    /\ pc[a] = "sent"
    /\ Found(a)
    /\ RowOf(a).hash = req[a].body
    /\ RowOf(a).response # None
    /\ pc' = [pc EXCEPT ![a] = "replayed"]
    /\ reply' = [reply EXCEPT ![a] = RowOf(a).response]
    /\ UNCHANGED <<table, req, effects>>

\* Mutant of Insert: updateOrInsert, or no unique index.
InsertOrReplace(a) ==
    /\ pc[a] = "inserting"
    /\ table' = [table EXCEPT ![req[a].key] =
                    [present |-> TRUE, live |-> TRUE, hash |-> req[a].body, response |-> None]]
    /\ pc' = [pc EXCEPT ![a] = "running"]
    /\ UNCHANGED <<req, reply, effects>>

\* Mutant of Insert: an expired row is replaced.
InsertOverExpired(a) ==
    /\ pc[a] = "inserting"
    /\ ~Found(a)
    /\ table' = [table EXCEPT ![req[a].key] =
                    [present |-> TRUE, live |-> TRUE, hash |-> req[a].body, response |-> None]]
    /\ pc' = [pc EXCEPT ![a] = "running"]
    /\ UNCHANGED <<req, reply, effects>>

\* The INSERT of begin(): unique(identity_ref, key) refuses a second row, an expired one included.
Insert(a) ==
    /\ pc[a] = "inserting"
    /\ ~RowOf(a).present
    /\ table' = [table EXCEPT ![req[a].key] =
                    [present |-> TRUE, live |-> TRUE, hash |-> req[a].body, response |-> None]]
    /\ pc' = [pc EXCEPT ![a] = "running"]
    /\ UNCHANGED <<req, reply, effects>>

\* Mutant of InsertDuplicate: the duplicate key is caught and begin() tried again.
InsertDuplicateRetried(a) ==
    /\ pc[a] = "inserting"
    /\ RowOf(a).present
    /\ pc' = [pc EXCEPT ![a] = "sent"]
    /\ UNCHANGED <<table, req, reply, effects>>

InsertDuplicate(a) ==
    /\ pc[a] = "inserting"
    /\ RowOf(a).present
    /\ pc' = [pc EXCEPT ![a] = "error"]
    /\ UNCHANGED <<table, req, reply, effects>>

\* The handler's own transaction commits.
Execute(a) ==
    /\ pc[a] = "running"
    /\ effects' = effects \cup {a}
    /\ pc' = [pc EXCEPT ![a] = "executed"]
    /\ UNCHANGED <<table, req, reply>>

\* The handler throws (validation, findOrFail, a version conflict): nothing takes the row back.
HandlerThrows(a) ==
    /\ pc[a] = "running"
    /\ pc' = [pc EXCEPT ![a] = "error"]
    /\ UNCHANGED <<table, req, reply, effects>>

\* complete(): UPDATE ... WHERE identity_ref = ? AND key = ?, then the response goes out.
Complete(a) ==
    /\ pc[a] = "executed"
    /\ table' = [table EXCEPT ![req[a].key].response = a]
    /\ pc' = [pc EXCEPT ![a] = "answered"]
    /\ UNCHANGED <<req, reply, effects>>

\* The worker dies, or complete() fails, after the handler committed.
Crash(a) ==
    /\ pc[a] = "executed"
    /\ pc' = [pc EXCEPT ![a] = "error"]
    /\ UNCHANGED <<table, req, reply, effects>>

\* expires_at passes (24 hours by default); no job removes the row.
Expire(k) ==
    /\ table[k].present
    /\ table[k].live
    /\ table' = [table EXCEPT ![k].live = FALSE]
    /\ UNCHANGED <<pc, req, reply, effects>>

Select(a) == SelectMiss(a) \/ SelectOtherBody(a) \/ SelectPending(a) \/ SelectReplay(a)

Step(a) ==
    \/ Select(a)
    \/ Insert(a)
    \/ InsertDuplicate(a)
    \/ Execute(a)
    \/ HandlerThrows(a)
    \/ Complete(a)
    \/ Crash(a)

Next ==
    \/ \E a \in Attempts : Step(a)
    \/ \E k \in Keys : Expire(k)

Spec == Init /\ [][Next]_vars

\* A PHP worker runs its request to the end or dies: it does not stop half-way for ever.
FairSpec == Spec /\ \A a \in Attempts : WF_vars(Step(a))

-------------------------------------------------------------------------------
\* Every variable has its type.
TypeOK ==
    /\ table \in [Keys -> Row]
    /\ pc \in [Attempts -> PcStates]
    /\ req \in [Attempts -> Request]
    /\ reply \in [Attempts -> Attempts \cup {None}]
    /\ effects \in SUBSET Attempts

\* However often a client retries, in parallel, after a crash or after the key
\* expired, the handler takes effect at most once for a key.
EffectOnce ==
    \A a, b \in effects : req[a].key = req[b].key => a = b

\* A replayed answer is the response of an attempt that took effect, under the
\* same key and with the same body.
ReplayFaithful ==
    \A a \in Attempts : pc[a] = "replayed" =>
        /\ reply[a] \in effects
        /\ req[reply[a]].key = req[a].key
        /\ req[reply[a]].body = req[a].body

\* The response stored for a key is never replaced by another, so two replays agree.
ResponseIsStable ==
    [][\A k \in Keys : table[k].response # None => table'[k].response = table[k].response]_vars

\* The two statements of begin(), the handler, complete() and expiry implement one
\* effect per key, whose answer is kept once and is all that a retry is told.
Once == INSTANCE OncePerKey WITH answer <- [k \in Keys |-> table[k].response]
ImplementsOnce == Once!Spec

\* Every attempt is answered: replayed, refused, executed or failed, none hangs.
EveryAttemptEnds == \A a \in Attempts : <>(pc[a] \in Finished)
===============================================================================
