------------------------ MODULE IdempotencyStoreProofs ------------------------
(***************************************************************************)
(* Proofs about IdempotencyStore, for every set of attempts, keys, targets *)
(* and bodies.                                                             *)
(***************************************************************************)
EXTENDS IdempotencyStore, TLAPS

\* The attempt has inserted the row of its key, or had when it ended.
PastInsert == {"running", "executed", "answered"}

\* The strengthening that makes EffectOnce inductive: at most one attempt per
\* key ever gets past the INSERT without failing, it can only do so while the
\* row exists, and an effect leaves a row and stops further attempts for good.
OwnerInv ==
    /\ \A a \in Attempts : pc[a] \in PastInsert => table[req[a].key].present
    /\ \A a, b \in Attempts :
          pc[a] \in PastInsert /\ pc[b] \in PastInsert /\ req[a].key = req[b].key => a = b
    /\ \A a \in effects : table[req[a].key].present
    /\ \A a \in effects, b \in Attempts :
          pc[b] \in PastInsert /\ req[a].key = req[b].key => a = b
    /\ \A a \in effects : pc[a] # "running"
    /\ \A a \in Attempts : pc[a] \in {"executed", "answered"} => a \in effects
    /\ EffectOnce

\* What a stored response says: its attempt took effect, under this key, with
\* the body the row was inserted with.
StoredInv ==
    \A k \in Keys :
        /\ table[k].response # None =>
              /\ table[k].response \in effects
              /\ req[table[k].response].key = k
              /\ req[table[k].response].body = table[k].hash
        /\ \A a \in Attempts : pc[a] \in PastInsert /\ req[a].key = k =>
              table[k].hash = req[a].body

\* Type correctness: every step of every attempt keeps the row, the program
\* counter and the reply in their types.
THEOREM TypeCorrect == Spec => []TypeOK
  <1>1. Init => TypeOK
    BY DEF Init, TypeOK, Row, NoRow, PcStates
  <1>2. TypeOK /\ [Next]_vars => TypeOK'
    <2> SUFFICES ASSUME TypeOK, [Next]_vars
                 PROVE  TypeOK'
      OBVIOUS
    <2> USE DEF TypeOK, Row, Request, PcStates
    <2>1. CASE UNCHANGED vars
      BY <2>1 DEF vars
    <2>2. ASSUME NEW a \in Attempts, Select(a)
          PROVE  TypeOK'
      BY <2>2 DEF Select, SelectMiss, SelectOtherBody, SelectPending, SelectReplay, RowOf
    <2>3. ASSUME NEW a \in Attempts, Insert(a)
          PROVE  TypeOK'
      BY <2>3 DEF Insert
    <2>4. ASSUME NEW a \in Attempts, InsertDuplicate(a) \/ HandlerThrows(a) \/ Crash(a)
          PROVE  TypeOK'
      BY <2>4 DEF InsertDuplicate, HandlerThrows, Crash
    <2>5. ASSUME NEW a \in Attempts, Execute(a)
          PROVE  TypeOK'
      BY <2>5 DEF Execute
    <2>6. ASSUME NEW a \in Attempts, Complete(a)
          PROVE  TypeOK'
      BY <2>6 DEF Complete
    <2>7. ASSUME NEW k \in Keys, Expire(k)
          PROVE  TypeOK'
      BY <2>7 DEF Expire
    <2>8. QED
      BY <2>1, <2>2, <2>3, <2>4, <2>5, <2>6, <2>7 DEF Next, Step
  <1>3. QED
    BY <1>1, <1>2, PTL DEF Spec

\* A step preserves the ownership invariant.
LEMMA OwnerStep == TypeOK /\ OwnerInv /\ [Next]_vars => OwnerInv'
  <1> SUFFICES ASSUME TypeOK, OwnerInv, [Next]_vars
               PROVE  OwnerInv'
    OBVIOUS
  <1> USE DEF TypeOK, OwnerInv, EffectOnce, PastInsert, Row, Request
  <1>1. CASE UNCHANGED vars
    BY <1>1 DEF vars
  <1>2. ASSUME NEW a \in Attempts, Select(a)
        PROVE  OwnerInv'
    <2>1. UNCHANGED <<table, req, effects>>
      BY <1>2 DEF Select, SelectMiss, SelectOtherBody, SelectPending, SelectReplay
    <2>2. \A b \in Attempts : pc'[b] \in PastInsert => pc'[b] = pc[b]
      BY <1>2 DEF Select, SelectMiss, SelectOtherBody, SelectPending, SelectReplay
    <2>3. QED
      BY <2>1, <2>2
  <1>3. ASSUME NEW a \in Attempts, Insert(a)
        PROVE  OwnerInv'
    BY <1>3 DEF Insert, RowOf
  <1>4. ASSUME NEW a \in Attempts, InsertDuplicate(a) \/ HandlerThrows(a) \/ Crash(a)
        PROVE  OwnerInv'
    <2>1. UNCHANGED <<table, req, effects>>
      BY <1>4 DEF InsertDuplicate, HandlerThrows, Crash
    <2>2. \A b \in Attempts : pc'[b] \in PastInsert => pc'[b] = pc[b]
      BY <1>4 DEF InsertDuplicate, HandlerThrows, Crash
    <2>3. QED
      BY <2>1, <2>2
  <1>5. ASSUME NEW a \in Attempts, Execute(a)
        PROVE  OwnerInv'
    BY <1>5 DEF Execute
  <1>6. ASSUME NEW a \in Attempts, Complete(a)
        PROVE  OwnerInv'
    BY <1>6 DEF Complete
  <1>7. ASSUME NEW k \in Keys, Expire(k)
        PROVE  OwnerInv'
    BY <1>7 DEF Expire
  <1>8. QED
    BY <1>1, <1>2, <1>3, <1>4, <1>5, <1>6, <1>7 DEF Next, Step

\* At most one effect per key, for any number of concurrent attempts, keys that
\* expire, handlers that throw and workers that die.
THEOREM AtMostOneEffect == Spec => []EffectOnce
  <1>1. Init => OwnerInv
    BY DEF Init, OwnerInv, EffectOnce, PastInsert
  <1>2. OwnerInv => EffectOnce
    BY DEF OwnerInv
  <1>3. QED
    BY <1>1, <1>2, OwnerStep, TypeCorrect, PTL DEF Spec

\* A step preserves what is stored with a response, and what was replayed.
LEMMA StoredStep ==
    TypeOK /\ OwnerInv /\ StoredInv /\ ReplayFaithful /\ [Next]_vars
        => StoredInv' /\ ReplayFaithful'
  <1> SUFFICES ASSUME TypeOK, OwnerInv, StoredInv, ReplayFaithful, [Next]_vars
               PROVE  StoredInv' /\ ReplayFaithful'
    OBVIOUS
  <1> USE NoneIsNoAttempt DEF TypeOK, StoredInv, ReplayFaithful, PastInsert, Row, Request
  <1>1. CASE UNCHANGED vars
    BY <1>1 DEF vars
  <1>2. ASSUME NEW a \in Attempts, SelectMiss(a) \/ SelectOtherBody(a) \/ SelectPending(a)
        PROVE  StoredInv' /\ ReplayFaithful'
    BY <1>2 DEF SelectMiss, SelectOtherBody, SelectPending
  <1>3. ASSUME NEW a \in Attempts, SelectReplay(a)
        PROVE  StoredInv' /\ ReplayFaithful'
    BY <1>3 DEF SelectReplay, RowOf
  <1>4. ASSUME NEW a \in Attempts, Insert(a)
        PROVE  StoredInv' /\ ReplayFaithful'
    <2>1. StoredInv'
      BY <1>4 DEF Insert, RowOf, OwnerInv
    <2>2. ReplayFaithful'
      BY <1>4 DEF Insert
    <2>3. QED
      BY <2>1, <2>2
  <1>5. ASSUME NEW a \in Attempts, InsertDuplicate(a) \/ HandlerThrows(a) \/ Crash(a)
        PROVE  StoredInv' /\ ReplayFaithful'
    BY <1>5 DEF InsertDuplicate, HandlerThrows, Crash
  <1>6. ASSUME NEW a \in Attempts, Execute(a)
        PROVE  StoredInv' /\ ReplayFaithful'
    BY <1>6 DEF Execute
  <1>7. ASSUME NEW a \in Attempts, Complete(a)
        PROVE  StoredInv' /\ ReplayFaithful'
    BY <1>7 DEF Complete, OwnerInv
  <1>8. ASSUME NEW k \in Keys, Expire(k)
        PROVE  StoredInv' /\ ReplayFaithful'
    BY <1>8 DEF Expire
  <1>9. QED
    BY <1>1, <1>2, <1>3, <1>4, <1>5, <1>6, <1>7, <1>8 DEF Next, Step, Select

\* A replayed answer is that of an attempt which took effect under the same key
\* with the same body.
THEOREM ReplaysAreFaithful == Spec => []ReplayFaithful
  <1>1. Init => OwnerInv /\ StoredInv /\ ReplayFaithful
    BY DEF Init, OwnerInv, EffectOnce, StoredInv, ReplayFaithful, PastInsert, NoRow
  <1>2. QED
    BY <1>1, OwnerStep, StoredStep, TypeCorrect, PTL DEF Spec

\* The response stored for a key is the answer of the one attempt that took
\* effect under it: no later attempt, retry or late complete() replaces it.
THEOREM StoredResponseIsStable == Spec => ResponseIsStable
  <1> DEFINE Kept == \A k \in Keys :
                        table[k].response # None => table'[k].response = table[k].response
  <1>1. Init => OwnerInv /\ StoredInv /\ ReplayFaithful
    BY DEF Init, OwnerInv, EffectOnce, StoredInv, ReplayFaithful, PastInsert, NoRow
  <1>2. ASSUME TypeOK, OwnerInv, StoredInv, Next
        PROVE  Kept
    <2> SUFFICES ASSUME NEW k \in Keys, table[k].response # None
                 PROVE  table'[k].response = table[k].response
      OBVIOUS
    <2> USE <1>2 DEF TypeOK, Row, Request
    <2> DEFINE owner == table[k].response
    <2>1. owner \in effects /\ req[owner].key = k /\ table[k].present
      BY DEF StoredInv, OwnerInv
    <2>2. ASSUME NEW a \in Attempts, UNCHANGED table
          PROVE  table'[k].response = table[k].response
      BY <2>2
    <2>3. ASSUME NEW a \in Attempts, Insert(a)
          PROVE  table'[k].response = table[k].response
      BY <2>1, <2>3 DEF Insert, RowOf
    <2>4. ASSUME NEW a \in Attempts, Complete(a)
          PROVE  table'[k].response = table[k].response
      <3>1. CASE req[a].key = k
        <4>1. a = owner
          BY <2>1, <2>4, <3>1 DEF Complete, OwnerInv, PastInsert
        <4>2. QED
          BY <2>4, <3>1, <4>1 DEF Complete
      <3>2. CASE req[a].key # k
        BY <2>4, <3>2 DEF Complete
      <3>3. QED
        BY <3>1, <3>2
    <2>5. ASSUME NEW l \in Keys, Expire(l)
          PROVE  table'[k].response = table[k].response
      BY <2>5 DEF Expire
    <2>6. QED
      BY <2>2, <2>3, <2>4, <2>5
      DEF Next, Step, Select, SelectMiss, SelectOtherBody, SelectPending, SelectReplay,
          InsertDuplicate, Execute, HandlerThrows, Crash
  <1>3. TypeOK /\ OwnerInv /\ StoredInv /\ [Next]_vars => [Kept]_vars
    BY <1>2
  <1>4. QED
    BY <1>1, <1>3, OwnerStep, StoredStep, TypeCorrect, PTL DEF Spec, ResponseIsStable

\* An attempt that has yet to insert took no effect and was told nothing, and one whose
\* handler is under way has no answer in its row.
FreshInv ==
    \A a \in Attempts :
        /\ pc[a] \in {"sent", "inserting"} => a \notin effects /\ reply[a] = None
        /\ pc[a] \in Handling => table[req[a].key].response = None

\* A step preserves what attempts have before them.
LEMMA FreshStep == TypeOK /\ OwnerInv /\ FreshInv /\ [Next]_vars => FreshInv'
  <1> SUFFICES ASSUME TypeOK, OwnerInv, FreshInv, [Next]_vars
               PROVE  FreshInv'
    OBVIOUS
  <1> USE DEF TypeOK, FreshInv, Handling, Row, Request
  <1>1. CASE UNCHANGED vars
    BY <1>1 DEF vars
  <1>2. ASSUME NEW a \in Attempts, Select(a)
        PROVE  FreshInv'
    BY <1>2 DEF Select, SelectMiss, SelectOtherBody, SelectPending, SelectReplay
  <1>3. ASSUME NEW a \in Attempts, Insert(a)
        PROVE  FreshInv'
    BY <1>3 DEF Insert
  <1>4. ASSUME NEW a \in Attempts,
               InsertDuplicate(a) \/ HandlerThrows(a) \/ Crash(a) \/ Execute(a)
        PROVE  FreshInv'
    BY <1>4 DEF InsertDuplicate, HandlerThrows, Crash, Execute
  <1>5. ASSUME NEW a \in Attempts, Complete(a)
        PROVE  FreshInv'
    <2>1. \A b \in Attempts : pc'[b] \in Handling => req[b].key # req[a].key
      BY <1>5 DEF Complete, OwnerInv, PastInsert
    <2>2. QED
      BY <1>5, <2>1 DEF Complete
  <1>6. ASSUME NEW k \in Keys, Expire(k)
        PROVE  FreshInv'
    BY <1>6 DEF Expire
  <1>7. QED
    BY <1>1, <1>2, <1>3, <1>4, <1>5, <1>6 DEF Next, Step

\* Every statement is a step of the promise or is not seen by it: the handler's commit is
\* the effect, complete() keeps the answer, and a SELECT that finds it replays it.
LEMMA StepIsOnce ==
    TypeOK /\ OwnerInv /\ StoredInv /\ FreshInv /\ [Next]_vars
        => [Once!Next]_<<req, effects, [k \in Keys |-> table[k].response], reply>>
  <1> DEFINE answer == [k \in Keys |-> table[k].response]
             Seen == Once!Next \/ UNCHANGED <<req, effects, answer, reply>>
  <1> SUFFICES ASSUME TypeOK, OwnerInv, StoredInv, FreshInv, [Next]_vars
               PROVE  Seen
    OBVIOUS
  <1> USE DEF TypeOK, Row, Request
  <1>1. CASE UNCHANGED vars
    BY <1>1 DEF vars
  <1>2. ASSUME NEW a \in Attempts, SelectMiss(a) \/ SelectOtherBody(a) \/ SelectPending(a)
        PROVE  Seen
    BY <1>2 DEF SelectMiss, SelectOtherBody, SelectPending
  <1>3. ASSUME NEW a \in Attempts, SelectReplay(a)
        PROVE  Once!Replay(a)
    <2>1. /\ table[req[a].key].response # None
          /\ table[req[a].key].hash = req[a].body
          /\ pc[a] = "sent"
          /\ reply' = [reply EXCEPT ![a] = table[req[a].key].response]
          /\ UNCHANGED <<table, req, effects>>
      BY <1>3 DEF SelectReplay, RowOf
    <2>2. a \notin effects /\ reply[a] = None
      BY <2>1 DEF FreshInv
    <2>3. req[table[req[a].key].response].body = req[a].body
      BY <2>1 DEF StoredInv
    <2>4. QED
      BY <2>1, <2>2, <2>3 DEF Once!Replay
  <1>4. ASSUME NEW a \in Attempts, Insert(a)
        PROVE  Seen
    <2>1. UNCHANGED <<req, effects, reply>>
      BY <1>4 DEF Insert
    <2>2. table[req[a].key].response = None
      BY <1>4 DEF Insert, RowOf, StoredInv, OwnerInv
    <2>3. answer' = answer
      BY <1>4, <2>2 DEF Insert
    <2>4. QED
      BY <2>1, <2>3
  <1>5. ASSUME NEW a \in Attempts, InsertDuplicate(a) \/ HandlerThrows(a) \/ Crash(a)
        PROVE  Seen
    BY <1>5 DEF InsertDuplicate, HandlerThrows, Crash
  <1>6. ASSUME NEW a \in Attempts, Execute(a)
        PROVE  Once!Perform(a)
    <2>1. \A b \in effects : req[b].key # req[a].key
      BY <1>6 DEF Execute, OwnerInv, PastInsert
    <2>2. QED
      BY <1>6, <2>1 DEF Execute, Once!Perform
  <1>7. ASSUME NEW a \in Attempts, Complete(a)
        PROVE  Once!Keep(a)
    <2>1. a \in effects /\ answer[req[a].key] = None
      BY <1>7 DEF Complete, OwnerInv, FreshInv, Handling
    <2>2. answer' = [answer EXCEPT ![req[a].key] = a]
      BY <1>7 DEF Complete
    <2>3. QED
      BY <1>7, <2>1, <2>2 DEF Complete, Once!Keep
  <1>8. ASSUME NEW k \in Keys, Expire(k)
        PROVE  Seen
    BY <1>8 DEF Expire
  <1>9. QED
    BY <1>1, <1>2, <1>3, <1>4, <1>5, <1>6, <1>7, <1>8 DEF Next, Step, Select, Once!Next

\* begin() and complete(), of any number of attempts that interleave, die, throw and outlive
\* the expiry, implement one effect per key whose answer is kept and repeated faithfully.
THEOREM StoreImplementsOnce == Spec => ImplementsOnce
  <1>1. Init => OwnerInv /\ StoredInv /\ ReplayFaithful /\ FreshInv
    BY DEF Init, OwnerInv, EffectOnce, StoredInv, ReplayFaithful, PastInsert, NoRow, FreshInv,
           Handling
  <1>2. Init => Once!Init
    BY DEF Init, Once!Init, NoRow
  <1>3. QED
    BY <1>1, <1>2, OwnerStep, StoredStep, FreshStep, StepIsOnce, TypeCorrect, PTL
       DEF Spec, ImplementsOnce, Once!Spec
===============================================================================
