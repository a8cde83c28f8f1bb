---------------------------- MODULE WorkItemsProofs ----------------------------
(***************************************************************************)
(* Proofs about WorkItems, and about its composition with the idempotency  *)
(* store (WorkApi), for every set of rows, requests and keys.               *)
(***************************************************************************)
EXTENDS WorkItems, FiniteSetTheorems, TLAPS

\* A loaded version is at most one more than the audit rows of its item: the
\* trail only grows while the snapshot ages.
SnapshotsAreAudited ==
    \A r \in Requests : pc[r] = "loaded" =>
        /\ op[r] # NoOp
        /\ op[r].item \in Ids
        /\ items[op[r].item].present
        /\ snap[r].version <=
              1 + audits[op[r].item].updated + audits[op[r].item].completed

\* A row that is not there belongs to nobody and has no version.
AbsentIsNoItem == \A i \in Ids : ~items[i].present => items[i] = NoItem

AuditInv == SnapshotsAreAudited /\ AbsentIsNoItem /\ VersionIsAudited

\* A new item is an item.
LEMMA NewItemType ==
    ASSUME NEW s \in Statuses, NEW b \in BOOLEAN, NEW o \in Ids \cup {None}
    PROVE  NewItem(s, b, o) \in Item
  BY DEF NewItem, Item

\* What the fields of a request range over.
LEMMA OpFields ==
    ASSUME TypeOK, NEW r \in Requests, op[r].kind \in {"update", "complete"}
    PROVE  /\ op[r] \in Updates \cup Completions
           /\ op[r].item \in Ids
           /\ op[r].status \in Statuses
           /\ op[r].recurring \in BOOLEAN
  <1>1. op[r] \in Updates \cup Completions
    BY DEF TypeOK, NoOp
  <1>2. CASE op[r] \in Updates
    BY <1>2, AskedAreStatuses DEF Updates
  <1>3. CASE op[r] \in Completions
    BY <1>3 DEF Completions, Statuses
  <1>4. QED
    BY <1>1, <1>2, <1>3

\* The rows the two transactions write are rows.
LEMMA WrittenRows ==
    ASSUME TypeOK, NEW r \in Requests, op[r].kind \in {"update", "complete"}
    PROVE  Updated(r) \in Item /\ Completed(r) \in Item
  <1>1. items[op[r].item] \in Item /\ snap[r] \in Item
    BY OpFields DEF TypeOK
  <1>2. "completed" \in Statuses
    BY DEF Statuses
  <1> DEFINE row == items[op[r].item]
             status == Written(op[r].status, snap[r].status, row.status)
             recurring == Written(op[r].recurring, snap[r].recurring, row.recurring)
             ended == Written("completed", snap[r].status, row.status)
  <1>3. status \in Statuses /\ recurring \in BOOLEAN /\ ended \in Statuses
    BY <1>1, <1>2, OpFields DEF Written, Item
  <1>4. snap[r].version + 1 \in Nat
    BY <1>1 DEF Item
  <1>5. Updated(r) = [row EXCEPT !.status = status, !.recurring = recurring,
                                 !.version = snap[r].version + 1]
    BY DEF Updated
  <1>6. Completed(r) = [row EXCEPT !.status = ended, !.version = snap[r].version + 1]
    BY DEF Completed
  <1> HIDE DEF status, recurring, ended
  <1>7. Updated(r) \in Item
    BY <1>1, <1>3, <1>4, <1>5 DEF Item
  <1>8. QED
    BY <1>1, <1>3, <1>4, <1>6, <1>7 DEF Item

\* A step keeps every variable in its type.
LEMMA TypeStep == TypeOK /\ [Next]_vars => TypeOK'
  <1> SUFFICES ASSUME TypeOK, [Next]_vars
               PROVE  TypeOK'
    OBVIOUS
  <1> USE AskedAreStatuses DEF TypeOK
  <1>1. CASE UNCHANGED vars
    BY <1>1 DEF vars
  <1>2. ASSUME NEW i \in Ids, NEW s \in Asked, NEW b \in BOOLEAN, Create(i, s, b)
        PROVE  TypeOK'
    BY <1>2, NewItemType DEF Create
  <1>3. ASSUME NEW r \in Requests, NEW o \in Updates \cup Completions, Load(r, o)
        PROVE  TypeOK'
    BY <1>3 DEF Load, Updates, Completions
  <1>4. ASSUME NEW r \in Requests, Refuse(r) \/ RollBack(r)
        PROVE  TypeOK'
    BY <1>4 DEF Refuse, RollBack
  <1>5. ASSUME NEW r \in Requests, CommitUpdate(r)
        PROVE  TypeOK'
    <2>1. op[r].item \in Ids /\ Updated(r) \in Item
      BY <1>5, OpFields, WrittenRows DEF CommitUpdate
    <2>2. QED
      BY <1>5, <2>1 DEF CommitUpdate
  <1>6. ASSUME NEW r \in Requests, CommitComplete(r)
        PROVE  TypeOK'
    <2>1. op[r].item \in Ids /\ Completed(r) \in Item
      BY <1>6, OpFields, WrittenRows DEF CommitComplete
    <2>2. QED
      BY <1>6, <2>1 DEF CommitComplete
  <1>7. ASSUME NEW r \in Requests, NEW j \in Ids, CommitCompleteRecurring(r, j)
        PROVE  TypeOK'
    <2>1. op[r].item \in Ids /\ Completed(r) \in Item
      BY <1>7, OpFields, WrittenRows DEF CommitCompleteRecurring
    <2>2. NewItem("pending", TRUE, op[r].item) \in Item
      BY <2>1, NewItemType DEF Statuses
    <2>3. QED
      <3>1. items' \in [Ids -> Item]
        BY <1>7, <2>1, <2>2 DEF CommitCompleteRecurring
      <3>2. audits' \in [Ids -> [updated: Nat, completed: Nat]]
        BY <1>7, <2>1 DEF CommitCompleteRecurring
      <3>3. QED
        BY <1>7, <3>1, <3>2 DEF CommitCompleteRecurring
  <1>8. QED
    BY <1>1, <1>2, <1>3, <1>4, <1>5, <1>6, <1>7 DEF Next, Commit

\* Type correctness of the rows, the audit counts and the requests.
THEOREM TypeCorrect == Spec => []TypeOK
  <1>1. Init => TypeOK
    BY DEF Init, TypeOK, Item, NoItem, Statuses
  <1>2. QED
    BY <1>1, TypeStep, PTL DEF Spec

\* A step keeps the trail ahead of every version, stored or loaded.
LEMMA AuditStep == TypeOK /\ AuditInv /\ [Next]_vars => AuditInv'
  <1> SUFFICES ASSUME TypeOK, AuditInv, [Next]_vars
               PROVE  AuditInv'
    OBVIOUS
  <1> USE DEF TypeOK, AuditInv, SnapshotsAreAudited, AbsentIsNoItem, VersionIsAudited, Present
  <1>1. CASE UNCHANGED vars
    BY <1>1 DEF vars
  <1>2. ASSUME NEW i \in Ids, NEW s \in Asked, NEW b \in BOOLEAN, Create(i, s, b)
        PROVE  AuditInv'
    BY <1>2 DEF Create, NewItem, Item
  <1>3. ASSUME NEW r \in Requests, NEW o \in Updates \cup Completions, Load(r, o)
        PROVE  AuditInv'
    <2>1. o.item \in Ids /\ o.kind \in {"update", "complete"} /\ NoOp.kind = "none"
      BY DEF Updates, Completions, NoOp
    <2>2. items[o.item].version <= 1 + audits[o.item].updated + audits[o.item].completed
      BY <1>3, <2>1 DEF Load
    <2>3. SnapshotsAreAudited'
      BY <1>3, <2>1, <2>2 DEF Load
    <2>4. QED
      BY <1>3, <2>3 DEF Load
  <1>4. ASSUME NEW r \in Requests, Refuse(r) \/ RollBack(r)
        PROVE  AuditInv'
    BY <1>4 DEF Refuse, RollBack
  <1>5. ASSUME NEW r \in Requests, CommitUpdate(r)
        PROVE  AuditInv'
    BY <1>5 DEF CommitUpdate, Updated, Accepted, Item
  <1>6. ASSUME NEW r \in Requests, CommitComplete(r)
        PROVE  AuditInv'
    BY <1>6 DEF CommitComplete, Completed, Accepted, Item
  <1>7. ASSUME NEW r \in Requests, NEW j \in Ids, CommitCompleteRecurring(r, j)
        PROVE  AuditInv'
    <2> DEFINE i == op[r].item
    <2>1. i \in Ids /\ items[i].present /\ i # j
      BY <1>7 DEF CommitCompleteRecurring, Accepted
    <2>2. /\ items'[i] = Completed(r)
          /\ items'[j] = NewItem("pending", TRUE, i)
          /\ \A k \in Ids \ {i, j} : items'[k] = items[k]
      BY <1>7, <2>1 DEF CommitCompleteRecurring
    <2>3. /\ items'[i].present
          /\ items'[i].version = snap[r].version + 1
      BY <2>1, <2>2 DEF Completed, Item
    <2>4. items'[j].present /\ items'[j].version = 1
      BY <2>2 DEF NewItem
    <2>5. /\ audits'[i].updated = audits[i].updated
          /\ audits'[i].completed = audits[i].completed + 1
          /\ \A k \in Ids \ {i} : audits'[k] = audits[k]
      BY <1>7, <2>1 DEF CommitCompleteRecurring
    <2>6. snap[r].version <= 1 + audits[i].updated + audits[i].completed
      BY <1>7 DEF CommitCompleteRecurring, Accepted
    <2>7. /\ pc[r] = "loaded"
          /\ pc' = [pc EXCEPT ![r] = "done"]
          /\ UNCHANGED <<op, snap>>
      BY <1>7 DEF CommitCompleteRecurring, Accepted
    <2> HIDE DEF i
    <2>8. VersionIsAudited'
      <3> SUFFICES ASSUME NEW k \in Ids, items'[k].present
                   PROVE  items'[k].version
                            <= 1 + audits'[k].updated + audits'[k].completed
        BY DEF VersionIsAudited, Present
      <3>1. CASE k = i
        BY <3>1, <2>1, <2>3, <2>5, <2>6 DEF Item
      <3>2. CASE k = j
        BY <3>2, <2>1, <2>4, <2>5
      <3>3. CASE k \notin {i, j}
        BY <3>3, <2>2, <2>5
      <3>4. QED
        BY <3>1, <3>2, <3>3
    <2>9. SnapshotsAreAudited'
      <3> SUFFICES ASSUME NEW q \in Requests, pc'[q] = "loaded"
                   PROVE  /\ op[q] # NoOp
                          /\ op[q].item \in Ids
                          /\ items'[op[q].item].present
                          /\ snap[q].version <= 1 + audits'[op[q].item].updated
                                                  + audits'[op[q].item].completed
        BY <2>7 DEF SnapshotsAreAudited
      <3>1. q # r /\ pc[q] = "loaded"
        BY <2>7
      <3>2. op[q].item # j
        BY <3>1, <1>7 DEF CommitCompleteRecurring
      <3>3. items'[op[q].item].present
        BY <3>1, <3>2, <2>2, <2>3
      <3>4. /\ audits'[op[q].item].updated = audits[op[q].item].updated
            /\ audits'[op[q].item].completed \in
                  {audits[op[q].item].completed, audits[op[q].item].completed + 1}
        BY <3>1, <2>5
      <3>5. snap[q] \in Item /\ audits[op[q].item] \in [updated: Nat, completed: Nat]
        BY <3>1
      <3>6. snap[q].version <= 1 + audits[op[q].item].updated + audits[op[q].item].completed
        BY <3>1
      <3>7. QED
        BY <3>1, <3>3, <3>4, <3>5, <3>6 DEF Item
    <2>10. AbsentIsNoItem'
      BY <2>1, <2>2, <2>3, <2>4
    <2>11. QED
      BY <2>8, <2>9, <2>10
  <1>8. QED
    BY <1>1, <1>2, <1>3, <1>4, <1>5, <1>6, <1>7 DEF Next, Commit

\* The inductive invariant of the audit trail holds in every reachable state.
LEMMA AuditInvariant == Spec => []AuditInv
  <1>1. Init => AuditInv
    BY DEF Init, AuditInv, SnapshotsAreAudited, AbsentIsNoItem, VersionIsAudited, Present, NoItem
  <1>2. QED
    BY <1>1, AuditStep, TypeCorrect, PTL DEF Spec

\* The version of a work item never runs ahead of its audit trail, whatever
\* interleaving the requests take.
THEOREM VersionsAreAudited == Spec => []VersionIsAudited
  <1>1. AuditInv => VersionIsAudited
    BY DEF AuditInv
  <1>2. QED
    BY <1>1, AuditInvariant, PTL

\* What the three transactions have in common: they bump the version the request
\* loaded, leave one more audit row on its item, and disturb no other item that
\* exists; only a recurring item gains a row, where there was none.
LEMMA CommitEffect ==
    ASSUME TypeOK, SnapshotsAreAudited, NEW r \in Requests, Commit(r)
    PROVE  LET i == op[r].item IN
           /\ i \in Ids /\ items[i].present /\ pc[r] = "loaded"
           /\ pc' = [pc EXCEPT ![r] = "done"] /\ UNCHANGED <<op, snap>>
           /\ items'[i].present /\ items'[i].origin = items[i].origin
           /\ items'[i].version = snap[r].version + 1
           /\ audits'[i].updated + audits'[i].completed
                 = audits[i].updated + audits[i].completed + 1
           /\ audits'[i].completed >= audits[i].completed
           /\ \A k \in Ids \ {i} : audits'[k] = audits[k]
           /\ \/ \A k \in Ids \ {i} : items'[k] = items[k]
              \/ \E j \in Ids \ {i} :
                    /\ ~items[j].present
                    /\ items'[j] = NewItem("pending", TRUE, i)
                    /\ \A k \in Ids \ {i, j} : items'[k] = items[k]
                    /\ audits'[i].completed = audits[i].completed + 1
  <1> DEFINE i == op[r].item
  <1> USE DEF TypeOK
  <1>1. pc[r] = "loaded"
    BY DEF Commit, CommitUpdate, CommitComplete, CommitCompleteRecurring, Accepted
  <1>2. i \in Ids /\ items[i].present
    BY <1>1 DEF SnapshotsAreAudited
  <1>3. audits[i].updated \in Nat /\ audits[i].completed \in Nat /\ items[i] \in Item
    BY <1>2
  <1>4. CASE CommitUpdate(r)
    <2>1. items'[i] = Updated(r)
      BY <1>2, <1>4 DEF CommitUpdate
    <2>2. /\ items'[i].present /\ items'[i].origin = items[i].origin
          /\ items'[i].version = snap[r].version + 1
      BY <1>2, <1>3, <2>1 DEF Updated, Item
    <2>3. /\ audits'[i].updated = audits[i].updated + 1
          /\ audits'[i].completed = audits[i].completed
          /\ \A k \in Ids \ {i} : audits'[k] = audits[k] /\ items'[k] = items[k]
      BY <1>2, <1>3, <1>4 DEF CommitUpdate
    <2>4. pc' = [pc EXCEPT ![r] = "done"] /\ UNCHANGED <<op, snap>>
      BY <1>4 DEF CommitUpdate
    <2>5. /\ audits'[i].updated + audits'[i].completed
                = audits[i].updated + audits[i].completed + 1
          /\ audits'[i].completed >= audits[i].completed
      BY <1>3, <2>3
    <2>6. QED
      BY <1>1, <1>2, <2>2, <2>3, <2>4, <2>5
  <1>5. CASE CommitComplete(r)
    <2>1. items'[i] = Completed(r)
      BY <1>2, <1>5 DEF CommitComplete
    <2>2. /\ items'[i].present /\ items'[i].origin = items[i].origin
          /\ items'[i].version = snap[r].version + 1
      BY <1>2, <1>3, <2>1 DEF Completed, Item
    <2>3. /\ audits'[i].updated = audits[i].updated
          /\ audits'[i].completed = audits[i].completed + 1
          /\ \A k \in Ids \ {i} : audits'[k] = audits[k] /\ items'[k] = items[k]
      BY <1>2, <1>3, <1>5 DEF CommitComplete
    <2>4. pc' = [pc EXCEPT ![r] = "done"] /\ UNCHANGED <<op, snap>>
      BY <1>5 DEF CommitComplete
    <2>5. /\ audits'[i].updated + audits'[i].completed
                = audits[i].updated + audits[i].completed + 1
          /\ audits'[i].completed >= audits[i].completed
      BY <1>3, <2>3
    <2>6. QED
      BY <1>1, <1>2, <2>2, <2>3, <2>4, <2>5
  <1>6. ASSUME NEW j \in Ids, CommitCompleteRecurring(r, j)
        PROVE  /\ items'[i].present /\ items'[i].origin = items[i].origin
               /\ items'[i].version = snap[r].version + 1
               /\ audits'[i].updated = audits[i].updated
               /\ audits'[i].completed = audits[i].completed + 1
               /\ pc' = [pc EXCEPT ![r] = "done"] /\ UNCHANGED <<op, snap>>
               /\ \A k \in Ids \ {i} : audits'[k] = audits[k]
               /\ j # i /\ ~items[j].present
               /\ items'[j] = NewItem("pending", TRUE, i)
               /\ \A k \in Ids \ {i, j} : items'[k] = items[k]
    <2>1. j # i /\ ~items[j].present
      BY <1>2, <1>6 DEF CommitCompleteRecurring
    <2>2. /\ items'[i] = Completed(r)
          /\ items'[j] = NewItem("pending", TRUE, i)
          /\ \A k \in Ids \ {i, j} : items'[k] = items[k]
      BY <1>2, <1>6, <2>1 DEF CommitCompleteRecurring
    <2>3. /\ items'[i].present /\ items'[i].origin = items[i].origin
          /\ items'[i].version = snap[r].version + 1
      BY <1>2, <1>3, <2>2 DEF Completed, Item
    <2>4. /\ audits'[i].updated = audits[i].updated
          /\ audits'[i].completed = audits[i].completed + 1
          /\ \A k \in Ids \ {i} : audits'[k] = audits[k]
      BY <1>2, <1>3, <1>6 DEF CommitCompleteRecurring
    <2>5. pc' = [pc EXCEPT ![r] = "done"] /\ UNCHANGED <<op, snap>>
      BY <1>6 DEF CommitCompleteRecurring
    <2>6. QED
      BY <2>1, <2>2, <2>3, <2>4, <2>5
  <1>7. CASE \E j \in Ids : CommitCompleteRecurring(r, j)
    <2>1. PICK j \in Ids : CommitCompleteRecurring(r, j)
      BY <1>7
    <2> DEFINE Gains == /\ j \in Ids \ {i} /\ ~items[j].present
                        /\ items'[j] = NewItem("pending", TRUE, i)
                        /\ \A k \in Ids \ {i, j} : items'[k] = items[k]
                        /\ audits'[i].completed = audits[i].completed + 1
    <2>2. Gains
      BY <1>6, <2>1
    <2>3. /\ items'[i].present /\ items'[i].origin = items[i].origin
          /\ items'[i].version = snap[r].version + 1
          /\ audits'[i].updated = audits[i].updated
          /\ audits'[i].completed = audits[i].completed + 1
          /\ pc' = [pc EXCEPT ![r] = "done"] /\ UNCHANGED <<op, snap>>
          /\ \A k \in Ids \ {i} : audits'[k] = audits[k]
      BY <1>6, <2>1
    <2>4. audits'[i].updated + audits'[i].completed
             = audits[i].updated + audits[i].completed + 1
      BY <1>3, <2>3
    <2>5. audits'[i].completed >= audits[i].completed
      BY <1>3, <2>3
    <2>6. QED
      BY <1>1, <1>2, <2>2, <2>3, <2>4, <2>5
  <1>8. QED
    BY <1>4, <1>5, <1>7 DEF Commit

\* The successors of an item are finitely many and no more than its audited completions.
SuccessorInv ==
    \A i \in Ids : IsFiniteSet(Successors(i)) /\ Cardinality(Successors(i)) <= audits[i].completed

\* A recurring item has no more successors than audited completions, whichever
\* requests complete it at once.
THEOREM SuccessorsAudited == Spec => []SuccessorsAreAudited
  <1>1. Init => SuccessorInv
    <2> SUFFICES ASSUME Init, NEW i \in Ids
                 PROVE  /\ IsFiniteSet(Successors(i))
                        /\ Cardinality(Successors(i)) <= audits[i].completed
      BY DEF SuccessorInv
    <2>1. Successors(i) = {}
      BY DEF Init, Successors, Present, NoItem
    <2>2. audits[i].completed = 0
      BY DEF Init
    <2>3. QED
      BY <2>1, <2>2, FS_EmptySet
  <1>2. TypeOK /\ AuditInv /\ SuccessorInv /\ [Next]_vars => SuccessorInv'
    <2> SUFFICES ASSUME TypeOK, AuditInv, SuccessorInv, [Next]_vars, NEW k \in Ids
                 PROVE  /\ IsFiniteSet(Successors(k)')
                        /\ Cardinality(Successors(k)') <= audits'[k].completed
      BY DEF SuccessorInv
    <2>1. /\ IsFiniteSet(Successors(k)) /\ Cardinality(Successors(k)) \in Nat
          /\ Cardinality(Successors(k)) <= audits[k].completed
          /\ audits[k].completed \in Nat
      BY FS_CardinalityType DEF SuccessorInv, TypeOK
    <2>2. CASE UNCHANGED <<items, audits>>
      BY <2>1, <2>2 DEF Successors, Present
    <2>3. ASSUME NEW i \in Ids, NEW s \in Asked, NEW b \in BOOLEAN, Create(i, s, b)
          PROVE  Successors(k)' = Successors(k) /\ UNCHANGED audits
      BY <2>3, NoneIsNoId DEF Create, NewItem, Successors, Present, TypeOK
    <2>4. ASSUME NEW r \in Requests, Commit(r)
          PROVE  \/ Successors(k)' = Successors(k) /\ audits'[k].completed >= audits[k].completed
                 \/ /\ audits'[k].completed = audits[k].completed + 1
                    /\ \E j \in Ids : Successors(k)' = Successors(k) \cup {j}
      <3> DEFINE i == op[r].item
                 Gains(j) == /\ j \in Ids \ {i} /\ ~items[j].present
                             /\ items'[j] = NewItem("pending", TRUE, i)
                             /\ \A l \in Ids \ {i, j} : items'[l] = items[l]
                             /\ audits'[i].completed = audits[i].completed + 1
      <3>1. /\ i \in Ids /\ items[i].present
            /\ items'[i].present /\ items'[i].origin = items[i].origin
            /\ audits'[i].completed >= audits[i].completed
            /\ \A l \in Ids \ {i} : audits'[l] = audits[l]
            /\ (\A l \in Ids \ {i} : items'[l] = items[l]) \/ (\E j \in Ids : Gains(j))
        BY <2>4, CommitEffect DEF AuditInv
      <3>2. audits'[k].completed >= audits[k].completed
        BY <2>1, <3>1
      <3>3. CASE \A l \in Ids \ {i} : items'[l] = items[l]
        BY <3>1, <3>2, <3>3 DEF Successors, Present
      <3>4. ASSUME NEW j \in Ids, Gains(j)
            PROVE  IF k = i THEN Successors(k)' = Successors(k) \cup {j}
                            ELSE Successors(k)' = Successors(k)
        BY <3>1, <3>4 DEF Successors, Present, NewItem
      <3>5. QED
        BY <3>1, <3>2, <3>3, <3>4
    <2>5. ASSUME NEW j \in Ids, Successors(k)' = Successors(k) \cup {j},
                 audits'[k].completed = audits[k].completed + 1
          PROVE  /\ IsFiniteSet(Successors(k)')
                 /\ Cardinality(Successors(k)') <= audits'[k].completed
      <3>1. /\ IsFiniteSet(Successors(k) \cup {j})
            /\ Cardinality(Successors(k) \cup {j}) \in
                  {Cardinality(Successors(k)), Cardinality(Successors(k)) + 1}
        BY <2>1, FS_AddElement
      <3>2. Cardinality(Successors(k) \cup {j}) <= audits[k].completed + 1
        BY <2>1, <3>1
      <3>3. QED
        BY <2>5, <3>1, <3>2
    <2>6. CASE Successors(k)' = Successors(k) /\ audits'[k].completed >= audits[k].completed
      <3>1. audits'[k].completed \in Nat
        BY TypeStep DEF TypeOK
      <3>2. QED
        BY <2>1, <2>6, <3>1
    <2>7. ASSUME NEW r \in Requests, Commit(r)
          PROVE  /\ IsFiniteSet(Successors(k)')
                 /\ Cardinality(Successors(k)') <= audits'[k].completed
      BY <2>4, <2>5, <2>6, <2>7
    <2>8. ASSUME NEW r \in Requests, NEW o \in Updates \cup Completions,
                 Load(r, o) \/ Refuse(r) \/ RollBack(r)
          PROVE  UNCHANGED <<items, audits>>
      BY <2>8 DEF Load, Refuse, RollBack
    <2>9. QED
      <3>1. CASE UNCHANGED vars
        BY <2>2, <3>1 DEF vars
      <3>2. CASE Next
        <4>1. CASE \E i \in Ids, s \in Asked, b \in BOOLEAN : Create(i, s, b)
          BY <2>1, <2>3, <2>6, <4>1
        <4>2. CASE \E r \in Requests : Commit(r)
          BY <2>7, <4>2
        <4>3. CASE \E r \in Requests : (\E o \in Updates \cup Completions : Load(r, o))
                                          \/ Refuse(r) \/ RollBack(r)
          BY <2>2, <4>3 DEF Load, Refuse, RollBack
        <4>4. QED
          BY <3>2, <4>1, <4>2, <4>3 DEF Next
      <3>3. QED
        BY <3>1, <3>2
  <1>3. SuccessorInv => SuccessorsAreAudited
    BY DEF SuccessorInv, SuccessorsAreAudited
  <1>4. QED
    BY <1>1, <1>2, <1>3, AuditInvariant, TypeCorrect, PTL DEF Spec

\* The requests whose completion of the item was committed.
CompletedBy(i) == {r \in DoneOn(i) : op[r].kind = "complete"}

\* Each committed completion left one audit row, and no other request leaves one.
CompletionsAreCounted ==
    \A i \in Ids :
        /\ IsFiniteSet(CompletedBy(i))
        /\ Cardinality(CompletedBy(i)) = audits[i].completed

\* A commit counts itself if it completes, and nobody else.
LEMMA CommitCounts ==
    ASSUME TypeOK, SnapshotsAreAudited, NEW r \in Requests, Commit(r), NEW k \in Ids
    PROVE  /\ r \notin CompletedBy(k)
           /\ \/ /\ CompletedBy(k)' = CompletedBy(k) \cup {r}
                 /\ audits'[k].completed = audits[k].completed + 1
              \/ /\ CompletedBy(k)' = CompletedBy(k)
                 /\ audits'[k].completed = audits[k].completed
  <1>1. /\ op[r].item \in Ids /\ pc[r] = "loaded"
        /\ pc' = [pc EXCEPT ![r] = "done"] /\ UNCHANGED op
        /\ \A l \in Ids \ {op[r].item} : audits'[l] = audits[l]
    BY CommitEffect
  <1>2. /\ r \notin CompletedBy(k)
        /\ CompletedBy(k)' = IF op[r].item = k /\ op[r].kind = "complete"
                              THEN CompletedBy(k) \cup {r} ELSE CompletedBy(k)
    BY <1>1 DEF CompletedBy, DoneOn, TypeOK
  <1>3. audits'[op[r].item].completed =
            IF op[r].kind = "complete" THEN audits[op[r].item].completed + 1
                                       ELSE audits[op[r].item].completed
    <2>1. audits[op[r].item] \in [updated: Nat, completed: Nat]
      BY <1>1 DEF TypeOK
    <2>2. CASE CommitUpdate(r)
      BY <1>1, <2>1, <2>2 DEF CommitUpdate, TypeOK
    <2>3. CASE CommitComplete(r)
      BY <1>1, <2>1, <2>3 DEF CommitComplete, TypeOK
    <2>4. ASSUME NEW j \in Ids, CommitCompleteRecurring(r, j)
          PROVE  /\ op[r].kind = "complete"
                 /\ audits'[op[r].item].completed = audits[op[r].item].completed + 1
      BY <1>1, <2>1, <2>4 DEF CommitCompleteRecurring, TypeOK
    <2>5. QED
      BY <2>2, <2>3, <2>4 DEF Commit
  <1>4. QED
    BY <1>1, <1>2, <1>3

\* The completed count of the audit trail is exact: one row for each request whose
\* completion was committed, however they interleave, and none for one rolled back.
THEOREM CompletionsCounted == Spec => []CompletionsAreCounted
  <1>1. Init => CompletionsAreCounted
    <2> SUFFICES ASSUME Init, NEW i \in Ids
                 PROVE  CompletedBy(i) = {} /\ audits[i].completed = 0
      BY FS_EmptySet DEF CompletionsAreCounted
    <2>1. QED
      BY DEF Init, CompletedBy, DoneOn
  <1>2. TypeOK /\ AuditInv /\ CompletionsAreCounted /\ [Next]_vars => CompletionsAreCounted'
    <2> SUFFICES ASSUME TypeOK, AuditInv, CompletionsAreCounted, [Next]_vars, NEW k \in Ids
                 PROVE  /\ IsFiniteSet(CompletedBy(k)')
                        /\ Cardinality(CompletedBy(k)') = audits'[k].completed
      BY DEF CompletionsAreCounted
    <2>1. IsFiniteSet(CompletedBy(k)) /\ Cardinality(CompletedBy(k)) = audits[k].completed
      BY DEF CompletionsAreCounted
    <2>2. ASSUME CompletedBy(k)' = CompletedBy(k), audits' = audits
          PROVE  /\ IsFiniteSet(CompletedBy(k)')
                 /\ Cardinality(CompletedBy(k)') = audits'[k].completed
      BY <2>1, <2>2
    <2>3. CASE UNCHANGED vars
      BY <2>2, <2>3 DEF vars, CompletedBy, DoneOn
    <2>4. ASSUME NEW i \in Ids, NEW s \in Asked, NEW b \in BOOLEAN, Create(i, s, b)
          PROVE  CompletedBy(k)' = CompletedBy(k) /\ audits' = audits
      BY <2>4 DEF Create, CompletedBy, DoneOn
    <2>5. ASSUME NEW r \in Requests, NEW o \in Updates \cup Completions, Load(r, o)
          PROVE  CompletedBy(k)' = CompletedBy(k) /\ audits' = audits
      BY <2>5 DEF Load, CompletedBy, DoneOn, TypeOK
    <2>6. ASSUME NEW r \in Requests, Refuse(r) \/ RollBack(r)
          PROVE  CompletedBy(k)' = CompletedBy(k) /\ audits' = audits
      BY <2>6 DEF Refuse, RollBack, Accepted, CompletedBy, DoneOn, TypeOK
    <2>7. ASSUME NEW r \in Requests, Commit(r)
          PROVE  /\ IsFiniteSet(CompletedBy(k)')
                 /\ Cardinality(CompletedBy(k)') = audits'[k].completed
      <3>1. /\ IsFiniteSet(CompletedBy(k) \cup {r})
            /\ r \notin CompletedBy(k) =>
                  Cardinality(CompletedBy(k) \cup {r}) = Cardinality(CompletedBy(k)) + 1
        BY <2>1, FS_AddElement
      <3>2. QED
        BY <2>1, <2>7, <3>1, CommitCounts DEF AuditInv
    <2>8. QED
      BY <2>2, <2>3, <2>4, <2>5, <2>6, <2>7 DEF Next
  <1>3. QED
    BY <1>1, <1>2, AuditInvariant, TypeCorrect, PTL DEF Spec

\* The changes of an item that were audited.
Changes(i) == audits[i].updated + audits[i].completed

\* Two accepted changes of the item started from the same version of it.
Overwritten(i) ==
    \E q, r \in DoneOn(i) : q # r /\ snap[q].version = snap[r].version

\* The accepted changes form a chain: each version below the current one is the
\* one some accepted change started from.
Chained(i) ==
    /\ items[i].version = 1 + Changes(i)
    /\ \A v \in 1..Changes(i) : \E q \in DoneOn(i) : snap[q].version = v

\* What makes LostUpdatesShareAVersion inductive: the changes of an item form a
\* chain until one starts from a version another change has started from.
ChainInv ==
    /\ \A i \in Present : 1 <= items[i].version /\ (Overwritten(i) \/ Chained(i))
    /\ \A i \in Ids : ~items[i].present => Changes(i) = 0
    /\ \A r \in Requests : pc[r] = "loaded" => 1 <= snap[r].version

\* The changes that were done stay done, and no request but r joins them.
LEMMA DoneGrows ==
    ASSUME TypeOK, SnapshotsAreAudited, NEW r \in Requests, Commit(r), NEW k \in Ids
    PROVE  /\ DoneOn(k) \subseteq DoneOn(k)'
           /\ k = op[r].item => r \in DoneOn(k)'
           /\ r \notin DoneOn(k)
           /\ UNCHANGED snap
  BY CommitEffect DEF DoneOn, TypeOK

\* A step keeps the chain, or breaks it by a second change of one version.
LEMMA ChainStep == TypeOK /\ AuditInv /\ ChainInv /\ [Next]_vars => ChainInv'
  <1> SUFFICES ASSUME TypeOK, AuditInv, ChainInv, [Next]_vars
               PROVE  ChainInv'
    OBVIOUS
  <1>1. ASSUME UNCHANGED <<items, audits, snap, op>>,
               \A r \in Requests : pc'[r] = "loaded" => pc[r] = "loaded",
               \A r \in Requests : pc'[r] = "done" <=> pc[r] = "done"
        PROVE  ChainInv'
    BY <1>1 DEF ChainInv, Present, Overwritten, Chained, Changes, DoneOn
  <1>2. CASE UNCHANGED vars
    BY <1>1, <1>2 DEF vars
  <1>3. ASSUME NEW i \in Ids, NEW s \in Asked, NEW b \in BOOLEAN, Create(i, s, b)
        PROVE  ChainInv'
    <2>1. /\ items' = [items EXCEPT ![i] = NewItem(s, b, None)] /\ ~items[i].present
          /\ UNCHANGED <<audits, pc, op, snap>>
      BY <1>3 DEF Create
    <2>2. Changes(i) = 0 /\ items'[i].version = 1 /\ items'[i].present
      BY <2>1 DEF ChainInv, NewItem, TypeOK
    <2>3. \A k \in Ids \ {i} : items'[k] = items[k]
      BY <2>1 DEF TypeOK
    <2>4. Chained(i)'
      BY <2>1, <2>2 DEF Chained, Changes
    <2>5. QED
      BY <2>1, <2>2, <2>3, <2>4 DEF ChainInv, Present, Overwritten, Chained, Changes, DoneOn
  <1>4. ASSUME NEW r \in Requests, NEW o \in Updates \cup Completions, Load(r, o)
        PROVE  ChainInv'
    <2>1. /\ pc[r] = "idle" /\ pc' = [pc EXCEPT ![r] = "loaded"]
          /\ op' = [op EXCEPT ![r] = o]
          /\ snap' = [snap EXCEPT ![r] = items[o.item]] /\ UNCHANGED <<items, audits>>
          /\ items[o.item].present /\ o.item \in Ids
      BY <1>4 DEF Load, Updates, Completions
    <2>2. \A q \in Requests \ {r} : pc'[q] = pc[q] /\ op'[q] = op[q] /\ snap'[q] = snap[q]
      BY <2>1 DEF TypeOK
    <2>3. \A k \in Ids : DoneOn(k)' = DoneOn(k) /\ r \notin DoneOn(k)
      BY <2>1, <2>2 DEF DoneOn, TypeOK
    <2>4. \A k \in Ids : /\ Overwritten(k) => Overwritten(k)'
                         /\ Chained(k) => Chained(k)'
                         /\ Changes(k)' = Changes(k)
      BY <2>1, <2>2, <2>3 DEF Overwritten, Chained, Changes, DoneOn
    <2>5. 1 <= snap'[r].version
      BY <2>1 DEF ChainInv, Present, TypeOK
    <2>6. QED
      BY <2>1, <2>2, <2>4, <2>5 DEF ChainInv, Present
  <1>5. ASSUME NEW r \in Requests, Refuse(r) \/ RollBack(r)
        PROVE  ChainInv'
    <2>1. UNCHANGED <<items, audits, snap, op>> /\ pc[r] = "loaded"
      BY <1>5 DEF Refuse, RollBack, Accepted
    <2>2. pc' = [pc EXCEPT ![r] = "refused"] \/ pc' = [pc EXCEPT ![r] = "failed"]
      BY <1>5 DEF Refuse, RollBack
    <2>3. QED
      BY <1>1, <2>1, <2>2 DEF TypeOK
  <1>6. ASSUME NEW r \in Requests, Commit(r)
        PROVE  ChainInv'
    <2>0. PICK i \in Ids : i = op[r].item
      BY <1>6, CommitEffect DEF AuditInv
    <2>1. /\ i \in Ids /\ items[i].present /\ pc[r] = "loaded"
          /\ pc' = [pc EXCEPT ![r] = "done"] /\ UNCHANGED <<op, snap>>
          /\ items'[i].present /\ items'[i].version = snap[r].version + 1
          /\ Changes(i)' = Changes(i) + 1
          /\ \A k \in Ids \ {i} : audits'[k] = audits[k]
      BY <1>6, <2>0, CommitEffect DEF AuditInv, Changes
    <2>2. \A k \in Ids \ {i} :
             \/ items'[k] = items[k]
             \/ ~items[k].present /\ items'[k] = NewItem("pending", TRUE, i)
      BY <1>6, <2>0, CommitEffect DEF AuditInv
    <2>3. /\ \A k \in Ids : DoneOn(k) \subseteq DoneOn(k)'
          /\ r \in DoneOn(i)' /\ r \notin DoneOn(i) /\ UNCHANGED snap
      BY <1>6, <2>0, DoneGrows DEF AuditInv
    <2>4. \A k \in Ids : Overwritten(k) => Overwritten(k)'
      BY <2>3 DEF Overwritten
    <2>5. /\ snap[r].version \in Nat /\ 1 <= snap[r].version
          /\ Changes(i) \in Nat /\ snap[r].version <= 1 + Changes(i)
      <3>1. snap[r].version \in Nat /\ audits[i].updated \in Nat /\ audits[i].completed \in Nat
        BY <2>1 DEF TypeOK, Item
      <3>2. QED
        BY <2>0, <2>1, <3>1 DEF ChainInv, AuditInv, SnapshotsAreAudited, Changes
    <2>6. Overwritten(i)' \/ Chained(i)'
      <3>1. CASE Overwritten(i)
        BY <2>1, <2>4, <3>1
      <3>2. CASE Chained(i) /\ snap[r].version = 1 + Changes(i)
        <4>1. items'[i].version = 1 + Changes(i)'
          BY <2>1, <2>5, <3>2
        <4>2. ASSUME NEW v \in 1..Changes(i)'
              PROVE  \E q \in DoneOn(i)' : snap'[q].version = v
          <5>1. v \in 1..Changes(i) \/ v = snap[r].version
            BY <2>1, <2>5, <3>2
          <5>2. QED
            BY <2>1, <2>3, <3>2, <5>1 DEF Chained
        <4>3. QED
          BY <4>1, <4>2 DEF Chained
      <3>3. CASE Chained(i) /\ snap[r].version # 1 + Changes(i)
        <4>1. snap[r].version \in 1..Changes(i)
          BY <2>5, <3>3
        <4>2. PICK q \in DoneOn(i) : snap[q].version = snap[r].version
          BY <3>3, <4>1 DEF Chained
        <4>3. QED
          BY <2>1, <2>3, <4>2 DEF Overwritten
      <3>4. QED
        BY <2>1, <3>1, <3>2, <3>3 DEF ChainInv, Present
    <2>7. ASSUME NEW k \in Ids, items'[k].present
          PROVE  1 <= items'[k].version /\ (Overwritten(k)' \/ Chained(k)')
      <3>1. CASE k = i
        BY <2>1, <2>5, <2>6, <3>1
      <3>2. CASE k # i /\ items'[k] = items[k]
        <4>1. Changes(k)' = Changes(k) /\ items[k].present
          BY <2>1, <2>7, <3>2 DEF Changes
        <4>2. Chained(k) => Chained(k)'
          BY <2>3, <3>2, <4>1 DEF Chained
        <4>3. QED
          BY <2>4, <3>2, <4>1, <4>2 DEF ChainInv, Present
      <3>3. CASE k # i /\ ~items[k].present /\ items'[k] = NewItem("pending", TRUE, i)
        <4>1. items'[k].version = 1 /\ Changes(k)' = 0
          BY <2>1, <3>3 DEF NewItem, Changes, ChainInv
        <4>2. QED
          BY <4>1 DEF Chained
      <3>4. QED
        BY <2>2, <3>1, <3>2, <3>3
    <2>8. ASSUME NEW k \in Ids, ~items'[k].present
          PROVE  Changes(k)' = 0
      <3>1. k # i /\ items'[k] = items[k]
        BY <2>1, <2>2, <2>8 DEF NewItem
      <3>2. QED
        BY <2>1, <2>8, <3>1 DEF ChainInv, Changes
    <2>9. \A q \in Requests : pc'[q] = "loaded" => 1 <= snap'[q].version
      BY <2>1 DEF ChainInv, TypeOK
    <2>10. QED
      BY <2>7, <2>8, <2>9 DEF ChainInv, Present
  <1>7. QED
    BY <1>2, <1>3, <1>4, <1>5, <1>6 DEF Next

\* An accepted change is lost only to another accepted change of the same version.
THEOREM LostUpdates == Spec => []LostUpdatesShareAVersion
  <1>1. Init => ChainInv
    BY DEF Init, ChainInv, Present, NoItem, Changes
  <1>2. TypeOK /\ ChainInv => LostUpdatesShareAVersion
    <2> SUFFICES ASSUME TypeOK, ChainInv, NEW i \in Present,
                        items[i].version < 1 + audits[i].updated + audits[i].completed
                 PROVE  Overwritten(i)
      BY DEF LostUpdatesShareAVersion, Overwritten
    <2>1. /\ i \in Ids /\ items[i].version \in Nat
          /\ audits[i].updated \in Nat /\ audits[i].completed \in Nat
      BY DEF TypeOK, Item, Present
    <2>2. items[i].version # 1 + Changes(i)
      BY <2>1 DEF Changes
    <2>3. QED
      BY <2>2 DEF ChainInv, Chained
  <1>3. QED
    BY <1>1, <1>2, ChainStep, AuditInvariant, TypeCorrect, PTL DEF Spec

-------------------------------------------------------------------------------
(* The items composed with the idempotency store (WorkApi) *)

CONSTANTS Keyed, Plain, Keys, EmptyBody
VARIABLES table, stage, req, reply, effects

Api == INSTANCE WorkApi

\* The theorems about the store, for the attempts and the keys of the composition.
StoreProofs == INSTANCE IdempotencyStoreProofs
                  WITH Attempts <- Keyed, Targets <- Ids, Bodies <- {EmptyBody}, pc <- stage

\* What a request does to the items is a step of WorkItems.
LEMMA ApiRequestIsWork ==
    ASSUME NEW r \in Api!Requests,
           \/ \E o \in Api!Work!Updates \cup Api!Work!Completions : Api!Work!Load(r, o)
           \/ Api!Work!Refuse(r) \/ Api!Work!Commit(r) \/ Api!Work!RollBack(r)
    PROVE  Api!Work!Next
  BY DEF Api!Work!Next

\* What a keyed request does to the store is a step of IdempotencyStore.
LEMMA ApiAttemptIsStore ==
    ASSUME NEW r \in Keyed,
           \/ Api!Store!Select(r) \/ Api!Store!Insert(r) \/ Api!Store!InsertDuplicate(r)
           \/ Api!Store!Execute(r) \/ Api!Store!HandlerThrows(r)
           \/ Api!Store!Complete(r) \/ Api!Store!Crash(r)
    PROVE  Api!Store!Next
  BY DEF Api!Store!Next, Api!Store!Step

\* Each step of the composition is a step of either part, of both at once, or of
\* one while the other stutters.
LEMMA ApiStepMaps ==
    ASSUME Api!DefaultIsAsked, [Api!Next]_(Api!vars)
    PROVE  [Api!Store!Next]_(Api!Store!vars) /\ [Api!Work!Next]_(Api!Work!vars)
  <1> DEFINE StoreSleeps == UNCHANGED Api!Store!vars
             WorkSleeps == UNCHANGED Api!Work!vars
  <1>0. /\ UNCHANGED Api!storeVars => StoreSleeps
        /\ UNCHANGED Api!workVars => WorkSleeps
    BY DEF Api!storeVars, Api!workVars, Api!Store!vars, Api!Work!vars
  <1>1. CASE UNCHANGED Api!vars
    BY <1>0, <1>1 DEF Api!vars
  <1>2. ASSUME NEW i \in Ids, NEW b \in BOOLEAN, Api!Create(i, b)
        PROVE  StoreSleeps /\ Api!Work!Next
    BY <1>0, <1>2 DEF Api!DefaultIsAsked, Api!Create, Api!Work!Next
  <1>3. ASSUME NEW r \in Plain, Api!PlainRequest(r)
        PROVE  StoreSleeps /\ Api!Work!Next
    BY <1>0, <1>3, ApiRequestIsWork DEF Api!PlainRequest, Api!Requests
  <1>4. ASSUME NEW r \in Keyed, Api!Begin(r) \/ Api!Finish(r) \/ Api!FindFails(r)
        PROVE  Api!Store!Next /\ WorkSleeps
    BY <1>0, <1>4, ApiAttemptIsStore DEF Api!Begin, Api!Finish, Api!FindFails
  <1>5. ASSUME NEW r \in Keyed, Api!Find(r)
        PROVE  StoreSleeps /\ Api!Work!Next
    BY <1>0, <1>5, ApiRequestIsWork DEF Api!Find, Api!CompletionOf, Api!Requests
  <1>6. ASSUME NEW r \in Keyed, Api!Refuse(r) \/ Api!RollBack(r) \/ Api!Execute(r)
        PROVE  Api!Store!Next /\ Api!Work!Next
    BY <1>6, ApiAttemptIsStore, ApiRequestIsWork
       DEF Api!Refuse, Api!RollBack, Api!Execute, Api!Requests
  <1>7. ASSUME NEW k \in Keys, Api!Expire(k)
        PROVE  Api!Store!Next /\ WorkSleeps
    BY <1>0, <1>7 DEF Api!Expire, Api!Store!Next
  <1> HIDE DEF StoreSleeps, WorkSleeps
  <1>8. \/ StoreSleeps /\ WorkSleeps
        \/ StoreSleeps /\ Api!Work!Next
        \/ Api!Store!Next /\ WorkSleeps
        \/ Api!Store!Next /\ Api!Work!Next
    BY <1>0, <1>1, <1>2, <1>3, <1>4, <1>5, <1>6, <1>7 DEF Api!Next, Api!vars
  <1>9. QED
    BY <1>8 DEF StoreSleeps, WorkSleeps

\* Each step of the composition is a step of the store or of the items, or of both, by
\* the way its actions are put together: what is proved of the parts holds in it.
LEMMA ApiImplementsParts ==
    ASSUME Api!DefaultIsAsked
    PROVE  Api!Spec => Api!ImplementsParts
  <1>1. Api!Init => Api!Store!Init /\ Api!Work!Init
    BY DEF Api!Init
  <1>2. [Api!Next]_(Api!vars) =>
           [Api!Store!Next]_(Api!Store!vars) /\ [Api!Work!Next]_(Api!Work!vars)
    BY ApiStepMaps
  <1>3. QED
    BY <1>1, <1>2, PTL DEF Api!Spec, Api!ImplementsParts, Api!Store!Spec, Api!Work!Spec

\* A keyed request whose transaction has committed has had its effect, as the store
\* counts effects.
DoneTookEffect ==
    /\ pc = [r \in Api!Requests |-> pc[r]]
    /\ \A r \in Keyed : pc[r] = "done" => r \in effects

\* Only a commit makes a request done, and a request moves nobody but itself.
LEMMA ApiMoves ==
    ASSUME NEW r \in Api!Requests, pc = [q \in Api!Requests |-> pc[q]],
           \/ \E o \in Api!Work!Updates \cup Api!Work!Completions : Api!Work!Load(r, o)
           \/ Api!Work!Refuse(r) \/ Api!Work!Commit(r) \/ Api!Work!RollBack(r)
    PROVE  /\ pc' = [q \in Api!Requests |-> pc'[q]]
           /\ \A q \in Api!Requests : q # r => pc'[q] = pc[q]
           /\ pc'[r] = "done" => Api!Work!Commit(r)
  <1>1. PICK v : pc' = [pc EXCEPT ![r] = v]
    BY DEF Api!Work!Load, Api!Work!Refuse, Api!Work!RollBack, Api!Work!Commit,
           Api!Work!CommitUpdate, Api!Work!CommitComplete, Api!Work!CommitCompleteRecurring
  <1>2. pc'[r] = "done" => Api!Work!Commit(r)
    BY DEF Api!Work!Load, Api!Work!Refuse, Api!Work!RollBack
  <1>3. QED
    BY <1>1, <1>2

\* A request completes an item in the step in which its key takes effect in the store, and
\* an effect stays.
LEMMA ApiEffectStep ==
    ASSUME Api!KeyedOrPlain, DoneTookEffect, [Api!Next]_(Api!vars)
    PROVE  DoneTookEffect'
  <1> USE DEF DoneTookEffect, Api!Requests
  <1>1. CASE UNCHANGED Api!vars
    BY <1>1 DEF Api!vars, Api!workVars, Api!storeVars
  <1>2. ASSUME NEW i \in Ids, NEW b \in BOOLEAN, Api!Create(i, b)
        PROVE  DoneTookEffect'
    BY <1>2 DEF Api!Create, Api!Work!Create, Api!storeVars
  <1>3. ASSUME NEW r \in Plain, Api!PlainRequest(r)
        PROVE  DoneTookEffect'
    BY <1>3, ApiMoves DEF Api!PlainRequest, Api!storeVars, Api!KeyedOrPlain
  <1>4. ASSUME NEW r \in Keyed, Api!Begin(r) \/ Api!Finish(r) \/ Api!FindFails(r)
        PROVE  DoneTookEffect'
    <2>1. UNCHANGED <<pc, effects>>
      BY <1>4 DEF Api!Begin, Api!Finish, Api!FindFails, Api!workVars, Api!Store!Select,
                  Api!Store!SelectMiss, Api!Store!SelectOtherBody, Api!Store!SelectPending,
                  Api!Store!SelectReplay, Api!Store!Insert, Api!Store!InsertDuplicate,
                  Api!Store!Complete, Api!Store!Crash, Api!Store!HandlerThrows
    <2>2. QED
      BY <2>1
  <1>5. ASSUME NEW r \in Keyed, Api!Find(r)
        PROVE  DoneTookEffect'
    <2>1. /\ \E o \in Api!Work!Updates \cup Api!Work!Completions : Api!Work!Load(r, o)
          /\ UNCHANGED effects
      BY <1>5 DEF Api!Find, Api!CompletionOf, Api!storeVars
    <2>2. pc'[r] # "done"
      BY <1>5 DEF Api!Find, Api!Work!Load
    <2>3. QED
      BY <2>1, <2>2, ApiMoves
  <1>6. ASSUME NEW r \in Keyed, Api!Refuse(r) \/ Api!RollBack(r)
        PROVE  DoneTookEffect'
    <2>1. Api!Work!Refuse(r) \/ Api!Work!RollBack(r)
      BY <1>6 DEF Api!Refuse, Api!RollBack
    <2>2. UNCHANGED effects /\ pc'[r] # "done"
      BY <1>6 DEF Api!Refuse, Api!RollBack, Api!Store!HandlerThrows, Api!Work!Refuse,
                  Api!Work!RollBack
    <2>3. QED
      BY <2>1, <2>2, ApiMoves
  <1>7. ASSUME NEW r \in Keyed, Api!Execute(r)
        PROVE  DoneTookEffect'
    <2>1. Api!Work!Commit(r) /\ effects' = effects \cup {r}
      BY <1>7 DEF Api!Execute, Api!Store!Execute
    <2>2. QED
      BY <2>1, ApiMoves
  <1>8. ASSUME NEW k \in Keys, Api!Expire(k)
        PROVE  DoneTookEffect'
    BY <1>8 DEF Api!Expire, Api!workVars, Api!Store!Expire
  <1>9. QED
    BY <1>1, <1>2, <1>3, <1>4, <1>5, <1>6, <1>7, <1>8 DEF Api!Next

\* The store of the composition is the store of the theorems.
LEMMA ApiStoreSpec == Api!Store!Spec => StoreProofs!Spec
  <1>1. Api!Store!Init => StoreProofs!Init
    BY DEF Api!Store!Init, StoreProofs!Init, Api!Store!NoRow, StoreProofs!NoRow,
           Api!Store!Request, StoreProofs!Request
  <1>2. Api!Store!vars = StoreProofs!vars
    BY DEF Api!Store!vars, StoreProofs!vars
  <1>3. Api!Store!Next => StoreProofs!Next
    BY DEF Api!Store!Next, StoreProofs!Next, Api!Store!Step, StoreProofs!Step,
           Api!Store!Select, StoreProofs!Select,
           Api!Store!SelectMiss, StoreProofs!SelectMiss,
           Api!Store!SelectOtherBody, StoreProofs!SelectOtherBody,
           Api!Store!SelectPending, StoreProofs!SelectPending,
           Api!Store!SelectReplay, StoreProofs!SelectReplay,
           Api!Store!Insert, StoreProofs!Insert,
           Api!Store!InsertDuplicate, StoreProofs!InsertDuplicate,
           Api!Store!Execute, StoreProofs!Execute,
           Api!Store!HandlerThrows, StoreProofs!HandlerThrows,
           Api!Store!Complete, StoreProofs!Complete, Api!Store!Crash, StoreProofs!Crash,
           Api!Store!Expire, StoreProofs!Expire,
           Api!Store!Found, StoreProofs!Found, Api!Store!RowOf, StoreProofs!RowOf
  <1>4. [Api!Store!Next]_(Api!Store!vars) => [StoreProofs!Next]_(StoreProofs!vars)
    BY <1>2, <1>3 DEF Api!Store!vars, StoreProofs!vars
  <1>5. QED
    BY <1>1, <1>4, PTL DEF Api!Store!Spec, StoreProofs!Spec

\* However often a client repeats a completion under one key, one of the requests at
\* most completes the item: the composition inherits it from the store.
THEOREM ApiCompletesOncePerKey ==
    ASSUME Api!DefaultIsAsked, Api!KeyedOrPlain, Api!Store!NoneIsNoAttempt
    PROVE  Api!Spec => []Api!OneCompletionPerKey
  <1>1. Api!Spec => StoreProofs!Spec
    BY ApiImplementsParts, ApiStoreSpec, PTL DEF Api!ImplementsParts
  <1>2. StoreProofs!Spec => []StoreProofs!EffectOnce
    BY StoreProofs!AtMostOneEffect DEF Api!Store!NoneIsNoAttempt, StoreProofs!NoneIsNoAttempt
  <1>3. Api!Init => DoneTookEffect
    BY DEF Api!Init, Api!Work!Init, DoneTookEffect, Api!Requests
  <1>4. DoneTookEffect /\ [Api!Next]_(Api!vars) => DoneTookEffect'
    BY ApiEffectStep
  <1>5. DoneTookEffect /\ StoreProofs!EffectOnce => Api!OneCompletionPerKey
    BY DEF DoneTookEffect, StoreProofs!EffectOnce, Api!OneCompletionPerKey
  <1>6. QED
    BY <1>1, <1>2, <1>3, <1>4, <1>5, PTL DEF Api!Spec

\* What the store promises of an attempt, the composition promises of a keyed completion:
\* its statements, among those that change the items, implement one effect per key.
THEOREM ApiImplementsOnce ==
    ASSUME Api!DefaultIsAsked, Api!Store!NoneIsNoAttempt
    PROVE  Api!Spec => StoreProofs!ImplementsOnce
  <1>1. Api!Spec => StoreProofs!Spec
    BY ApiImplementsParts, ApiStoreSpec, PTL DEF Api!ImplementsParts
  <1>2. StoreProofs!Spec => StoreProofs!ImplementsOnce
    BY StoreProofs!StoreImplementsOnce DEF Api!Store!NoneIsNoAttempt, StoreProofs!NoneIsNoAttempt
  <1>3. QED
    BY <1>1, <1>2

\* When the requests are those of the composition, its items are the items of the theorems.
LEMMA ApiWorkSpec ==
    ASSUME Requests = Api!Requests
    PROVE  Api!Work!Spec => Spec
  <1> USE Requests = Api!Requests
  <1>1. Api!Work!Init => Init
    BY DEF Api!Work!Init, Init, Api!Work!NoItem, NoItem, Api!Work!NoOp, NoOp
  <1>2. Api!Work!vars = vars
    BY DEF Api!Work!vars, vars
  <1>3. /\ Api!Work!Updates = Updates /\ Api!Work!Completions = Completions
        /\ \A s, b, o : Api!Work!NewItem(s, b, o) = NewItem(s, b, o)
        /\ \A r \in Requests : /\ Api!Work!Accepted(r) = Accepted(r)
                               /\ Api!Work!Updated(r) = Updated(r)
                               /\ Api!Work!Completed(r) = Completed(r)
    BY DEF Api!Work!Updates, Updates, Api!Work!Completions, Completions,
           Api!Work!NewItem, NewItem, Api!Work!Accepted, Accepted,
           Api!Work!VersionConflict, VersionConflict,
           Api!Work!CancelledRefused, CancelledRefused, Api!Work!Written, Written,
           Api!Work!Updated, Updated, Api!Work!Completed, Completed
  <1>4. Api!Work!Next => Next
    BY <1>3
       DEF Api!Work!Next, Next, Api!Work!Create, Create, Api!Work!Load, Load,
           Api!Work!Refuse, Refuse, Api!Work!RollBack, RollBack,
           Api!Work!VersionConflict, VersionConflict,
           Api!Work!CancelledRefused, CancelledRefused,
           Api!Work!Commit, Commit, Api!Work!CommitUpdate, CommitUpdate,
           Api!Work!CommitComplete, CommitComplete,
           Api!Work!CommitCompleteRecurring, CommitCompleteRecurring
  <1>5. [Api!Work!Next]_(Api!Work!vars) => [Next]_vars
    BY <1>2, <1>4 DEF Api!Work!vars, vars
  <1>6. QED
    BY <1>1, <1>5, PTL DEF Api!Work!Spec, Spec

\* The versions and the audit trail of the items are as sound when completions come through
\* the idempotency store as they are without it.
THEOREM ApiKeepsItems ==
    ASSUME Api!DefaultIsAsked, Requests = Api!Requests
    PROVE  Api!Spec => [](VersionIsAudited /\ SuccessorsAreAudited /\ LostUpdatesShareAVersion)
  <1>1. Api!Spec => Spec
    BY ApiImplementsParts, ApiWorkSpec, PTL DEF Api!ImplementsParts
  <1>2. QED
    BY <1>1, VersionsAreAudited, SuccessorsAudited, LostUpdates, PTL

\* Requests that completed the item under different keys, and under none, are as many as
\* the keys and the requests without one.
LEMMA KeysCountCompletions ==
    ASSUME Api!KeyedOrPlain, Requests = Api!Requests, CompletionsAreCounted,
           Api!OneCompletionPerKey, NEW i \in Ids
    PROVE  audits[i].completed =
              Cardinality({req[r].key : r \in Keyed \cap CompletedBy(i)})
              + Cardinality(Plain \cap CompletedBy(i))
  <1> DEFINE K == Keyed \cap CompletedBy(i)
             P == Plain \cap CompletedBy(i)
             T == {req[r].key : r \in K}
             f == [r \in K |-> req[r].key]
  <1>1. IsFiniteSet(CompletedBy(i)) /\ Cardinality(CompletedBy(i)) = audits[i].completed
    BY DEF CompletionsAreCounted
  <1>2. IsFiniteSet(K) /\ IsFiniteSet(P)
    BY <1>1, FS_Subset
  <1>3. CompletedBy(i) = K \cup P /\ K \cap P = {}
    BY DEF CompletedBy, DoneOn, Api!Requests, Api!KeyedOrPlain
  <1>4. Cardinality(CompletedBy(i)) = Cardinality(K) + Cardinality(P)
    <2>1. Cardinality(K) \in Nat /\ Cardinality(P) \in Nat
      BY <1>2, FS_CardinalityType
    <2>2. Cardinality(K \cap P) = 0
      BY <1>3, FS_EmptySet
    <2>3. Cardinality(K \cup P) = Cardinality(K) + Cardinality(P) - Cardinality(K \cap P)
      BY <1>2, FS_Union
    <2>4. QED
      BY <1>3, <2>1, <2>2, <2>3
  <1>5. Cardinality(T) = Cardinality(K)
    <2>1. f \in Surjection(K, T)
      BY DEF Surjection
    <2>2. \A q, r \in K : q # r => req[q].key # req[r].key
      BY DEF CompletedBy, DoneOn, Api!OneCompletionPerKey
    <2>3. f \in Injection(K, T)
      BY <2>1, <2>2 DEF Injection, IsInjective, Surjection
    <2>4. QED
      BY <1>2, <2>1, <2>3, FS_Surjection
  <1>6. QED
    BY <1>1, <1>4, <1>5

\* Both modules count with the same Cardinality.
LEMMA ApiCardinality == \A S : Api!Cardinality(S) = Cardinality(S)
  BY DEF Api!Cardinality, Cardinality

\* End to end, from the Idempotency-Key of a request to the rows of the item it completes:
\* a recurring item gets at most one successor for each key and for each request without one.
THEOREM ApiSuccessorsPerKey ==
    ASSUME Api!DefaultIsAsked, Api!KeyedOrPlain, Api!Store!NoneIsNoAttempt,
           Requests = Api!Requests
    PROVE  Api!Spec => []Api!SuccessorsPerKey
  <1>1. Api!Spec => Spec
    BY ApiImplementsParts, ApiWorkSpec, PTL DEF Api!ImplementsParts
  <1>2. SuccessorsAreAudited /\ CompletionsAreCounted /\ Api!OneCompletionPerKey
            => Api!SuccessorsPerKey
    <2> SUFFICES ASSUME SuccessorsAreAudited, CompletionsAreCounted, Api!OneCompletionPerKey,
                        NEW i \in Ids
                 PROVE  Cardinality(Api!Work!Successors(i)) <=
                           Cardinality({req[r].key : r \in Keyed \cap Api!DoneCompletions(i)})
                           + Cardinality(Plain \cap Api!DoneCompletions(i))
      BY ApiCardinality DEF Api!SuccessorsPerKey
    <2>1. Api!Work!Successors(i) = Successors(i)
      BY DEF Api!Work!Successors, Successors, Api!Work!Present, Present
    <2>2. Api!DoneCompletions(i) = CompletedBy(i)
      BY DEF Api!DoneCompletions, CompletedBy, DoneOn
    <2>3. Cardinality(Successors(i)) <= audits[i].completed
      BY DEF SuccessorsAreAudited
    <2>4. QED
      BY <2>1, <2>2, <2>3, KeysCountCompletions
  <1>3. QED
    BY <1>1, <1>2, SuccessorsAudited, CompletionsCounted, ApiCompletesOncePerKey, PTL
===============================================================================
