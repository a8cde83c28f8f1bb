------------------------------ MODULE TasksProofs ------------------------------
(***************************************************************************)
(* Proofs about Tasks, for any number of tasks, requests, pages and deaths *)
(* of the scan.                                                            *)
(***************************************************************************)
EXTENDS Tasks, FiniteSetTheorems, WellFoundedInduction, TLAPS

\* Task t has an event to come on the page of the scan.
ToCome(t) == \/ scan.at = "event" /\ t \in scan.page
             \/ scan.at = "mark" /\ t \in scan.page /\ t # Current

\* Task t has had its event, and the mark is to come.
Between(t) == scan.at = "mark" /\ t = Current

\* Who has still to be announced was announced only by scans that died.
EventsAreAccounted ==
    \A t \in Ids :
        /\ events[t] <= 1 + deaths
        /\ ToCome(t) => events[t] <= deaths
        /\ rows[t].present /\ ~rows[t].notified /\ ~Between(t) => events[t] <= deaths
        /\ Between(t) => events[t] > 0
        /\ rows[t].notified => events[t] > 0

\* Tasks get their rows in the order of their keys, and the page holds some of them.
TasksExist ==
    \A t \in Ids : /\ t > lastId => events[t] = 0 /\ ~rows[t].present
                   /\ t \in scan.page => t <= lastId

ScanInv == EventsAreAccounted /\ TasksExist

Scan == [at: {"idle", "page", "event", "mark"}, asof: Nat, last: Nat,
         page: SUBSET Ids, full: BOOLEAN]

\* What the proofs need to know of the constants.
LEMMA ConstantFacts ==
    /\ MaxId \in Nat /\ First \in 0..MaxId /\ MaxTime \in Nat /\ MaxDeaths \in Nat
    /\ Asked \subseteq Statuses /\ None \notin Nat /\ Dates \subseteq Nat \cup {None}
    /\ Ids \subseteq Nat
  BY BoundsAreNats, AskedAreStatuses, NoneIsNoDate, DatesAreDates DEF Ids

Less == {p \in Nat \X Nat : p[1] < p[2]}

\* A set of numbers that is not empty has a least one.
LEMMA SmallestOf ==
    ASSUME NEW P \in SUBSET Nat, P # {}
    PROVE  \E m \in P : \A n \in P : m <= n
  <1>1. IsWellFoundedOn(Less, Nat)
    BY NatLessThanWellFounded DEF OpToRel, Less
  <1>2. \E x \in P : \A y \in P : <<y, x>> \notin Less
    BY <1>1, WFMin
  <1>3. \A x, y \in Nat : <<y, x>> \notin Less => x <= y
    BY DEF Less
  <1>4. QED
    BY <1>2, <1>3

\* A page has a first and a last task.
LEMMA MinOfPage ==
    ASSUME NEW P \in SUBSET Ids, P # {}
    PROVE  Min(P) \in P
  <1>1. P \in SUBSET Nat
    BY ConstantFacts
  <1>2. \E m \in P : \A n \in P : m <= n
    BY <1>1, SmallestOf
  <1>3. QED
    BY <1>2 DEF Min

\* A page that is not empty has a greatest id, which a library's Max picks.
LEMMA MaxOfPage ==
    ASSUME NEW P \in SUBSET Ids, P # {}
    PROVE  Max(P) \in P /\ \A n \in P : n <= Max(P)
  <1> DEFINE Q == {MaxId - p : p \in P}
  <1>1. \A p \in P : p \in Nat /\ p <= MaxId /\ MaxId - p \in Nat
    BY ConstantFacts DEF Ids
  <1>2. Q \in SUBSET Nat /\ Q # {}
    BY <1>1
  <1>3. \E m \in Q : \A n \in Q : m <= n
    BY <1>2, SmallestOf
  <1>4. PICK p \in P : \A n \in P : MaxId - p <= MaxId - n
    BY <1>3
  <1>5. \A n \in P : p >= n
    BY <1>1, <1>4, ConstantFacts
  <1>6. Max(P) \in P /\ \A n \in P : Max(P) >= n
    BY <1>5 DEF Max
  <1>7. QED
    BY <1>1, <1>6

\* Between the fetch and the end of a page, the scan has a task in its hands, one of the
\* page.
LEMMA CurrentFacts ==
    ASSUME TypeOK, scan.at \in {"event", "mark"}
    PROVE  Current \in scan.page /\ Current \in Ids
  BY MinOfPage DEF TypeOK, Current

\* The rows that the code makes are rows: no task, a new task, an idle scan.
LEMMA RowFacts ==
    /\ NoTask \in Row /\ ~NoTask.present /\ ~NoTask.notified
    /\ \A s \in Statuses, d \in Nat \cup {None}, b \in BOOLEAN :
          /\ NewTask(s, d, b) \in Row
          /\ NewTask(s, d, b).present /\ ~NewTask(s, d, b).notified
    /\ NoScan \in Scan /\ NoScan.at = "idle" /\ NoScan.page = {}
  BY DEF Row, NoTask, NewTask, Statuses, NoScan, Scan

Fields == {"present", "status", "due", "repeats", "stamped", "notified"}

\* A row is a function on its fields, so an update of some of them is a row again.
LEMMA RowIsFunction ==
    ASSUME NEW row \in Row
    PROVE  /\ DOMAIN row = Fields
           /\ row = [f \in Fields |-> row[f]]
           /\ row["present"] = row.present /\ row["notified"] = row.notified
  BY DEF Row, Fields

\* What save() writes: a row, with the mark that is stored.
LEMMA WrittenFacts ==
    ASSUME NEW before \in Row, NEW after \in Row, NEW stored \in Row,
           after.notified = before.notified, after.present = before.present
    PROVE  LET row == Written(before, after, stored) IN
           row \in Row /\ row.notified = stored.notified /\ row.present = stored.present
  <1> DEFINE new == [f \in DOMAIN stored |-> IF after[f] = before[f] THEN stored[f] ELSE after[f]]
             same == [present |-> stored.present,
                      status |-> IF after.status = before.status THEN stored.status ELSE after.status,
                      due |-> IF after.due = before.due THEN stored.due ELSE after.due,
                      repeats |-> IF after.repeats = before.repeats THEN stored.repeats
                                  ELSE after.repeats,
                      stamped |-> IF after.stamped = before.stamped THEN stored.stamped
                                  ELSE after.stamped,
                      notified |-> stored.notified]
  <1>1. same \in Row /\ same.notified = stored.notified /\ same.present = stored.present
    BY DEF Row
  <1>2. new = same
    BY RowIsFunction DEF Fields, Row
  <1>3. QED
    BY <1>1, <1>2 DEF Written

\* Type and invariant hold in the empty database.
LEMMA InitFacts == Init => TypeOK /\ ScanInv
  <1> SUFFICES ASSUME Init
               PROVE  TypeOK /\ ScanInv
    OBVIOUS
  <1>1. rows \in [Ids -> Row] /\ \A t \in Ids : ~rows[t].notified
    <2>1. \A b \in BOOLEAN : /\ NewTask("pending", 0, b) \in Row
                             /\ ~NewTask("pending", 0, b).notified
      BY RowFacts DEF Statuses
    <2>2. \A t \in Ids : rows[t] \in {NoTask} \cup {NewTask("pending", 0, b) : b \in BOOLEAN}
      BY DEF Init
    <2>3. \A t \in Ids : rows[t] \in Row /\ ~rows[t].notified
      BY <2>1, <2>2, RowFacts
    <2>4. QED
      BY <2>3 DEF Init
  <1>2. scan \in Scan /\ scan.at = "idle" /\ scan.page = {}
    BY RowFacts DEF Init
  <1>3. model \in [Requests -> Row]
    BY RowFacts DEF Init
  <1>4. TypeOK
    BY <1>1, <1>2, <1>3, ConstantFacts DEF Init, TypeOK, Scan
  <1>5. \A t \in Ids : t > lastId => ~rows[t].present
    <2>1. \A t \in Ids : rows[t].present => t <= First
      BY ConstantFacts DEF Init, Present
    <2>2. \A t \in Ids : ~(t <= First) \/ ~(t > First)
      BY ConstantFacts
    <2>3. QED
      BY <2>1, <2>2 DEF Init
  <1>6. ScanInv
    <2>1. \A t \in Ids : events[t] = 0 /\ deaths = 0
      BY DEF Init
    <2>2. EventsAreAccounted
      BY <1>1, <1>2, <2>1 DEF EventsAreAccounted, ToCome, Between
    <2>3. TasksExist
      BY <1>2, <1>5, <2>1 DEF TasksExist
    <2>4. QED
      BY <2>2, <2>3 DEF ScanInv
  <1>7. QED
    BY <1>4, <1>6

-------------------------------------------------------------------------------
(* Requests *)

\* A request that sets no mark, takes none away from a row that stays, and inserts
\* only a row under the next key.
LEMMA MarksKept ==
    ASSUME TypeOK, ScanInv, UNCHANGED scanVars, lastId' \in Nat, lastId <= lastId',
           \A t \in Ids :
              /\ rows'[t].notified => rows[t].notified
              /\ rows'[t].present /\ ~rows'[t].notified =>
                    (rows[t].present /\ ~rows[t].notified) \/ t > lastId
              /\ t > lastId' => ~rows'[t].present
    PROVE  ScanInv'
  <1>1. lastId \in Nat /\ deaths \in Nat /\ \A t \in Ids : t \in Nat /\ events[t] \in Nat
    BY ConstantFacts DEF TypeOK
  <1>2. Current' = Current /\ UNCHANGED <<scan, deaths, events>>
    BY DEF scanVars, Current
  <1>3. \A t \in Ids : (ToCome(t)' <=> ToCome(t)) /\ (Between(t)' <=> Between(t))
    BY <1>2 DEF ToCome, Between
  <1>4. \A t \in Ids : t > lastId => events[t] <= deaths
    BY <1>1 DEF ScanInv, TasksExist
  <1>5. EventsAreAccounted'
    BY <1>2, <1>3, <1>4 DEF ScanInv, EventsAreAccounted
  <1>6. \A t \in Ids : (t > lastId' => t > lastId) /\ (t <= lastId => t <= lastId')
    BY <1>1
  <1>7. TasksExist'
    BY <1>2, <1>6 DEF ScanInv, TasksExist
  <1>8. QED
    BY <1>5, <1>7 DEF ScanInv

\* Requests whose end is typed.
RequestsTyped ==
    /\ pc \in [Requests -> {"idle", "loaded", "saved", "done"}]
    /\ task \in [Requests -> Nat]
    /\ \A r \in Requests : pc[r] \in {"loaded", "saved"} => task[r] \in Ids
    /\ model \in [Requests -> Row]

\* A request that ends is typed.
LEMMA EndFacts ==
    ASSUME TypeOK, NEW r \in Requests, End(r)
    PROVE  RequestsTyped'
  BY RowFacts DEF TypeOK, End, RequestsTyped, Row, Statuses, Ids

\* What requests touched during a scan are ids.
LEMMA TouchFacts ==
    ASSUME TypeOK, NEW ts \in SUBSET Ids, Touch(ts)
    PROVE  touched' \subseteq Ids
  BY DEF TypeOK, Touch

\* TypeOK of a step of a request, from what the step writes.
LEMMA RequestTypes ==
    ASSUME TypeOK, RequestsTyped', rows' \in [Ids -> Row], lastId' \in 0..MaxId,
           UNCHANGED <<now, scanVars>>, touched' \subseteq Ids, tainted' \subseteq Ids,
           owed' \in [Ids -> Int]
    PROVE  TypeOK'
  BY DEF TypeOK, RequestsTyped, scanVars, Row, Ids, Statuses

\* A row inserted under the next key.
LEMMA InsertFacts ==
    ASSUME TypeOK, ScanInv, UNCHANGED scanVars, NEW row \in Row, row.present, ~row.notified,
           Insert(row)
    PROVE  /\ rows' \in [Ids -> Row] /\ lastId' \in 0..MaxId /\ touched' \subseteq Ids
           /\ ScanInv'
  <1> DEFINE new == lastId + 1
  <1>1. lastId \in Nat /\ lastId < MaxId /\ lastId' = new /\ MaxId \in Nat
    BY ConstantFacts DEF TypeOK, Insert
  <1>2. new \in Ids /\ new \in Nat /\ new <= MaxId /\ new > lastId
    BY <1>1 DEF Ids
  <1>3. rows' = [rows EXCEPT ![new] = row] /\ Touch({new})
    BY DEF Insert
  <1>4. \A t \in Ids : (t > new => t > lastId) /\ t \in Nat
    BY <1>1, ConstantFacts
  <1>5. lastId <= new /\ ~(new > new)
    BY <1>1
  <1> HIDE DEF new
  <1>6. /\ rows'[new] = row /\ \A t \in Ids : t # new => rows'[t] = rows[t]
        /\ rows' \in [Ids -> Row]
    BY <1>2, <1>3 DEF TypeOK
  <1>7. touched' \subseteq Ids
    BY <1>2, <1>3, TouchFacts
  <1>8. \A t \in Ids :
            /\ rows'[t].notified => rows[t].notified
            /\ rows'[t].present /\ ~rows'[t].notified =>
                  (rows[t].present /\ ~rows[t].notified) \/ t > lastId
            /\ t > new => ~rows'[t].present
    BY <1>2, <1>4, <1>5, <1>6 DEF ScanInv, TasksExist
  <1>9. ScanInv'
    BY <1>1, <1>2, <1>5, <1>8, MarksKept
  <1>10. QED
    BY <1>1, <1>2, <1>6, <1>7, <1>9

\* Storing a task takes a key not given out, which no event mentions, and leaves it
\* unmarked.
LEMMA StoreStep ==
    ASSUME TypeOK, ScanInv, NEW r \in Requests, NEW s \in Asked, NEW d \in Dates,
           NEW b \in BOOLEAN, Store(r, s, d, b)
    PROVE  TypeOK' /\ ScanInv'
  <1> DEFINE row == NewTask(s, d, b)
  <1>1. row \in Row /\ row.present /\ ~row.notified
    BY RowFacts, ConstantFacts
  <1>2. Insert(row) /\ End(r) /\ UNCHANGED <<now, scanVars>> /\ UNCHANGED <<tainted, owed>>
    BY DEF Store
  <1> HIDE DEF row
  <1>3. /\ rows' \in [Ids -> Row] /\ lastId' \in 0..MaxId /\ touched' \subseteq Ids
        /\ ScanInv'
    BY <1>1, <1>2, InsertFacts
  <1>4. tainted' \subseteq Ids /\ owed' \in [Ids -> Int]
    BY <1>2 DEF TypeOK
  <1>5. QED
    BY <1>2, <1>3, <1>4, EndFacts, RequestTypes

\* A step that leaves the rows alone.
LEMMA RowsKept ==
    ASSUME TypeOK, ScanInv, UNCHANGED <<rows, lastId, scanVars>>
    PROVE  ScanInv'
  <1>1. lastId \in Nat /\ lastId <= lastId
    BY ConstantFacts DEF TypeOK
  <1>2. \A t \in Ids :
            /\ rows'[t].notified => rows[t].notified
            /\ rows'[t].present /\ ~rows'[t].notified =>
                  (rows[t].present /\ ~rows[t].notified) \/ t > lastId
            /\ t > lastId => ~rows'[t].present
    BY DEF ScanInv, TasksExist
  <1>3. QED
    BY <1>1, <1>2, MarksKept

\* Loading changes the request alone, which no part of the scan's invariant reads.
LEMMA LoadStep ==
    ASSUME TypeOK, ScanInv, NEW r \in Requests, NEW t \in Ids, Load(r, t)
    PROVE  TypeOK' /\ ScanInv'
  <1>1. t \in Nat
    BY ConstantFacts
  <1>2. RequestsTyped'
    BY <1>1 DEF TypeOK, Load, RequestsTyped, Row, Statuses, Ids
  <1>3. /\ rows' \in [Ids -> Row] /\ lastId' \in 0..MaxId /\ UNCHANGED <<now, scanVars>>
        /\ touched' \subseteq Ids /\ tainted' \subseteq Ids /\ owed' \in [Ids -> Int]
    BY DEF TypeOK, Load, historyVars
  <1>4. ScanInv'
    BY RowsKept DEF Load
  <1>5. QED
    BY <1>2, <1>3, <1>4, RequestTypes

\* The row save() leaves under the key of its task, and the model it had in memory.
LEMMA SavedRow ==
    ASSUME TypeOK, NEW r \in Requests, NEW s \in Asked, NEW d \in Dates, NEW b \in BOOLEAN,
           Save(r, s, d, b)
    PROVE  LET t == task[r]
               asked == [model[r] EXCEPT !.status = s, !.due = d, !.repeats = b]
               after == Stamped(model[r], asked)
               row == Written(model[r], after, rows[t])
           IN  /\ t \in Ids /\ after \in Row
               /\ row \in Row /\ row.notified = rows[t].notified
               /\ row.present = rows[t].present
  <1> DEFINE t == task[r]
             asked == [model[r] EXCEPT !.status = s, !.due = d, !.repeats = b]
             after == Stamped(model[r], asked)
             row == Written(model[r], after, rows[t])
  <1>1. t \in Ids /\ model[r] \in Row /\ rows[t] \in Row
    BY ConstantFacts DEF TypeOK, Save
  <1>2. asked \in Row /\ asked.notified = model[r].notified /\ asked.present = model[r].present
    BY <1>1, ConstantFacts DEF Row
  <1>3. after \in Row /\ after.notified = model[r].notified /\ after.present = model[r].present
    <2> HIDE DEF asked
    <2>1. after.notified = asked.notified /\ after.present = asked.present /\ after \in Row
      BY <1>2 DEF Stamped, Row
    <2>2. QED
      BY <1>2, <2>1
  <1>4. row \in Row /\ row.notified = rows[t].notified /\ row.present = rows[t].present
    <2> HIDE DEF after
    <2>1. QED
      BY <1>1, <1>3, WrittenFacts
  <1>5. QED
    BY <1>1, <1>3, <1>4

\* A save writes what its request changed, which is never the mark of a task that is
\* there.
LEMMA SaveStep ==
    ASSUME TypeOK, ScanInv, NEW r \in Requests, NEW s \in Asked, NEW d \in Dates,
           NEW b \in BOOLEAN, Save(r, s, d, b)
    PROVE  TypeOK' /\ ScanInv'
  <1> DEFINE t == task[r]
             asked == [model[r] EXCEPT !.status = s, !.due = d, !.repeats = b]
             after == Stamped(model[r], asked)
             row == Written(model[r], after, rows[t])
  <1>1. t \in Ids
    BY SavedRow
  <1>2. after \in Row
    BY SavedRow
  <1>3. row \in Row /\ row.notified = rows[t].notified /\ row.present = rows[t].present
    BY SavedRow
  <1>4. rows' = [rows EXCEPT ![t] = row]
    BY DEF Save
  <1>5. /\ pc[r] = "loaded"
        /\ \/ /\ pc' = [pc EXCEPT ![r] = "saved"]
              /\ model' = [model EXCEPT ![r] = after]
              /\ UNCHANGED task
           \/ End(r)
        /\ Touch({t}) /\ UNCHANGED <<lastId, now, scanVars>>
    BY DEF Save
  <1>6. tainted' \subseteq Ids
    BY <1>1 DEF Save, TypeOK
  <1>7. owed' \in [Ids -> Int]
    BY <1>1 DEF Save, TypeOK
  <1> HIDE DEF t, after, row
  <1>8. RequestsTyped'
    <2>1. CASE End(r)
      BY <2>1, EndFacts
    <2>2. CASE /\ pc' = [pc EXCEPT ![r] = "saved"]
               /\ model' = [model EXCEPT ![r] = after]
               /\ UNCHANGED task
      <3>1. model' \in [Requests -> Row]
        BY <1>2, <2>2 DEF TypeOK
      <3>2. pc' \in [Requests -> {"idle", "loaded", "saved", "done"}]
        BY <2>2 DEF TypeOK
      <3>3. task' \in [Requests -> Nat]
        BY <2>2 DEF TypeOK
      <3>4. ASSUME NEW q \in Requests, pc'[q] \in {"loaded", "saved"}
            PROVE  task'[q] \in Ids
        BY <1>5, <2>2, <3>4 DEF TypeOK
      <3>5. QED
        BY <3>1, <3>2, <3>3, <3>4 DEF RequestsTyped
    <2>3. QED
      BY <1>5, <2>1, <2>2
  <1>9. /\ rows' \in [Ids -> Row] /\ rows'[t] = row
         /\ \A u \in Ids : u # t => rows'[u] = rows[u]
    BY <1>1, <1>3, <1>4 DEF TypeOK
  <1>10. touched' \subseteq Ids
    BY <1>1, <1>5, TouchFacts
  <1>11. lastId' \in 0..MaxId /\ lastId' = lastId /\ lastId \in Nat /\ lastId <= lastId
    BY <1>5, ConstantFacts DEF TypeOK
  <1>12. \A u \in Ids : rows'[u].notified = rows[u].notified /\ rows'[u].present = rows[u].present
    BY <1>3, <1>9
  <1>13. \A u \in Ids : u > lastId => ~rows'[u].present
    BY <1>12 DEF ScanInv, TasksExist
  <1>14. ScanInv'
    BY <1>5, <1>11, <1>12, <1>13, MarksKept
  <1>15. TypeOK'
    BY <1>5, <1>6, <1>7, <1>8, <1>9, <1>10, <1>11, RequestTypes
  <1>16. QED
    BY <1>14, <1>15

\* The next occurrence is a new task: unmarked, and never announced.
LEMMA CreateNextOccurrenceStep ==
    ASSUME TypeOK, ScanInv, NEW r \in Requests, CreateNextOccurrence(r)
    PROVE  TypeOK' /\ ScanInv'
  <1> DEFINE row == NextOccurrence(model[r])
  <1>1. model[r].due + 1 \in Nat
    BY DEF TypeOK, CreateNextOccurrence, Row
  <1>2. row \in Row /\ row.present /\ ~row.notified
    BY <1>1, RowFacts DEF NextOccurrence, Statuses
  <1>3. Insert(row) /\ End(r) /\ UNCHANGED <<now, scanVars>> /\ tainted' = tainted
    BY DEF CreateNextOccurrence
  <1> HIDE DEF row
  <1>4. /\ rows' \in [Ids -> Row] /\ lastId' \in 0..MaxId /\ touched' \subseteq Ids
        /\ ScanInv'
    BY <1>2, <1>3, InsertFacts
  <1>5. tainted' \subseteq Ids
    BY <1>3 DEF TypeOK
  <1>6. owed' \in [Ids -> Int]
    BY DEF TypeOK, CreateNextOccurrence
  <1>7. QED
    BY <1>3, <1>4, <1>5, <1>6, EndFacts, RequestTypes

\* Ending without a next occurrence, or dying before it, changes no task.
LEMMA RestOfSaveStep ==
    ASSUME TypeOK, ScanInv, NEW r \in Requests, NoNextOccurrence(r) \/ DieBetween(r)
    PROVE  TypeOK' /\ ScanInv'
  <1>1. /\ End(r) /\ UNCHANGED <<rows, lastId>> /\ UNCHANGED <<now, scanVars>>
        /\ UNCHANGED <<touched, owed>> /\ tainted' \subseteq tainted \cup {task[r]}
        /\ pc[r] = "saved"
    BY DEF NoNextOccurrence, DieBetween, historyVars
  <1>2. ScanInv'
    BY <1>1, RowsKept
  <1>3. /\ rows' \in [Ids -> Row] /\ lastId' \in 0..MaxId
        /\ touched' \subseteq Ids /\ tainted' \subseteq Ids /\ owed' \in [Ids -> Int]
    BY <1>1 DEF TypeOK
  <1>4. QED
    BY <1>1, <1>2, <1>3, EndFacts, RequestTypes

\* A row with some columns written by a bulk update.
LEMMA ChangedFacts ==
    ASSUME NEW row \in Row, NEW change \in BulkChanges
    PROVE  LET new == [f \in DOMAIN row |-> IF f \in DOMAIN change THEN change[f] ELSE row[f]]
           IN  new \in Row /\ new.notified = row.notified /\ new.present = row.present
  <1> DEFINE new == [f \in DOMAIN row |-> IF f \in DOMAIN change THEN change[f] ELSE row[f]]
             same == [present |-> row.present,
                      status |-> IF "status" \in DOMAIN change THEN change["status"]
                                 ELSE row.status,
                      due |-> IF "due" \in DOMAIN change THEN change["due"] ELSE row.due,
                      repeats |-> row.repeats, stamped |-> row.stamped,
                      notified |-> row.notified]
  <1>1. /\ DOMAIN change \subseteq {"status", "due"}
        /\ "status" \in DOMAIN change => change["status"] \in Statuses
        /\ "due" \in DOMAIN change => change["due"] \in Nat \cup {None}
    BY ConstantFacts DEF BulkChanges
  <1>2. same \in Row /\ same.notified = row.notified /\ same.present = row.present
    BY <1>1 DEF Row
  <1>3. new = same
    BY <1>1, RowIsFunction DEF Fields, Row
  <1>4. QED
    BY <1>2, <1>3

\* A bulk update leaves marks and rows where they are.
LEMMA BulkRows ==
    ASSUME TypeOK, NEW r \in Requests, NEW ts \in SUBSET Present, NEW change \in BulkChanges,
           BulkUpdate(r, ts, change)
    PROVE  /\ rows' \in [Ids -> Row]
           /\ \A t \in Ids : /\ rows'[t].notified = rows[t].notified
                             /\ rows'[t].present = rows[t].present
  <1> DEFINE new(row) ==
                [f \in DOMAIN row |-> IF f \in DOMAIN change THEN change[f] ELSE row[f]]
  <1>1. rows' = [t \in Ids |-> IF t \in ts THEN new(rows[t]) ELSE rows[t]]
    BY DEF BulkUpdate
  <1>2. \A t \in Ids : /\ new(rows[t]) \in Row /\ rows[t] \in Row
                       /\ new(rows[t]).notified = rows[t].notified
                       /\ new(rows[t]).present = rows[t].present
    BY ChangedFacts DEF TypeOK
  <1> HIDE DEF new
  <1>3. QED
    BY <1>1, <1>2

\* Requests that write rows in place.
LEMMA BulkStep ==
    ASSUME TypeOK, ScanInv, NEW r \in Requests, NEW ts \in SUBSET Present,
           \/ \E change \in BulkChanges : BulkUpdate(r, ts, change)
           \/ Delete(r, ts)
    PROVE  TypeOK' /\ ScanInv'
  <1>1. /\ End(r) /\ Touch(ts) /\ UNCHANGED <<lastId, owed>> /\ UNCHANGED <<now, scanVars>>
        /\ tainted' \subseteq tainted \cup ts
    BY DEF BulkUpdate, Delete
  <1>2. ts \in SUBSET Ids /\ touched' \subseteq Ids /\ tainted' \subseteq Ids
    <2>1. ts \in SUBSET Ids
      BY DEF Present
    <2>2. QED
      BY <1>1, <2>1, TouchFacts DEF TypeOK
  <1>3. /\ rows' \in [Ids -> Row]
        /\ \A t \in Ids : \/ rows'[t] = NoTask
                          \/ /\ rows'[t].notified = rows[t].notified
                             /\ rows'[t].present = rows[t].present
    <2>1. CASE Delete(r, ts)
      BY <2>1, RowFacts DEF Delete, TypeOK
    <2>2. ASSUME NEW change \in BulkChanges, BulkUpdate(r, ts, change)
          PROVE  /\ rows' \in [Ids -> Row]
                 /\ \A t \in Ids : /\ rows'[t].notified = rows[t].notified
                                   /\ rows'[t].present = rows[t].present
      BY <2>2, BulkRows
    <2>3. QED
      BY <2>1, <2>2
  <1>4. lastId' = lastId /\ lastId \in Nat /\ lastId <= lastId /\ lastId \in 0..MaxId
    BY <1>1, ConstantFacts DEF TypeOK
  <1>5. \A t \in Ids : t > lastId => ~rows'[t].present
    BY <1>3, RowFacts DEF ScanInv, TasksExist
  <1>6. ScanInv'
    BY <1>1, <1>3, <1>4, <1>5, RowFacts, MarksKept
  <1>7. owed' \in [Ids -> Int]
    BY <1>1 DEF TypeOK
  <1>8. QED
    BY <1>1, <1>2, <1>3, <1>4, <1>6, <1>7, EndFacts, RequestTypes

-------------------------------------------------------------------------------
(* The scan *)

\* TypeOK of a step of the scan, from what the step writes.
LEMMA ScanTypes ==
    ASSUME TypeOK, scan' \in Scan, scan'.at \in {"event", "mark"} => scan'.page # {},
           rows' \in [Ids -> Row], deaths' \in 0..MaxDeaths, events' \in [Ids -> Nat],
           touched' \subseteq Ids, UNCHANGED <<lastId, now, requestVars, tainted, owed>>
    PROVE  TypeOK'
  BY DEF TypeOK, Scan, requestVars, Row, Ids, Statuses

\* What the scan forgets when it ends, by itself or by dying, was in order.
LEMMA ScanEnds ==
    ASSUME TypeOK, ScanInv, scan' = NoScan, UNCHANGED <<rows, lastId, events>>,
           deaths' \in 0..MaxDeaths,
           \/ deaths' = deaths + 1
           \/ deaths' = deaths /\ scan.at \in {"idle", "page"}
    PROVE  ScanInv'
  <1>1. \A t \in Ids : ~ToCome(t)' /\ ~Between(t)'
    BY RowFacts DEF ToCome, Between
  <1>2. deaths \in Nat /\ \A t \in Ids : events[t] \in Nat
    BY ConstantFacts DEF TypeOK
  <1>3. \A t \in Ids : events[t] <= 1 + deaths'
    BY <1>2 DEF ScanInv, EventsAreAccounted
  <1>4. \A t \in Ids : rows[t].present /\ ~rows[t].notified => events[t] <= deaths'
    <2>1. CASE deaths' = deaths + 1
      BY <1>2, <2>1 DEF ScanInv, EventsAreAccounted
    <2>2. CASE deaths' = deaths /\ scan.at \in {"idle", "page"}
      BY <1>2, <2>2 DEF ScanInv, EventsAreAccounted, Between
    <2>3. QED
      BY <2>1, <2>2
  <1>5. EventsAreAccounted'
    BY <1>1, <1>3, <1>4 DEF ScanInv, EventsAreAccounted
  <1>6. TasksExist'
    BY RowFacts DEF ScanInv, TasksExist
  <1>7. QED
    BY <1>5, <1>6 DEF ScanInv

\* A scan that ends forgets what was touched; what is left are ids.
LEMMA RewindFacts ==
    ASSUME TypeOK, Rewind
    PROVE  touched' \subseteq Ids
  BY DEF TypeOK, Rewind

\* A scan starts with an empty page and every id ahead of it.
LEMMA StartScanStep ==
    ASSUME TypeOK, ScanInv, StartScan
    PROVE  TypeOK' /\ ScanInv'
  <1>1. scan' \in Scan /\ scan'.at = "page" /\ scan'.page = {}
    <2>1. now \in Nat
      BY ConstantFacts DEF TypeOK
    <2>2. QED
      BY <2>1 DEF StartScan, NoScan, Scan, Deadline
  <1>2. \A t \in Ids : ~ToCome(t)' /\ ~Between(t)' /\ ~Between(t)
    BY <1>1 DEF ToCome, Between, StartScan
  <1>3. EventsAreAccounted'
    BY <1>2 DEF ScanInv, EventsAreAccounted, StartScan
  <1>4. TasksExist'
    BY <1>1 DEF ScanInv, TasksExist, StartScan
  <1>5. TypeOK'
    BY <1>1, ScanTypes DEF StartScan, TypeOK, historyVars
  <1>6. QED
    BY <1>3, <1>4, <1>5 DEF ScanInv

\* A page holds the first overdue tasks without mark above the last id; what is above it
\* is still ahead.
LEMMA FetchPageStep ==
    ASSUME TypeOK, ScanInv, FetchPage
    PROVE  TypeOK' /\ ScanInv'
  <1> DEFINE page == {t \in Rest : Cardinality({u \in Rest : u < t}) < PageSize}
  <1>1. /\ page \subseteq Ids
        /\ \A t \in page : rows[t].present /\ ~rows[t].notified
    BY DEF Rest, Overdue
  <1>2. /\ scan.at = "page"
        /\ scan' = IF page = {}
                   THEN NoScan
                   ELSE [scan EXCEPT !.at = "event", !.page = page, !.last = Max(page),
                                     !.full = Cardinality(page) = PageSize]
        /\ Rewind
        /\ UNCHANGED <<rows, lastId, events>> /\ deaths' = deaths
        /\ UNCHANGED <<lastId, now, requestVars, tainted, owed>>
    BY DEF FetchPage
  <1> HIDE DEF page
  <1>3. CASE page = {}
    <2>1. scan' = NoScan /\ deaths' \in 0..MaxDeaths
      BY <1>2, <1>3 DEF TypeOK
    <2>2. ScanInv'
      BY <1>2, <2>1, ScanEnds
    <2>3. TypeOK'
      BY <1>2, <2>1, RowFacts, RewindFacts, ScanTypes DEF TypeOK
    <2>4. QED
      BY <2>2, <2>3
  <1>4. CASE page # {}
    <2>1. Max(page) \in Nat
      BY <1>1, <1>4, MaxOfPage, ConstantFacts
    <2>2. scan' \in Scan /\ scan'.at = "event" /\ scan'.page = page
      BY <1>1, <1>2, <1>4, <2>1 DEF TypeOK, Scan
    <2>3. \A t \in Ids : /\ ToCome(t)' <=> t \in page
                         /\ ~Between(t)' /\ ~Between(t)
      BY <1>2, <2>2 DEF ToCome, Between
    <2>4. EventsAreAccounted'
      BY <1>1, <1>2, <2>3 DEF ScanInv, EventsAreAccounted
    <2>5. \A t \in page : t <= lastId
      BY <1>1, ConstantFacts DEF ScanInv, TasksExist, TypeOK
    <2>6. TasksExist'
      BY <1>2, <2>2, <2>5 DEF ScanInv, TasksExist
    <2>7. TypeOK'
      BY <1>2, <1>4, <2>2, RewindFacts, ScanTypes DEF TypeOK
    <2>8. QED
      BY <2>4, <2>6, <2>7 DEF ScanInv
  <1>5. QED
    BY <1>3, <1>4

\* An event goes out for the current task, which is then the one between event and mark.
LEMMA AnnounceStep ==
    ASSUME TypeOK, ScanInv, Announce
    PROVE  TypeOK' /\ ScanInv'
  <1> DEFINE c == Current
  <1>1. c \in scan.page /\ c \in Ids /\ c <= lastId
    BY CurrentFacts DEF Announce, ScanInv, TasksExist
  <1>2. /\ scan.at = "event" /\ scan' = [scan EXCEPT !.at = "mark"]
        /\ events' = [events EXCEPT ![c] = @ + 1]
        /\ UNCHANGED <<rows, lastId, deaths>>
    BY DEF Announce
  <1>3. scan' \in Scan /\ scan'.at = "mark" /\ scan'.page = scan.page
    BY <1>2 DEF TypeOK, Scan
  <1>4. Current' = c
    BY <1>3 DEF Current
  <1> HIDE DEF c
  <1>5. deaths \in Nat /\ \A t \in Ids : events[t] \in Nat
    BY ConstantFacts DEF TypeOK
  <1>6. \A t \in Ids : /\ ToCome(t) <=> t \in scan.page
                       /\ ToCome(t)' <=> t \in scan.page /\ t # c
                       /\ ~Between(t)
                       /\ Between(t)' <=> t = c
    BY <1>2, <1>3, <1>4 DEF ToCome, Between
  <1>7. /\ events' \in [Ids -> Nat] /\ events'[c] = events[c] + 1
        /\ \A t \in Ids : t # c => events'[t] = events[t]
    BY <1>1, <1>2 DEF TypeOK
  <1>8. events[c] <= deaths
    BY <1>1, <1>6 DEF ScanInv, EventsAreAccounted
  <1>9. events'[c] <= 1 + deaths /\ events'[c] > 0
    BY <1>1, <1>5, <1>7, <1>8
  <1>10. EventsAreAccounted'
    BY <1>2, <1>6, <1>7, <1>9 DEF ScanInv, EventsAreAccounted
  <1>11. ~(c > lastId)
    BY <1>1, ConstantFacts DEF TypeOK
  <1>12. TasksExist'
    BY <1>2, <1>3, <1>7, <1>11 DEF ScanInv, TasksExist
  <1>13. TypeOK'
    BY <1>1, <1>2, <1>3, <1>7, ScanTypes DEF Announce, TypeOK, historyVars
  <1>14. QED
    BY <1>10, <1>12, <1>13 DEF ScanInv

\* After the mark the page is one task shorter, and the scan goes on to the next task,
\* page or end.
LEMMA TurnedFacts ==
    ASSUME TypeOK, scan.at = "mark"
    PROVE  /\ Turned \in Scan
           /\ Turned.page = scan.page \ {Current}
           /\ Turned.at \in {"idle", "page", "event"}
           /\ Turned.at = "event" => Turned.page # {}
  <1>1. Current \in scan.page
    BY CurrentFacts
  <1>2. CASE scan.page # {Current}
    BY <1>1, <1>2 DEF Turned, TypeOK, Scan
  <1>3. CASE scan.page = {Current}
    BY <1>3, RowFacts DEF Turned, TypeOK, Scan
  <1>4. QED
    BY <1>2, <1>3

\* The mark falls on the task just announced, so what is marked has been announced.
LEMMA MarkStep ==
    ASSUME TypeOK, ScanInv, Mark
    PROVE  TypeOK' /\ ScanInv'
  <1> DEFINE c == Current
             row == [rows[c] EXCEPT !.notified = rows[c].present]
  <1>1. c \in scan.page /\ c \in Ids
    BY CurrentFacts DEF Mark
  <1>2. /\ scan.at = "mark" /\ scan' = Turned /\ Rewind
        /\ rows' = [rows EXCEPT ![c] = row]
        /\ UNCHANGED <<lastId, deaths, events>>
        /\ UNCHANGED <<lastId, now, requestVars, tainted, owed>>
    BY DEF Mark
  <1>3. row \in Row /\ row.notified = rows[c].present /\ row.present = rows[c].present
    BY <1>1 DEF TypeOK, Row
  <1>4. /\ scan' \in Scan /\ scan'.page = scan.page \ {c}
        /\ scan'.at \in {"idle", "page", "event"}
        /\ scan'.at = "event" => scan'.page # {}
    BY <1>2, TurnedFacts
  <1>5. \A t \in Ids : /\ ToCome(t) <=> t \in scan.page /\ t # c
                       /\ Between(t) <=> t = c
    BY <1>2 DEF ToCome, Between
  <1> HIDE DEF c, row
  <1>6. \A t \in Ids : ~Between(t)' /\ (ToCome(t)' => t \in scan.page /\ t # c)
    BY <1>4 DEF ToCome, Between
  <1>7. /\ rows' \in [Ids -> Row] /\ rows'[c] = row
        /\ \A t \in Ids : t # c => rows'[t] = rows[t]
    BY <1>1, <1>2, <1>3 DEF TypeOK
  <1>8. EventsAreAccounted'
    <2> SUFFICES ASSUME NEW t \in Ids
                 PROVE  /\ events[t] <= 1 + deaths
                        /\ ToCome(t)' => events[t] <= deaths
                        /\ rows'[t].present /\ ~rows'[t].notified /\ ~Between(t)'
                              => events[t] <= deaths
                        /\ Between(t)' => events[t] > 0
                        /\ rows'[t].notified => events[t] > 0
      BY <1>2 DEF EventsAreAccounted
    <2>1. CASE t = c
      BY <1>3, <1>5, <1>6, <1>7, <2>1 DEF ScanInv, EventsAreAccounted
    <2>2. CASE t # c
      BY <1>5, <1>6, <1>7, <2>2 DEF ScanInv, EventsAreAccounted
    <2>3. QED
      BY <2>1, <2>2
  <1>9. TasksExist'
    BY <1>1, <1>2, <1>3, <1>4, <1>7 DEF ScanInv, TasksExist
  <1>10. TypeOK'
    BY <1>2, <1>4, <1>7, RewindFacts, ScanTypes DEF TypeOK
  <1>11. QED
    BY <1>8, <1>9, <1>10 DEF ScanInv

\* A death leaves an announced task without mark, and is counted for it.
LEMMA DieStep ==
    ASSUME TypeOK, ScanInv, Die
    PROVE  TypeOK' /\ ScanInv'
  <1>1. deaths' = deaths + 1 /\ deaths' \in 0..MaxDeaths
    BY ConstantFacts DEF Die, TypeOK
  <1>2. ScanInv'
    BY <1>1, ScanEnds DEF Die
  <1>3. TypeOK'
    BY <1>1, RowFacts, RewindFacts, ScanTypes DEF Die, TypeOK
  <1>4. QED
    BY <1>2, <1>3

\* Time passing makes tasks overdue and changes no row.
LEMMA TickStep ==
    ASSUME TypeOK, ScanInv, Tick
    PROVE  TypeOK' /\ ScanInv'
  <1>1. ScanInv'
    BY RowsKept DEF Tick
  <1>2. now' \in 0..MaxTime
    BY ConstantFacts DEF Tick, TypeOK
  <1>3. TypeOK'
    BY <1>2 DEF Tick, TypeOK, requestVars, scanVars, historyVars, Row, Statuses
  <1>4. QED
    BY <1>1, <1>3

-------------------------------------------------------------------------------
\* Every step of a request keeps type and invariant.
LEMMA RequestStepFacts ==
    ASSUME TypeOK, ScanInv, NEW r \in Requests, RequestStep(r)
    PROVE  TypeOK' /\ ScanInv'
  BY StoreStep, LoadStep, SaveStep, CreateNextOccurrenceStep, RestOfSaveStep, BulkStep
     DEF RequestStep

\* Every step of the system keeps type and invariant.
LEMMA NextStep == TypeOK /\ ScanInv /\ [Next]_vars => TypeOK' /\ ScanInv'
  <1> SUFFICES ASSUME TypeOK, ScanInv, [Next]_vars
               PROVE  TypeOK' /\ ScanInv'
    OBVIOUS
  <1>1. CASE Tick
    BY <1>1, TickStep
  <1>2. ASSUME NEW r \in Requests, RequestStep(r)
        PROVE  TypeOK' /\ ScanInv'
    BY <1>2, RequestStepFacts
  <1>3. CASE ScanStep
    BY <1>3, StartScanStep, FetchPageStep, AnnounceStep, MarkStep DEF ScanStep
  <1>4. CASE Die
    BY <1>4, DieStep
  <1>5. CASE UNCHANGED vars
    <2>1. ScanInv'
      BY <1>5, RowsKept DEF vars
    <2>2. TypeOK'
      BY <1>5 DEF vars, TypeOK, requestVars, scanVars, historyVars, Row, Statuses
    <2>3. QED
      BY <2>1, <2>2
  <1>6. QED
    BY <1>1, <1>2, <1>3, <1>4, <1>5 DEF Next

\* Type and invariant hold throughout.
LEMMA Invariants == Spec => [](TypeOK /\ ScanInv)
  BY InitFacts, NextStep, PTL DEF Spec

\* Every variable keeps its type; the rows of Task.php and the scan of
\* NotifyOverdueTasks.php for any size of the table and of the page.
THEOREM TypeCorrect == Spec => []TypeOK
  BY Invariants, PTL

\* 'once per task': a task is announced a second time only if a scan died between
\* an event and its mark, and no request ever takes a mark away.
THEOREM EventsRepeatAfterDeaths == Spec => []RepeatedEventsNeedDeaths
  <1>1. ScanInv => RepeatedEventsNeedDeaths
    BY DEF ScanInv, EventsAreAccounted, RepeatedEventsNeedDeaths
  <1>2. QED
    BY <1>1, Invariants, PTL

\* A task that NotifyOverdueTasks marked was announced before: a scan that dies
\* repeats events and loses none.
THEOREM MarksFollowEvents == Spec => []MarkedWasAnnounced
  <1>1. ScanInv => MarkedWasAnnounced
    BY DEF ScanInv, EventsAreAccounted, MarkedWasAnnounced
  <1>2. QED
    BY <1>1, Invariants, PTL

-------------------------------------------------------------------------------
(* Events and marks implement an outbox *)

\* What the scan has in its hands carries no mark: it fetched unmarked tasks, a task
\* leaves the page with its mark, and no request marks a task.
HandsOpen ==
    scan.at \in {"event", "mark"} => \A t \in scan.page : ~rows[t].notified

NoticeVars == <<[t \in Ids |-> NoticeOf(t)], events, deaths>>

\* A step that leaves marks and rows where they are is none of the outbox's.
LEMMA MarksUnseen ==
    ASSUME HandsOpen, TypeOK, UNCHANGED <<lastId, scanVars>>,
           \A t \in Ids : /\ rows'[t].notified = rows[t].notified
                          /\ rows'[t].present = rows[t].present
    PROVE  UNCHANGED NoticeVars /\ HandsOpen'
  <1>1. UNCHANGED <<scan, events, deaths>>
    BY DEF scanVars
  <1>2. \A t \in Ids : NoticeOf(t)' = NoticeOf(t)
    BY DEF NoticeOf
  <1>3. HandsOpen'
    BY <1>1 DEF HandsOpen, TypeOK
  <1>4. [t \in Ids |-> NoticeOf(t)]' = [t \in Ids |-> NoticeOf(t)]
    BY <1>2
  <1>5. QED
    BY <1>1, <1>3, <1>4 DEF NoticeVars

\* A row inserted opens the notice of its task.
LEMMA InsertOpens ==
    ASSUME TypeOK, ScanInv, HandsOpen, UNCHANGED scanVars,
           NEW row \in Row, row.present, ~row.notified, Insert(row)
    PROVE  Sent!Next /\ HandsOpen'
  <1>1. PICK m : m = lastId + 1
    OBVIOUS
  <1>2. /\ lastId \in Nat /\ lastId < MaxId /\ lastId' = m /\ MaxId \in Nat
        /\ rows' = [rows EXCEPT ![m] = row]
    BY <1>1, ConstantFacts DEF TypeOK, Insert
  <1>3. m \in Ids /\ m \in Nat /\ m > lastId /\ ~(m > m)
    BY <1>1, <1>2 DEF Ids
  <1>4. \A t \in Ids : t # m => (t > m <=> t > lastId)
    BY <1>1, <1>2, ConstantFacts
  <1>5. /\ rows'[m] = row
        /\ \A t \in Ids : t # m => rows'[t] = rows[t]
    BY <1>2, <1>3 DEF TypeOK
  <1>6. NoticeOf(m) = "unsent" /\ NoticeOf(m)' = "open"
    BY <1>2, <1>3, <1>5 DEF NoticeOf
  <1>7. \A t \in Ids : t # m => NoticeOf(t)' = NoticeOf(t)
    BY <1>2, <1>4, <1>5 DEF NoticeOf
  <1>8. [t \in Ids |-> NoticeOf(t)]'
            = [[t \in Ids |-> NoticeOf(t)] EXCEPT ![m] = "open"]
    BY <1>3, <1>6, <1>7
  <1>9. UNCHANGED <<scan, events, deaths>>
    BY DEF scanVars
  <1>10. Sent!Open(m)
    BY <1>3, <1>6, <1>8, <1>9 DEF Sent!Open
  <1>11. HandsOpen'
    BY <1>5, <1>9 DEF HandsOpen, TypeOK
  <1>12. QED
    BY <1>3, <1>10, <1>11 DEF Sent!Next

\* Deleting tasks withdraws their notices.
LEMMA DeleteWithdraws ==
    ASSUME TypeOK, ScanInv, HandsOpen, NEW r \in Requests, NEW ts \in SUBSET Present,
           Delete(r, ts)
    PROVE  Sent!Next /\ HandsOpen'
  <1>1. /\ rows' = [t \in Ids |-> IF t \in ts THEN NoTask ELSE rows[t]]
        /\ UNCHANGED <<lastId, scan, events, deaths>>
    BY DEF Delete, scanVars
  <1>2. ts \in SUBSET Ids /\ \A t \in ts : rows[t].present
    BY DEF Present
  <1>3. \A t \in ts : ~(t > lastId)
    BY <1>2 DEF ScanInv, TasksExist
  <1>4. \A t \in ts : NoticeOf(t) \in {"open", "settled"} /\ NoticeOf(t)' = "withdrawn"
    BY <1>1, <1>2, <1>3, RowFacts DEF NoticeOf
  <1>5. \A t \in Ids \ ts : NoticeOf(t)' = NoticeOf(t)
    BY <1>1 DEF NoticeOf
  <1>6. [t \in Ids |-> NoticeOf(t)]'
            = [t \in Ids |-> IF t \in ts THEN "withdrawn" ELSE [u \in Ids |-> NoticeOf(u)][t]]
    BY <1>4, <1>5
  <1>7. Sent!Withdraw(ts)
    BY <1>1, <1>2, <1>4, <1>6 DEF Sent!Withdraw
  <1>8. HandsOpen'
    BY <1>1, RowFacts DEF HandsOpen, TypeOK
  <1>9. QED
    BY <1>2, <1>7, <1>8 DEF Sent!Next

\* A step of a request is one of the outbox, or none of its.
LEMMA RequestNotices ==
    ASSUME TypeOK, ScanInv, HandsOpen, NEW r \in Requests, RequestStep(r)
    PROVE  [Sent!Next]_NoticeVars /\ HandsOpen'
  <1>1. ASSUME NEW s \in Asked, NEW d \in Dates, NEW b \in BOOLEAN, Store(r, s, d, b)
        PROVE  Sent!Next /\ HandsOpen'
    <2>1. PICK row : row = NewTask(s, d, b)
      OBVIOUS
    <2>2. row \in Row /\ row.present /\ ~row.notified
      BY <2>1, RowFacts, ConstantFacts
    <2>3. Insert(row) /\ UNCHANGED scanVars
      BY <1>1, <2>1 DEF Store
    <2>4. QED
      BY <2>2, <2>3, InsertOpens
  <1>2. ASSUME CreateNextOccurrence(r)
        PROVE  Sent!Next /\ HandsOpen'
    <2>1. PICK row : row = NextOccurrence(model[r])
      OBVIOUS
    <2>2. model[r].due + 1 \in Nat
      BY <1>2 DEF TypeOK, CreateNextOccurrence, Row
    <2>3. row \in Row /\ row.present /\ ~row.notified
      BY <2>1, <2>2, RowFacts DEF NextOccurrence, Statuses
    <2>4. Insert(row) /\ UNCHANGED scanVars
      BY <1>2, <2>1 DEF CreateNextOccurrence
    <2>5. QED
      BY <2>3, <2>4, InsertOpens
  <1>3. ASSUME NEW s \in Asked, NEW d \in Dates, NEW b \in BOOLEAN, Save(r, s, d, b)
        PROVE  UNCHANGED NoticeVars /\ HandsOpen'
    <2> DEFINE t == task[r]
               asked == [model[r] EXCEPT !.status = s, !.due = d, !.repeats = b]
               row == Written(model[r], Stamped(model[r], asked), rows[t])
    <2>1. /\ t \in Ids /\ row.notified = rows[t].notified
          /\ row.present = rows[t].present
      BY <1>3, SavedRow
    <2>2. \A u \in Ids : /\ rows'[u].notified = rows[u].notified
                         /\ rows'[u].present = rows[u].present
      <3>1. rows' = [rows EXCEPT ![t] = row]
        BY <1>3 DEF Save
      <3> HIDE DEF t, row
      <3>2. QED
        BY <2>1, <3>1 DEF TypeOK
    <2>3. UNCHANGED <<lastId, scanVars>>
      BY <1>3 DEF Save
    <2>4. QED
      BY <2>2, <2>3, MarksUnseen
  <1>4. ASSUME \/ \E t \in Ids : Load(r, t)
               \/ NoNextOccurrence(r)
               \/ DieBetween(r)
        PROVE  UNCHANGED NoticeVars /\ HandsOpen'
    BY <1>4, MarksUnseen DEF Load, NoNextOccurrence, DieBetween
  <1>5. ASSUME NEW ts \in SUBSET Present, NEW change \in BulkChanges, BulkUpdate(r, ts, change)
        PROVE  UNCHANGED NoticeVars /\ HandsOpen'
    <2>1. UNCHANGED <<lastId, scanVars>>
      BY <1>5 DEF BulkUpdate
    <2>2. QED
      BY <1>5, <2>1, BulkRows, MarksUnseen
  <1>6. QED
    BY <1>1, <1>2, <1>3, <1>4, <1>5, DeleteWithdraws DEF RequestStep

\* A page has no marked task.
LEMMA FetchNotices ==
    ASSUME TypeOK, FetchPage
    PROVE  UNCHANGED NoticeVars /\ HandsOpen'
  <1> DEFINE page == {t \in Rest : Cardinality({u \in Rest : u < t}) < PageSize}
  <1>1. \A t \in page : t \in Ids /\ ~rows[t].notified
    BY DEF Rest, Overdue
  <1>2. /\ scan' = IF page = {}
                   THEN NoScan
                   ELSE [scan EXCEPT !.at = "event", !.page = page, !.last = Max(page),
                                     !.full = Cardinality(page) = PageSize]
        /\ UNCHANGED <<rows, lastId, events, deaths>>
    BY DEF FetchPage
  <1> HIDE DEF page
  <1>3. scan'.at = "idle" \/ scan'.page = page
    BY <1>2, RowFacts DEF TypeOK
  <1>4. HandsOpen'
    BY <1>1, <1>2, <1>3 DEF HandsOpen
  <1>5. \A t \in Ids : NoticeOf(t)' = NoticeOf(t)
    BY <1>2 DEF NoticeOf
  <1>6. [t \in Ids |-> NoticeOf(t)]' = [t \in Ids |-> NoticeOf(t)]
    BY <1>5
  <1>7. QED
    BY <1>2, <1>4, <1>6 DEF NoticeVars

\* The event delivers the notice of a task that may have been deleted since the page was
\* fetched, never of one that carries the mark.
LEMMA AnnounceDelivers ==
    ASSUME TypeOK, ScanInv, HandsOpen, Announce
    PROVE  Sent!Next /\ HandsOpen'
  <1>1. PICK m : m = Current
    OBVIOUS
  <1>2. /\ scan.at = "event" /\ scan' = [scan EXCEPT !.at = "mark"]
        /\ events' = [events EXCEPT ![m] = @ + 1]
        /\ UNCHANGED <<rows, lastId, deaths>>
    BY <1>1 DEF Announce
  <1>3. m \in scan.page /\ m \in Ids
    BY <1>1, <1>2, CurrentFacts
  <1>4. m <= lastId /\ ~(m > lastId)
    BY <1>3, ConstantFacts DEF ScanInv, TasksExist, TypeOK
  <1>5. NoticeOf(m) \in {"open", "withdrawn"}
    BY <1>2, <1>3, <1>4 DEF NoticeOf, HandsOpen
  <1>6. events[m] <= deaths
    BY <1>2, <1>3 DEF ScanInv, EventsAreAccounted, ToCome
  <1>7. \A t \in Ids : NoticeOf(t)' = NoticeOf(t)
    BY <1>2 DEF NoticeOf
  <1>8. [t \in Ids |-> NoticeOf(t)]' = [t \in Ids |-> NoticeOf(t)]
    BY <1>7
  <1>9. [t \in Ids |-> NoticeOf(t)][m] \in {"open", "withdrawn"}
    BY <1>3, <1>5
  <1>10. Sent!Deliver(m)
    BY <1>2, <1>6, <1>8, <1>9 DEF Sent!Deliver
  <1>11. HandsOpen'
    BY <1>2 DEF HandsOpen, TypeOK
  <1>12. QED
    BY <1>3, <1>10, <1>11 DEF Sent!Next

\* The mark settles a notice that was delivered, unless its task is gone.
LEMMA MarkSettles ==
    ASSUME TypeOK, ScanInv, HandsOpen, Mark
    PROVE  [Sent!Next]_NoticeVars /\ HandsOpen'
  <1>1. PICK m : m = Current
    OBVIOUS
  <1>2. /\ scan.at = "mark" /\ scan' = Turned
        /\ rows' = [rows EXCEPT ![m].notified = rows[m].present]
        /\ UNCHANGED <<lastId, events, deaths>>
    BY <1>1 DEF Mark
  <1>3. m \in scan.page /\ m \in Ids
    BY <1>1, <1>2, CurrentFacts
  <1>4. /\ rows'[m].notified = rows[m].present /\ rows'[m].present = rows[m].present
        /\ \A t \in Ids : t # m => rows'[t] = rows[t]
    BY <1>2, <1>3 DEF TypeOK, Row
  <1>5. scan'.page = scan.page \ {m} /\ scan'.at \in {"idle", "page", "event"}
    BY <1>1, <1>2, TurnedFacts
  <1>6. HandsOpen'
    <2>1. \A t \in scan.page : t \in Ids /\ ~rows[t].notified
      BY <1>2 DEF HandsOpen, TypeOK
    <2>2. QED
      BY <1>4, <1>5, <2>1 DEF HandsOpen
  <1>7. events[m] > 0
    BY <1>1, <1>2, <1>3 DEF ScanInv, EventsAreAccounted, Between
  <1>8. m <= lastId /\ ~(m > lastId) /\ ~rows[m].notified
    BY <1>2, <1>3, ConstantFacts DEF ScanInv, TasksExist, TypeOK, HandsOpen
  <1>9. \A t \in Ids : t # m => NoticeOf(t)' = NoticeOf(t)
    BY <1>2, <1>4 DEF NoticeOf
  <1>10. CASE rows[m].present
    <2>1. NoticeOf(m) = "open" /\ NoticeOf(m)' = "settled"
      BY <1>2, <1>4, <1>8, <1>10 DEF NoticeOf
    <2>2. [t \in Ids |-> NoticeOf(t)]'
              = [[t \in Ids |-> NoticeOf(t)] EXCEPT ![m] = "settled"]
      BY <1>3, <1>9, <2>1
    <2>3. [t \in Ids |-> NoticeOf(t)][m] = "open"
      BY <1>3, <2>1
    <2>4. Sent!Settle(m)
      BY <1>2, <1>7, <2>2, <2>3 DEF Sent!Settle
    <2>5. QED
      BY <1>3, <1>6, <2>4 DEF Sent!Next
  <1>11. CASE ~rows[m].present
    <2>1. NoticeOf(m)' = NoticeOf(m)
      BY <1>2, <1>4, <1>8, <1>11 DEF NoticeOf
    <2>2. [t \in Ids |-> NoticeOf(t)]' = [t \in Ids |-> NoticeOf(t)]
      BY <1>9, <2>1
    <2>3. QED
      BY <1>2, <1>6, <2>2 DEF NoticeVars
  <1>12. QED
    BY <1>10, <1>11

\* A scan that dies is one the outbox counts as failed.
LEMMA DieFails ==
    ASSUME TypeOK, Die
    PROVE  Sent!Next /\ HandsOpen'
  <1>1. deaths' = deaths + 1 /\ scan' = NoScan /\ UNCHANGED <<rows, lastId, events>>
    BY DEF Die
  <1>2. \A t \in Ids : NoticeOf(t)' = NoticeOf(t)
    BY <1>1 DEF NoticeOf
  <1>3. [t \in Ids |-> NoticeOf(t)]' = [t \in Ids |-> NoticeOf(t)]
    BY <1>2
  <1>4. Sent!Fail
    BY <1>1, <1>3 DEF Sent!Fail
  <1>5. QED
    BY <1>1, <1>4, RowFacts DEF HandsOpen, Sent!Next

\* Every step of the system is one of the outbox, or none of its.
LEMMA NoticesStep ==
    ASSUME TypeOK, ScanInv, HandsOpen, [Next]_vars
    PROVE  [Sent!Next]_NoticeVars /\ HandsOpen'
  <1>1. CASE Tick \/ UNCHANGED vars
    <2>1. UNCHANGED <<rows, lastId, scanVars>>
      BY <1>1 DEF Tick, vars
    <2>2. QED
      BY <2>1, MarksUnseen
  <1>2. CASE StartScan
    <2>1. /\ scan'.at = "page" /\ UNCHANGED <<rows, lastId, events, deaths>>
      BY <1>2 DEF StartScan, NoScan
    <2>2. \A t \in Ids : NoticeOf(t)' = NoticeOf(t)
      BY <2>1 DEF NoticeOf
    <2>3. [t \in Ids |-> NoticeOf(t)]' = [t \in Ids |-> NoticeOf(t)]
      BY <2>2
    <2>4. QED
      BY <2>1, <2>3 DEF HandsOpen, NoticeVars
  <1>3. CASE FetchPage
    BY <1>3, FetchNotices
  <1>4. CASE Announce
    BY <1>4, AnnounceDelivers
  <1>5. CASE Mark
    BY <1>5, MarkSettles
  <1>6. CASE Die
    BY <1>6, DieFails
  <1>7. QED
    BY <1>1, <1>2, <1>3, <1>4, <1>5, <1>6, RequestNotices DEF Next, ScanStep

\* The overdue notices are an outbox: NotifyOverdueTasks marks only what it announced,
\* announces nothing that carries the mark and nothing twice but for scans that died, and
\* no request of a user takes a mark away or brings a deleted task back.
THEOREM ScansImplementOutbox == Spec => ImplementsOutbox
  <1>1. Init => Sent!Init /\ HandsOpen
    <2> SUFFICES ASSUME Init
                 PROVE  Sent!Init /\ HandsOpen
      OBVIOUS
    <2>1. \A t \in Ids : rows[t] \in {NoTask} \cup {NewTask("pending", 0, b) : b \in BOOLEAN}
      BY DEF Init
    <2>2. \A t \in Ids : ~rows[t].notified
      BY <2>1, RowFacts DEF NewTask
    <2>3. \A t \in Ids : ~(t > lastId) => rows[t].present
      <3>1. \A t \in Ids : t \in 1..First <=> ~(t > First)
        BY ConstantFacts DEF Ids
      <3>2. QED
        BY <3>1 DEF Init, Present
    <2>4. \A t \in Ids : NoticeOf(t) \in {"unsent", "open"}
      BY <2>2, <2>3 DEF NoticeOf
    <2>5. [t \in Ids |-> NoticeOf(t)] \in [Ids -> {"unsent", "open"}]
      BY <2>4
    <2>6. Sent!Init
      BY <2>5 DEF Init, Sent!Init
    <2>7. HandsOpen
      BY RowFacts DEF Init, HandsOpen
    <2>8. QED
      BY <2>6, <2>7
  <1>2. TypeOK /\ ScanInv /\ HandsOpen /\ [Next]_vars
           => [Sent!Next]_<<[t \in Ids |-> NoticeOf(t)], events, deaths>> /\ HandsOpen'
    BY NoticesStep DEF NoticeVars
  <1>3. QED
    BY <1>1, <1>2, Invariants, PTL DEF Spec, ImplementsOutbox, Sent!Spec

-------------------------------------------------------------------------------
(* Recurring tasks *)

\* A request only loads a task that exists.
ModelsExist == \A r \in Requests : pc[r] = "loaded" => model[r].present

\* The requests that owe a task its next occurrence are finitely many, and as many
\* as the history counts.
SeriesInv ==
    \A t \in Ids \ tainted : IsFiniteSet(Owing(t)) /\ Cardinality(Owing(t)) = owed[t]

\* The debts of a task do not change while the same requests are between their two
\* statements.
LEMMA DebtsKept ==
    ASSUME TypeOK, SeriesInv, NEW t \in Ids \ tainted, Owing(t)' = Owing(t), owed'[t] = owed[t]
    PROVE  IsFiniteSet(Owing(t)') /\ Cardinality(Owing(t)') = owed'[t]
  BY DEF SeriesInv

\* A request ends: it owes nothing, the others owe what they owed.
LEMMA EndOwing ==
    ASSUME TypeOK, NEW r \in Requests, End(r), NEW t \in Ids
    PROVE  Owing(t)' = Owing(t) \ {r}
  BY DEF TypeOK, End, Owing

\* A request that ends holds no loaded model.
LEMMA EndModels ==
    ASSUME TypeOK, ModelsExist, NEW r \in Requests, End(r)
    PROVE  ModelsExist'
  BY DEF TypeOK, End, ModelsExist

\* A request that was not between its statements ends.
LEMMA EndSeries ==
    ASSUME TypeOK, SeriesInv, ModelsExist, NEW r \in Requests, End(r),
           pc[r] # "saved" \/ model[r].due = None, UNCHANGED owed, tainted \subseteq tainted'
    PROVE  SeriesInv' /\ ModelsExist'
  <1>1. \A t \in Ids : Owing(t)' = Owing(t)
    <2>1. \A t \in Ids : r \notin Owing(t)
      BY DEF Owing
    <2>2. QED
      BY <2>1, EndOwing
  <1>2. QED
    BY <1>1, DebtsKept, EndModels DEF SeriesInv

\* The next occurrence pays what the request's completion owed.
LEMMA CreateNextSeries ==
    ASSUME TypeOK, SeriesInv, ModelsExist, NEW r \in Requests, CreateNextOccurrence(r)
    PROVE  SeriesInv' /\ ModelsExist'
  <1>1. /\ End(r) /\ pc[r] = "saved" /\ model[r].due # None /\ task[r] \in Ids
        /\ owed' = [owed EXCEPT ![task[r]] = @ - 1] /\ tainted' = tainted
    BY DEF CreateNextOccurrence, TypeOK
  <1>2. ASSUME NEW t \in Ids \ tainted
        PROVE  IsFiniteSet(Owing(t)') /\ Cardinality(Owing(t)') = owed'[t]
    <2>1. Owing(t)' = Owing(t) \ {r} /\ IsFiniteSet(Owing(t))
      BY <1>1, EndOwing DEF SeriesInv
    <2>2. CASE t = task[r]
      <3>1. r \in Owing(t) /\ owed'[t] = owed[t] - 1
        BY <1>1, <2>2 DEF Owing, TypeOK
      <3>2. /\ IsFiniteSet(Owing(t) \ {r})
            /\ Cardinality(Owing(t) \ {r}) = Cardinality(Owing(t)) - 1
        BY <2>1, <3>1, FS_RemoveElement
      <3>3. QED
        BY <2>1, <3>1, <3>2 DEF SeriesInv
    <2>3. CASE t # task[r]
      <3>1. r \notin Owing(t) /\ owed'[t] = owed[t]
        BY <1>1, <2>3 DEF Owing, TypeOK
      <3>2. QED
        BY <2>1, <3>1, DebtsKept
    <2>4. QED
      BY <2>2, <2>3
  <1>3. QED
    BY <1>1, <1>2, EndModels DEF SeriesInv

\* The insertion never comes: the task is tainted.
LEMMA DieBetweenSeries ==
    ASSUME TypeOK, SeriesInv, ModelsExist, NEW r \in Requests, DieBetween(r)
    PROVE  SeriesInv' /\ ModelsExist'
  <1>1. End(r) /\ tainted' = tainted \cup {task[r]} /\ UNCHANGED owed
    BY DEF DieBetween
  <1>2. ASSUME NEW t \in Ids \ tainted'
        PROVE  IsFiniteSet(Owing(t)') /\ Cardinality(Owing(t)') = owed'[t]
    <2>1. t \in Ids \ tainted /\ r \notin Owing(t)
      BY <1>1 DEF Owing
    <2>2. QED
      BY <1>1, <2>1, EndOwing, DebtsKept
  <1>3. QED
    BY <1>1, <1>2, EndModels DEF SeriesInv

\* A save from a copy that is not stale turns the row exactly when the updated hook
\* fires for a task with a date.
LEMMA FreshSaveTurns ==
    ASSUME NEW before \in Row, NEW stored \in Row, NEW after \in Row, before.present,
           stored = [before EXCEPT !.notified = stored.notified],
           after.notified = before.notified, after.present = before.present
    PROVE  Turns(stored, Written(before, after, stored))
              <=> Repeats(before, after) /\ after.due # None
  <1>1. /\ stored.present /\ stored.status = before.status
        /\ stored.due = before.due /\ stored.repeats = before.repeats
    BY DEF Row
  <1>2. DOMAIN stored = Fields
    BY RowIsFunction
  <1>3. LET row == Written(before, after, stored) IN
        /\ row.present = after.present /\ row.status = after.status
        /\ row.due = after.due /\ row.repeats = after.repeats
    BY <1>1, <1>2 DEF Written, Fields
  <1>4. QED
    BY <1>1, <1>3 DEF Turns, Repeats

\* A save that completes a recurring task takes on the debt of one occurrence.
LEMMA SaveSeries ==
    ASSUME TypeOK, SeriesInv, ModelsExist, NEW r \in Requests, NEW s \in Asked, NEW d \in Dates,
           NEW b \in BOOLEAN, Save(r, s, d, b)
    PROVE  SeriesInv' /\ ModelsExist'
  <1> DEFINE u == task[r]
             asked == [model[r] EXCEPT !.status = s, !.due = d, !.repeats = b]
             after == Stamped(model[r], asked)
             row == Written(model[r], after, rows[u])
  <1>1. /\ u \in Ids /\ model[r] \in Row /\ rows[u] \in Row /\ pc[r] = "loaded"
        /\ model[r].present
    BY DEF TypeOK, Save, ModelsExist
  <1>2. asked \in Row /\ asked.notified = model[r].notified /\ asked.present = model[r].present
    BY <1>1, ConstantFacts DEF Row
  <1>3. after \in Row /\ after.notified = model[r].notified /\ after.present = model[r].present
    <2> HIDE DEF asked
    <2>1. after.notified = asked.notified /\ after.present = asked.present /\ after \in Row
      BY <1>2 DEF Stamped, Row
    <2>2. QED
      BY <1>2, <2>1
  <1>4. /\ IF Repeats(model[r], after)
           THEN /\ pc' = [pc EXCEPT ![r] = "saved"]
                /\ model' = [model EXCEPT ![r] = after]
                /\ UNCHANGED task
           ELSE End(r)
        /\ tainted' = IF Stale(r) THEN tainted \cup {u} ELSE tainted
        /\ owed' = IF Turns(rows[u], row) THEN [owed EXCEPT ![u] = @ + 1] ELSE owed
    BY DEF Save
  <1>5. u \notin tainted' => (Turns(rows[u], row) <=> Repeats(model[r], after) /\ after.due # None)
    <2>1. u \notin tainted' => rows[u] = [model[r] EXCEPT !.notified = rows[u].notified]
      BY <1>4 DEF Stale
    <2> HIDE DEF u, after
    <2>2. QED
      BY <1>1, <1>3, <2>1, FreshSaveTurns
  <1>6. PICK v \in Ids : v = u
    BY <1>1
  <1>7. PICK new \in Row : new = after
    BY <1>3
  <1> HIDE DEF u, after, row
  <1>8. tainted \subseteq tainted'
    BY <1>4
  <1>9. \A t \in Ids : r \notin Owing(t)
    BY <1>1 DEF Owing
  <1>10. \A t \in Ids \ {v} : owed'[t] = owed[t]
    BY <1>4, <1>6 DEF TypeOK
  <1>11. v \notin tainted' =>
            owed'[v] = IF Repeats(model[r], new) /\ new.due # None THEN owed[v] + 1 ELSE owed[v]
    BY <1>4, <1>5, <1>6, <1>7 DEF TypeOK
  <1>12. \A t \in Ids :
            Owing(t)' = IF t = v /\ Repeats(model[r], new) /\ new.due # None
                        THEN Owing(t) \cup {r} ELSE Owing(t)
    <2>1. CASE Repeats(model[r], new)
      <3>1. /\ pc'[r] = "saved" /\ model'[r] = new /\ task'[r] = v
            /\ \A q \in Requests \ {r} :
                  pc'[q] = pc[q] /\ model'[q] = model[q] /\ task'[q] = task[q]
        BY <1>4, <1>6, <1>7, <2>1 DEF TypeOK, u
      <3>2. QED
        BY <1>9, <2>1, <3>1 DEF Owing
    <2>2. CASE ~Repeats(model[r], new)
      BY <1>4, <1>7, <1>9, <2>2, EndOwing
    <2>3. QED
      BY <2>1, <2>2
  <1>13. ASSUME NEW t \in Ids \ tainted'
         PROVE  IsFiniteSet(Owing(t)') /\ Cardinality(Owing(t)') = owed'[t]
    <2>1. t \in Ids \ tainted /\ IsFiniteSet(Owing(t)) /\ Cardinality(Owing(t)) = owed[t]
      BY <1>8 DEF SeriesInv
    <2>2. /\ IsFiniteSet(Owing(t) \cup {r})
          /\ Cardinality(Owing(t) \cup {r}) = Cardinality(Owing(t)) + 1
      BY <1>9, <2>1, FS_AddElement
    <2>3. CASE t = v /\ Repeats(model[r], new) /\ new.due # None
      <3>1. Owing(t)' = Owing(t) \cup {r} /\ owed'[t] = owed[t] + 1
        BY <1>11, <1>12, <2>3
      <3>2. QED
        BY <2>1, <2>2, <3>1
    <2>4. CASE ~(t = v /\ Repeats(model[r], new) /\ new.due # None)
      <3>1. Owing(t)' = Owing(t) /\ owed'[t] = owed[t]
        BY <1>10, <1>11, <1>12, <2>4
      <3>2. QED
        BY <2>1, <3>1
    <2>5. QED
      BY <2>3, <2>4
  <1>14. ModelsExist'
    <2>1. CASE End(r)
      BY <2>1, EndModels
    <2>2. CASE pc' = [pc EXCEPT ![r] = "saved"] /\ model' = [model EXCEPT ![r] = after]
      BY <2>2 DEF ModelsExist, TypeOK
    <2>3. QED
      BY <1>4, <2>1, <2>2
  <1>15. QED
    BY <1>13, <1>14 DEF SeriesInv

\* A loaded model is of a task that exists, and owes nothing yet.
LEMMA LoadSeries ==
    ASSUME TypeOK, SeriesInv, ModelsExist, NEW r \in Requests, NEW u \in Ids, Load(r, u)
    PROVE  SeriesInv' /\ ModelsExist'
  <1>1. /\ pc[r] = "idle" /\ pc' = [pc EXCEPT ![r] = "loaded"] /\ task' = [task EXCEPT ![r] = u]
        /\ model' = [model EXCEPT ![r] = rows[u]] /\ rows[u].present
        /\ tainted' = tainted /\ owed' = owed
    BY DEF Load, historyVars
  <1>2. \A t \in Ids : Owing(t)' = Owing(t)
    BY <1>1 DEF Owing, TypeOK
  <1>3. ModelsExist'
    BY <1>1 DEF ModelsExist, TypeOK
  <1>4. QED
    BY <1>1, <1>2, <1>3, DebtsKept DEF SeriesInv

\* Every step of a request keeps the books of completions and next occurrences.
LEMMA RequestSeries ==
    ASSUME TypeOK, SeriesInv, ModelsExist, NEW r \in Requests, RequestStep(r)
    PROVE  SeriesInv' /\ ModelsExist'
  <1>1. ASSUME NEW s \in Asked, NEW d \in Dates, NEW b \in BOOLEAN, Store(r, s, d, b)
        PROVE  SeriesInv' /\ ModelsExist'
    BY <1>1, EndSeries DEF Store
  <1>2. ASSUME NoNextOccurrence(r)
        PROVE  SeriesInv' /\ ModelsExist'
    BY <1>2, EndSeries DEF NoNextOccurrence, historyVars
  <1>3. ASSUME NEW ts \in SUBSET Present, NEW change \in BulkChanges, BulkUpdate(r, ts, change)
        PROVE  SeriesInv' /\ ModelsExist'
    BY <1>3, EndSeries DEF BulkUpdate
  <1>4. ASSUME NEW ts \in SUBSET Present, Delete(r, ts)
        PROVE  SeriesInv' /\ ModelsExist'
    BY <1>4, EndSeries DEF Delete
  <1>5. QED
    BY <1>1, <1>2, <1>3, <1>4, SaveSeries, LoadSeries, CreateNextSeries, DieBetweenSeries
    DEF RequestStep

\* The clock and the scan owe nobody anything.
LEMMA OtherSeries ==
    ASSUME TypeOK, SeriesInv, ModelsExist, UNCHANGED <<requestVars, tainted, owed>>
    PROVE  SeriesInv' /\ ModelsExist'
  <1>1. UNCHANGED <<pc, task, model, tainted, owed>>
    BY DEF requestVars
  <1>2. \A t \in Ids : Owing(t)' = Owing(t)
    BY <1>1 DEF Owing
  <1>3. QED
    BY <1>1, <1>2, DebtsKept DEF SeriesInv, ModelsExist

\* Every step of the system keeps the books: scans and time touch neither side.
LEMMA SeriesStep == TypeOK /\ SeriesInv /\ ModelsExist /\ [Next]_vars => SeriesInv' /\ ModelsExist'
  <1> SUFFICES ASSUME TypeOK, SeriesInv, ModelsExist, [Next]_vars
               PROVE  SeriesInv' /\ ModelsExist'
    OBVIOUS
  <1>1. CASE Tick \/ UNCHANGED vars
    BY <1>1, OtherSeries DEF Tick, vars, historyVars
  <1>2. CASE ScanStep \/ Die
    BY <1>2, OtherSeries DEF ScanStep, StartScan, FetchPage, Announce, Mark, Die, historyVars
  <1>3. QED
    BY <1>1, <1>2, RequestSeries DEF Next

\* Each completion of a recurring task inserts one next occurrence, or a request is
\* about to: the hook of Task.php fires once per turn of the row, except for saves
\* from a stale copy, writes past the hooks and requests that die.
THEOREM CompletionsRepeat == Spec => []EveryCompletionRepeats
  <1>1. Init => SeriesInv /\ ModelsExist
    <2> SUFFICES ASSUME Init
                 PROVE  SeriesInv /\ ModelsExist
      OBVIOUS
    <2>1. \A t \in Ids : Owing(t) = {} /\ owed[t] = 0
      BY DEF Init, Owing
    <2>2. \A r \in Requests : pc[r] # "loaded"
      BY DEF Init
    <2>3. QED
      BY <2>1, <2>2, FS_EmptySet DEF SeriesInv, ModelsExist
  <1>2. SeriesInv => EveryCompletionRepeats
    BY DEF SeriesInv, EveryCompletionRepeats
  <1>3. QED
    BY <1>1, <1>2, SeriesStep, TypeCorrect, PTL DEF Spec

-------------------------------------------------------------------------------
(* What the scan covers *)

\* What the scan has passed is no longer overdue, unless a request wrote it; a page
\* that is not full is the last.
ScanCovers ==
    /\ scan.at = "page" => scan.page = {}
    /\ scan.at # "idle" =>
          \A t \in Ids \ touched : Overdue(rows[t], scan.asof) =>
             /\ t > scan.last \/ t \in scan.page
             /\ scan.at \in {"event", "mark"} /\ ~scan.full => t \in scan.page

\* The tasks of P with a smaller key.
Below(P, t) == {u \in P : u < t}

PageOf(P) == {t \in P : Cardinality(Below(P, t)) < PageSize}

\* A set of ids is finite.
LEMMA FiniteIds == \A P \in SUBSET Ids : IsFiniteSet(P) /\ Cardinality(P) \in Nat
  <1>1. IsFiniteSet(Ids)
    BY ConstantFacts, FS_Interval DEF Ids
  <1>2. QED
    BY <1>1, FS_Subset, FS_CardinalityType

\* A page begins at the first key: what lies below a task of the page is on it.
LEMMA PageIsInitial ==
    ASSUME NEW P \in SUBSET Ids, NEW t \in PageOf(P), NEW u \in P, u <= t
    PROVE  u \in PageOf(P)
  <1>1. P \subseteq Nat /\ t \in Nat /\ u \in Nat
    BY ConstantFacts DEF PageOf
  <1>2. Below(P, u) \in SUBSET Below(P, t)
    <2>1. \A v \in P : v < u => v < t
      BY <1>1
    <2>2. QED
      BY <2>1 DEF Below
  <1>3. Below(P, t) \in SUBSET Ids /\ Below(P, u) \in SUBSET Ids
    BY DEF Below
  <1>4. Cardinality(Below(P, u)) <= Cardinality(Below(P, t))
    BY <1>2, <1>3, FiniteIds, FS_Subset
  <1>5. Cardinality(Below(P, t)) < PageSize /\ PageSize \in Nat
    BY PagesHaveRows DEF PageOf
  <1>6. QED
    BY <1>3, <1>4, <1>5, FiniteIds DEF PageOf

\* A page that is not full holds everything, and it is empty only if there is nothing.
LEMMA ShortPageIsAll ==
    ASSUME NEW P \in SUBSET Ids, PageOf(P) = {} \/ Cardinality(PageOf(P)) # PageSize
    PROVE  PageOf(P) = P
  <1> DEFINE page == PageOf(P)
             rest == P \ page
  <1>1. page \in SUBSET Ids /\ page \in SUBSET P /\ rest \in SUBSET Nat
    BY ConstantFacts DEF PageOf
  <1>2. PageSize \in Nat /\ PageSize > 0
    BY PagesHaveRows
  <1>3. Cardinality(page) <= PageSize
    <2>1. CASE page = {}
      BY <1>2, <2>1, FS_EmptySet
    <2>2. CASE page # {}
      <3> DEFINE m == Max(page)
      <3>1. m \in page
        BY <1>1, <2>2, MaxOfPage
      <3>2. Below(P, m) \in SUBSET Ids
        BY DEF Below
      <3>3. page \in SUBSET (Below(P, m) \cup {m})
        <4>1. \A u \in page : u <= m
          BY <1>1, <2>2, MaxOfPage
        <4>2. \A u \in page : u \in Nat
          BY <1>1, ConstantFacts
        <4>3. QED
          BY <1>1, <3>1, <4>1, <4>2 DEF Below
      <3>4. /\ IsFiniteSet(Below(P, m) \cup {m})
            /\ Cardinality(Below(P, m) \cup {m}) <= Cardinality(Below(P, m)) + 1
        BY <3>2, FiniteIds, FS_AddElement
      <3>5. Cardinality(page) <= Cardinality(Below(P, m) \cup {m})
        BY <3>3, <3>4, FS_Subset
      <3>6. Cardinality(Below(P, m)) < PageSize
        BY <3>1 DEF PageOf
      <3>7. Cardinality(Below(P, m) \cup {m}) \in Nat
        BY <3>4, FS_CardinalityType
      <3>8. QED
        BY <1>1, <1>2, <3>2, <3>4, <3>5, <3>6, <3>7, FiniteIds
    <2>3. QED
      BY <2>1, <2>2
  <1>4. ASSUME rest # {}
        PROVE  FALSE
    <2>1. PICK t \in rest : \A u \in rest : t <= u
      BY <1>1, <1>4, SmallestOf
    <2>2. Below(P, t) = page
      <3>1. \A u \in P : u \in Nat /\ t \in Nat
        BY <1>1, ConstantFacts
      <3>2. \A u \in page : ~(t <= u)
        BY PageIsInitial
      <3>3. QED
        BY <1>1, <2>1, <3>1, <3>2 DEF Below
    <2>3. ~(Cardinality(page) < PageSize)
      BY <2>1, <2>2 DEF PageOf
    <2>4. Cardinality(page) = PageSize
      BY <1>1, <1>2, <1>3, <2>3, FiniteIds
    <2>5. QED
      BY <1>2, <2>4, FS_EmptySet
  <1>5. QED
    BY <1>1, <1>4

\* What a request writes while the scan runs is touched.
LEMMA RequestsTouch ==
    ASSUME TypeOK, NEW r \in Requests, RequestStep(r), scan.at # "idle"
    PROVE  /\ touched \subseteq touched' /\ UNCHANGED scan
           /\ \A t \in Ids \ touched' : rows'[t] = rows[t]
  <1> USE DEF TypeOK, scanVars
  <1>1. ASSUME NEW row, Insert(row)
        PROVE  touched \subseteq touched' /\ \A t \in Ids \ touched' : rows'[t] = rows[t]
    BY <1>1 DEF Insert, Touch
  <1>2. ASSUME NEW s \in Asked, NEW d \in Dates, NEW b \in BOOLEAN, Store(r, s, d, b)
        PROVE  /\ touched \subseteq touched' /\ UNCHANGED scan
               /\ \A t \in Ids \ touched' : rows'[t] = rows[t]
    BY <1>1, <1>2 DEF Store
  <1>3. CASE CreateNextOccurrence(r)
    BY <1>1, <1>3 DEF CreateNextOccurrence
  <1>4. ASSUME NEW s \in Asked, NEW d \in Dates, NEW b \in BOOLEAN, Save(r, s, d, b)
        PROVE  /\ touched \subseteq touched' /\ UNCHANGED scan
               /\ \A t \in Ids \ touched' : rows'[t] = rows[t]
    <2>1. /\ touched' = touched \cup {task[r]} /\ UNCHANGED scan
          /\ \E row : rows' = [rows EXCEPT ![task[r]] = row]
      BY <1>4 DEF Save, Touch
    <2>2. QED
      BY <2>1
  <1>5. ASSUME NEW u \in Ids, Load(r, u)
        PROVE  UNCHANGED <<rows, touched, scan>>
    BY <1>5 DEF Load, historyVars
  <1>6. CASE NoNextOccurrence(r) \/ DieBetween(r)
    BY <1>6 DEF NoNextOccurrence, DieBetween, historyVars
  <1>7. ASSUME NEW ts \in SUBSET Present,
               Delete(r, ts) \/ \E change \in BulkChanges : BulkUpdate(r, ts, change)
        PROVE  /\ touched \subseteq touched' /\ UNCHANGED scan
               /\ \A t \in Ids \ touched' : rows'[t] = rows[t]
    <2>1. touched' = touched \cup ts /\ UNCHANGED scan
      BY <1>7 DEF Delete, BulkUpdate, Touch
    <2>2. \A t \in Ids \ ts : rows'[t] = rows[t]
      BY <1>7 DEF Delete, BulkUpdate
    <2>3. QED
      BY <2>1, <2>2
  <1>8. QED
    BY <1>2, <1>3, <1>4, <1>5, <1>6, <1>7 DEF RequestStep

\* What is still to be covered when the scan fetches its page.
LEMMA FetchCovers ==
    ASSUME TypeOK, ScanCovers, FetchPage
    PROVE  /\ ScanCovers'
           /\ scan'.at = "idle" =>
                 \A t \in Ids \ touched : ~Overdue(rows'[t], scan.asof)
  <1> DEFINE page == PageOf(Rest)
  <1>1. Rest \in SUBSET Ids /\ page \in SUBSET Ids /\ page \in SUBSET Rest
    BY DEF Rest, PageOf
  <1>2. /\ scan.at = "page" /\ UNCHANGED rows
        /\ scan' = IF page = {}
                   THEN NoScan
                   ELSE [scan EXCEPT !.at = "event", !.page = page, !.last = Max(page),
                                     !.full = Cardinality(page) = PageSize]
        /\ touched' = IF scan'.at = "idle" THEN {} ELSE touched
    BY DEF FetchPage, PageOf, Below, Rewind
  <1>3. \A t \in Ids \ touched : Overdue(rows[t], scan.asof) => t \in Rest
    BY <1>2 DEF ScanCovers, Rest
  <1>4. page = {} => Rest = {}
    BY <1>1, ShortPageIsAll
  <1>5. Cardinality(page) # PageSize => page = Rest
    BY <1>1, ShortPageIsAll
  <1>6. ASSUME page # {}, NEW t \in Rest
        PROVE  t > Max(page) \/ t \in page
    <2>1. Max(page) \in page /\ Max(page) \in Nat /\ t \in Nat
      BY <1>1, <1>6, MaxOfPage, ConstantFacts
    <2>2. QED
      BY <1>1, <1>6, <2>1, PageIsInitial
  <1> HIDE DEF page
  <1>7. CASE page = {}
    BY <1>2, <1>3, <1>4, <1>7, RowFacts DEF ScanCovers
  <1>8. CASE page # {}
    <2>1. /\ scan'.at = "event" /\ scan'.page = page /\ scan'.last = Max(page)
          /\ scan'.full = (Cardinality(page) = PageSize) /\ scan'.asof = scan.asof
      BY <1>2, <1>8 DEF TypeOK
    <2>2. QED
      BY <1>2, <1>3, <1>5, <1>6, <1>8, <2>1 DEF ScanCovers
  <1>9. QED
    BY <1>7, <1>8

\* Marking the current task turns to the next one, to the next page, or ends the scan.
LEMMA MarkCovers ==
    ASSUME TypeOK, ScanCovers, Mark
    PROVE  /\ ScanCovers'
           /\ scan'.at = "idle" =>
                 \A t \in Ids \ touched : ~Overdue(rows'[t], scan.asof)
  <1> DEFINE c == Current
  <1>1. /\ scan.at = "mark" /\ scan' = Turned
        /\ rows' = [rows EXCEPT ![c].notified = rows[c].present]
        /\ touched' = IF scan'.at = "idle" THEN {} ELSE touched
    BY DEF Mark, Rewind
  <1>2. c \in scan.page /\ c \in Ids
    BY <1>1, CurrentFacts
  <1>3. /\ \A t \in Ids : t # c => rows'[t] = rows[t]
        /\ \A time : ~Overdue(rows'[c], time)
    <2>1. rows[c] \in Row /\ rows'[c] = [rows[c] EXCEPT !.notified = rows[c].present]
      BY <1>1, <1>2 DEF TypeOK
    <2>2. rows'[c].present = rows[c].present /\ rows'[c].notified = rows[c].present
      BY <2>1 DEF Row
    <2>3. QED
      BY <1>1, <1>2, <2>2 DEF Overdue, TypeOK
  <1>4. \/ /\ scan'.at = "event" /\ scan'.page = scan.page \ {c}
           /\ scan'.last = scan.last /\ scan'.full = scan.full /\ scan'.asof = scan.asof
        \/ /\ scan.page = {c} /\ scan'.at = "page" /\ scan'.page = {}
           /\ scan'.last = scan.last /\ scan'.asof = scan.asof
        \/ scan.page = {c} /\ ~scan.full /\ scan' = NoScan
    BY <1>1 DEF Turned, TypeOK
  <1> HIDE DEF c
  <1>5. QED
    BY <1>1, <1>2, <1>3, <1>4, RowFacts DEF ScanCovers

\* Every step keeps what the scan covers; a scan that ends without dying has left
\* nothing but what requests wrote.
LEMMA CoverStep ==
    ASSUME TypeOK, ScanCovers, [Next]_vars
    PROVE  /\ ScanCovers'
           /\ scan.at # "idle" /\ scan'.at = "idle" /\ deaths' = deaths =>
                 \A t \in Ids \ touched : ~Overdue(rows'[t], scan.asof)
  <1>1. CASE Tick \/ UNCHANGED vars
    <2>1. UNCHANGED <<rows, scan, touched>>
      BY <1>1 DEF Tick, vars, scanVars, historyVars
    <2>2. QED
      BY <2>1 DEF ScanCovers
  <1>2. ASSUME NEW r \in Requests, RequestStep(r)
        PROVE  ScanCovers' /\ UNCHANGED scan
    <2>1. UNCHANGED scan
      BY <1>2 DEF RequestStep, Store, Save, Load, NoNextOccurrence, CreateNextOccurrence,
                  DieBetween, BulkUpdate, Delete, scanVars
    <2>2. CASE scan.at = "idle"
      BY <2>1, <2>2 DEF ScanCovers
    <2>3. CASE scan.at # "idle"
      BY <1>2, <2>3, RequestsTouch DEF ScanCovers
    <2>4. QED
      BY <2>1, <2>2, <2>3
  <1>3. CASE StartScan
    <2>1. /\ scan.at = "idle" /\ scan'.at = "page" /\ scan'.page = {} /\ scan'.last = 0
      BY <1>3 DEF StartScan, NoScan
    <2>2. \A t \in Ids : t > 0
      BY ConstantFacts DEF Ids
    <2>3. QED
      BY <2>1, <2>2 DEF ScanCovers
  <1>4. CASE Announce
    <2>1. UNCHANGED <<rows, touched>> /\ scan.at = "event" /\ scan' = [scan EXCEPT !.at = "mark"]
      BY <1>4 DEF Announce, historyVars
    <2>2. /\ scan'.at = "mark" /\ scan'.page = scan.page /\ scan'.last = scan.last
          /\ scan'.full = scan.full /\ scan'.asof = scan.asof
      BY <2>1 DEF TypeOK
    <2>3. QED
      BY <2>1, <2>2 DEF ScanCovers
  <1>5. CASE Die
    <2>1. scan'.at = "idle" /\ deaths' # deaths
      BY <1>5, ConstantFacts, RowFacts DEF Die, TypeOK
    <2>2. QED
      BY <2>1 DEF ScanCovers
  <1>6. QED
    BY <1>1, <1>2, <1>3, <1>4, <1>5, FetchCovers, MarkCovers DEF Next, ScanStep

\* chunkById() passes over no overdue task although the rows it filters on disappear
\* behind it: a scan that ends of itself leaves only what requests wrote meanwhile.
THEOREM ScansAreComplete == Spec => ScanIsComplete
  <1> DEFINE Complete ==
         scan.at # "idle" /\ scan'.at = "idle" /\ deaths' = deaths =>
            \A t \in Present : Overdue(rows'[t], scan.asof) => t \in touched
  <1>1. Init => ScanCovers
    BY RowFacts DEF Init, ScanCovers
  <1>2. TypeOK /\ ScanCovers /\ [Next]_vars => ScanCovers' /\ [Complete]_vars
    BY CoverStep DEF Present
  <1>3. QED
    BY <1>1, <1>2, TypeCorrect, PTL DEF Spec, ScanIsComplete
=================================================================================
