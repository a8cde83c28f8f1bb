------------------------------- MODULE WorkItems -------------------------------
(***************************************************************************)
(* crm-work-management: work items changed by concurrent requests.         *)
(* A request first loads the row (findOrFail in the controller), checks    *)
(* If-Match and the status on the loaded model, then opens a transaction   *)
(* that writes the row, an audit row and, for a recurring item that is     *)
(* completed, a successor.  The transaction neither locks nor re-reads.    *)
(***************************************************************************)
EXTENDS Naturals, FiniteSets

CONSTANTS
    Ids,        \* primary keys of crm_work_items; their number bounds the rows
    Requests,   \* requests that change a work item, each runs once
    Asked,      \* the statuses forms and requests ask for
    MaxExpect,  \* bound on the version an If-Match header carries
    None        \* no item

Statuses == {"pending", "in_progress", "blocked", "completed", "cancelled"}

ASSUME NoneIsNoId == None \notin Ids
ASSUME AskedAreStatuses == Asked \subseteq Statuses
ASSUME MaxExpectIsNat == MaxExpect \in Nat

VARIABLES
    items,      \* items[i]: the row of crm_work_items, or NoItem
    audits,     \* audits[i]: how many rows of crm_work_audits i has, per event
    pc,         \* pc[r]: how far request r has got
    op,         \* op[r]: what request r asks for
    snap        \* snap[r]: the row as request r loaded it

vars == <<items, audits, pc, op, snap>>

\* A row; origin is the item whose completion created it (in the code the copied fields).
Item == [present: BOOLEAN, status: Statuses, version: Nat, recurring: BOOLEAN,
         origin: Ids \cup {None}]

NoItem == [present |-> FALSE, status |-> "pending", version |-> 0,
           recurring |-> FALSE, origin |-> None]

\* expects = 0: no If-Match header.  The API's PATCH validates no recurrence; the
\* Filament form sets both fields.
Updates == [kind: {"update"}, item: Ids, expects: 0..MaxExpect,
            status: Asked, recurring: BOOLEAN]

Completions == [kind: {"complete"}, item: Ids, expects: 0..MaxExpect,
                status: {"completed"}, recurring: {TRUE}]

NoOp == [kind |-> "none", item |-> None, expects |-> 0,
         status |-> "pending", recurring |-> FALSE]

Present == {i \in Ids : items[i].present}

Init ==
    /\ items = [i \in Ids |-> NoItem]
    /\ audits = [i \in Ids |-> [updated |-> 0, completed |-> 0]]
    /\ pc = [r \in Requests |-> "idle"]
    /\ op = [r \in Requests |-> NoOp]
    /\ snap = [r \in Requests |-> NoItem]

NewItem(status, recurring, origin) ==
    [present |-> TRUE, status |-> status, version |-> 1,
     recurring |-> recurring, origin |-> origin]

\* CreateWorkItem, from the API (status defaults to pending) or a Filament form.
Create(i, status, recurring) ==
    /\ ~items[i].present
    /\ items' = [items EXCEPT ![i] = NewItem(status, recurring, None)]
    /\ UNCHANGED <<audits, pc, op, snap>>

\* The controller loads the row the request is about.
Load(r, o) ==
    /\ pc[r] = "idle"
    /\ items[o.item].present
    /\ op' = [op EXCEPT ![r] = o]
    /\ snap' = [snap EXCEPT ![r] = items[o.item]]
    /\ pc' = [pc EXCEPT ![r] = "loaded"]
    /\ UNCHANGED <<items, audits>>

\* 'The work item has changed since it was read.'
VersionConflict(r) == op[r].expects # 0 /\ op[r].expects # snap[r].version

\* 'A cancelled work item cannot be completed.'
CancelledRefused(r) == op[r].kind = "complete" /\ snap[r].status = "cancelled"

Refuse(r) ==
    /\ pc[r] = "loaded"
    /\ VersionConflict(r) \/ CancelledRefused(r)
    /\ pc' = [pc EXCEPT ![r] = "refused"]
    /\ UNCHANGED <<items, audits, op, snap>>

Accepted(r) == pc[r] = "loaded" /\ ~VersionConflict(r) /\ ~CancelledRefused(r)

\* Model::update() writes only the attributes that differ from the loaded ones,
\* so a field the request left as it read it keeps what others wrote.
Written(asked, loaded, stored) == IF asked = loaded THEN stored ELSE asked

\* The row after the transaction of UpdateWorkItem.
Updated(r) ==
    [items[op[r].item] EXCEPT
        !.status = Written(op[r].status, snap[r].status, @),
        !.recurring = Written(op[r].recurring, snap[r].recurring, @),
        !.version = snap[r].version + 1]

\* Mutant of CommitUpdate: the audit row is forgotten.
CommitUpdateUnaudited(r) ==
    LET i == op[r].item IN
    /\ Accepted(r)
    /\ op[r].kind = "update"
    /\ items' = [items EXCEPT ![i] = Updated(r)]
    /\ pc' = [pc EXCEPT ![r] = "done"]
    /\ UNCHANGED <<audits, op, snap>>

\* The transaction of UpdateWorkItem.
CommitUpdate(r) ==
    LET i == op[r].item IN
    /\ Accepted(r)
    /\ op[r].kind = "update"
    /\ items' = [items EXCEPT ![i] = Updated(r)]
    /\ audits' = [audits EXCEPT ![i].updated = @ + 1]
    /\ pc' = [pc EXCEPT ![r] = "done"]
    /\ UNCHANGED <<op, snap>>

\* Mutant of Completed: the version stays.
CompletedUnbumped(r) ==
    [items[op[r].item] EXCEPT !.status = Written("completed", snap[r].status, @)]

\* The row after the transaction of CompleteWorkItem.
Completed(r) ==
    [items[op[r].item] EXCEPT
        !.status = Written("completed", snap[r].status, @),
        !.version = snap[r].version + 1]

\* The transaction of CompleteWorkItem on an item without recurrence.
CommitComplete(r) ==
    LET i == op[r].item IN
    /\ Accepted(r)
    /\ op[r].kind = "complete"
    /\ ~snap[r].recurring
    /\ items' = [items EXCEPT ![i] = Completed(r)]
    /\ audits' = [audits EXCEPT ![i].completed = @ + 1]
    /\ pc' = [pc EXCEPT ![r] = "done"]
    /\ UNCHANGED <<op, snap>>

\* Mutant of CommitCompleteRecurring: the audit row is forgotten.
CommitRepeatUnaudited(r, j) ==
    LET i == op[r].item IN
    /\ Accepted(r)
    /\ op[r].kind = "complete"
    /\ snap[r].recurring
    /\ ~items[j].present
    /\ items' = [items EXCEPT ![i] = Completed(r), ![j] = NewItem("pending", TRUE, i)]
    /\ pc' = [pc EXCEPT ![r] = "done"]
    /\ UNCHANGED <<audits, op, snap>>

\* The transaction of CompleteWorkItem on a recurring item: row j is its successor.
CommitCompleteRecurring(r, j) ==
    LET i == op[r].item IN
    /\ Accepted(r)
    /\ op[r].kind = "complete"
    /\ snap[r].recurring
    /\ ~items[j].present
    /\ items' = [items EXCEPT ![i] = Completed(r), ![j] = NewItem("pending", TRUE, i)]
    /\ audits' = [audits EXCEPT ![i].completed = @ + 1]
    /\ pc' = [pc EXCEPT ![r] = "done"]
    /\ UNCHANGED <<op, snap>>

\* Mutant of RollBack: without the transaction what was written before stays.
RollBackTooLate(r) ==
    LET i == op[r].item IN
    /\ Accepted(r)
    /\ op[r].kind = "complete"
    /\ snap[r].recurring
    /\ \E j \in Ids :
          /\ ~items[j].present
          /\ items' = [items EXCEPT ![i] = Completed(r), ![j] = NewItem("pending", TRUE, i)]
    /\ audits' = [audits EXCEPT ![i].completed = @ + 1]
    /\ pc' = [pc EXCEPT ![r] = "failed"]
    /\ UNCHANGED <<op, snap>>

\* The transaction fails and is rolled back.
RollBack(r) ==
    /\ Accepted(r)
    /\ pc' = [pc EXCEPT ![r] = "failed"]
    /\ UNCHANGED <<items, audits, op, snap>>

Commit(r) ==
    \/ CommitUpdate(r)
    \/ CommitComplete(r)
    \/ \E j \in Ids : CommitCompleteRecurring(r, j)

Next ==
    \/ \E i \in Ids, s \in Asked, b \in BOOLEAN : Create(i, s, b)
    \/ \E r \in Requests :
          \/ \E o \in Updates \cup Completions : Load(r, o)
          \/ Refuse(r)
          \/ Commit(r)
          \/ RollBack(r)

Spec == Init /\ [][Next]_vars

-------------------------------------------------------------------------------
\* Every variable has its type.
TypeOK ==
    /\ items \in [Ids -> Item]
    /\ audits \in [Ids -> [updated: Nat, completed: Nat]]
    /\ pc \in [Requests -> {"idle", "loaded", "done", "refused", "failed"}]
    /\ op \in [Requests -> Updates \cup Completions \cup {NoOp}]
    /\ snap \in [Requests -> Item]

\* The audit trail is never behind the version number: every bump left a row
\* (racing requests may bump less often than they audit, never more).
VersionIsAudited ==
    \A i \in Present : items[i].version <= 1 + audits[i].updated + audits[i].completed

Successors(i) == {j \in Present : items[j].origin = i}

\* No occurrence of a recurring item comes from nowhere: an item has no more
\* successors than audited completions.
SuccessorsAreAudited ==
    \A i \in Ids : Cardinality(Successors(i)) <= audits[i].completed

DoneOn(i) == {r \in Requests : pc[r] = "done" /\ op[r].item = i}

\* The version counts the changes of an item, unless two requests started from one
\* and the same version of it: both were accepted, with If-Match or without, and one
\* wrote over the other.
LostUpdatesShareAVersion ==
    \A i \in Present :
        items[i].version < 1 + audits[i].updated + audits[i].completed =>
            \E q, r \in DoneOn(i) : q # r /\ snap[q].version = snap[r].version
===============================================================================
