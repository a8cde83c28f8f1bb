--------------------------------- MODULE Tasks ---------------------------------
(***************************************************************************)
(* Tasks: API and form requests that save a model they loaded before, the  *)
(* model hooks that stamp a completion and insert the next occurrence of a *)
(* recurring task, bulk updates and deletions that bypass the hooks, and   *)
(* the daily scan that announces overdue tasks page by page.               *)
(***************************************************************************)
EXTENDS Integers, FiniteSets, FiniteSetsExt

CONSTANTS
    MaxId,      \* bound on the primary keys of tasks
    First,      \* the tasks 1..First exist at the start, due at once
    Requests,   \* requests that create, save or delete tasks, each runs once
    Asked,      \* the statuses requests ask for
    PageSize,   \* rows per page of the scan (200 in the code)
    MaxTime,    \* bound on the clock
    Day,        \* how many ticks of the clock a day has
    Dates,      \* the due dates requests ask for
    MaxDeaths,  \* bound on how often a scan dies
    None        \* no date

Statuses == {"pending", "in_progress", "completed", "cancelled"}
Ids == 1..MaxId

ASSUME BoundsAreNats == MaxId \in Nat /\ First \in 0..MaxId /\ MaxTime \in Nat /\ MaxDeaths \in Nat
ASSUME PagesHaveRows == PageSize \in Nat \ {0}
ASSUME DaysHaveTicks == Day \in Nat \ {0}
ASSUME AskedAreStatuses == Asked \subseteq Statuses
ASSUME NoneIsNoDate == None \notin Nat
ASSUME DatesAreDates == Dates \subseteq Nat \cup {None}

VARIABLES
    rows,       \* rows[t]: the row of tasks with key t, or NoTask
    lastId,     \* the last primary key given out
    now,        \* the clock
    pc,         \* pc[r]: how far request r has got
    task,       \* task[r]: the key of the task request r loaded
    model,      \* model[r]: the attributes of its model, as loaded or as saved
    scan,       \* the daily scan
    deaths,     \* how many scans died
    events,     \* events[t]: how often TaskOverdue was dispatched for t
    touched,    \* history: the tasks requests wrote since the scan began
    tainted,    \* history: the tasks saved from a stale copy, written past the
                \* hooks, or whose request died between its two statements
    owed        \* history: how often t became completed while it repeats and has a
                \* date, less the next occurrences inserted for it

requestVars == <<pc, task, model>>
scanVars == <<scan, deaths, events>>
historyVars == <<touched, tainted, owed>>
vars == <<rows, lastId, now, requestVars, scanVars, historyVars>>

\* A row of tasks; stamped stands for completed_at, repeats for recurrence.
Row == [present: BOOLEAN, status: Statuses, due: Nat \cup {None}, repeats: BOOLEAN,
        stamped: BOOLEAN, notified: BOOLEAN]

NoTask == [present |-> FALSE, status |-> "pending", due |-> None, repeats |-> FALSE,
           stamped |-> FALSE, notified |-> FALSE]

NewTask(status, due, repeats) ==
    [present |-> TRUE, status |-> status, due |-> due, repeats |-> repeats,
     stamped |-> status = "completed", notified |-> FALSE]

Present == {t \in Ids : rows[t].present}

NoScan == [at |-> "idle", asof |-> 0, last |-> 0, page |-> {}, full |-> FALSE]

Init ==
    /\ rows \in [Ids -> {NoTask} \cup {NewTask("pending", 0, b) : b \in BOOLEAN}]
    /\ Present = 1..First
    /\ lastId = First
    /\ now = 0
    /\ pc = [r \in Requests |-> "idle"]
    /\ task = [r \in Requests |-> 0]
    /\ model = [r \in Requests |-> NoTask]
    /\ scan = NoScan
    /\ deaths = 0
    /\ events = [t \in Ids |-> 0]
    /\ touched = {}
    /\ tainted = {}
    /\ owed = [t \in Ids |-> 0]

Tick ==
    /\ now < MaxTime
    /\ now' = now + 1
    /\ UNCHANGED <<rows, lastId, requestVars, scanVars, historyVars>>

-------------------------------------------------------------------------------
(* Requests *)

\* The request is over; its process forgets the model.
End(r) ==
    /\ pc' = [pc EXCEPT ![r] = "done"]
    /\ task' = [task EXCEPT ![r] = 0]
    /\ model' = [model EXCEPT ![r] = NoTask]

\* History: what a scan under way may miss.
Touch(ts) == touched' = IF scan.at = "idle" THEN {} ELSE touched \cup ts

Insert(row) ==
    /\ lastId < MaxId
    /\ lastId' = lastId + 1
    /\ rows' = [rows EXCEPT ![lastId + 1] = row]
    /\ Touch({lastId + 1})

\* The first moment of today.
Today == now - (now % Day)

\* store(): the date may be any time of today, one that is over too; the saving hook stamps a task created as completed; the updated hook
\* does not see it.
Store(r, status, due, repeats) ==
    /\ pc[r] = "idle"
    /\ due # None => due >= Today
    /\ Insert(NewTask(status, due, repeats))
    /\ End(r)
    /\ UNCHANGED <<now, scanVars, tainted, owed>>

\* Route-model binding loads the task.
Load(r, t) ==
    /\ pc[r] = "idle"
    /\ rows[t].present
    /\ pc' = [pc EXCEPT ![r] = "loaded"]
    /\ task' = [task EXCEPT ![r] = t]
    /\ model' = [model EXCEPT ![r] = rows[t]]
    /\ UNCHANGED <<rows, lastId, now, scanVars, historyVars>>

\* The saving hook.
Stamped(before, asked) ==
    [asked EXCEPT !.stamped =
        \/ asked.status = "completed"
        \/ asked.status = before.status /\ before.stamped]

\* Mutant of Written: the whole stale model is written.
WrittenWhole(before, after, stored) == IF stored.present THEN after ELSE stored

\* save() writes the attributes that differ from the loaded ones; the UPDATE of
\* a row that is gone changes nothing.
Written(before, after, stored) ==
    IF stored.present
    THEN [f \in DOMAIN stored |-> IF after[f] = before[f] THEN stored[f] ELSE after[f]]
    ELSE stored

\* Mutant of Repeats: every save of a completed task repeats it.
RepeatsWheneverSaved(before, after) == after.status = "completed" /\ after.repeats

\* The condition of the updated hook.
Repeats(before, after) ==
    /\ after.status # before.status
    /\ after.status = "completed"
    /\ after.repeats

\* The row turns from open to completed while it repeats and has a date.
Turns(before, after) ==
    /\ after.present
    /\ before.status # "completed" /\ after.status = "completed"
    /\ after.repeats /\ after.due # None

\* What the scan writes does not make a copy stale.
Stale(r) == rows[task[r]] # [model[r] EXCEPT !.notified = rows[task[r]].notified]

\* update(), markAsComplete(), markAsIncomplete() and the forms.
Save(r, status, due, repeats) ==
    LET t == task[r]
        after == Stamped(model[r], [model[r] EXCEPT !.status = status, !.due = due,
                                                    !.repeats = repeats])
        row == Written(model[r], after, rows[t])
    IN
    /\ pc[r] = "loaded"
    /\ rows' = [rows EXCEPT ![t] = row]
    /\ IF Repeats(model[r], after)
       THEN /\ pc' = [pc EXCEPT ![r] = "saved"]
            /\ model' = [model EXCEPT ![r] = after]
            /\ UNCHANGED task
       ELSE End(r)
    /\ Touch({t})
    /\ tainted' = IF Stale(r) THEN tainted \cup {t} ELSE tainted
    /\ owed' = IF Turns(rows[t], row) THEN [owed EXCEPT ![t] = @ + 1] ELSE owed
    /\ UNCHANGED <<lastId, now, scanVars>>

\* createNextOccurrence() of a task without a date.
NoNextOccurrence(r) ==
    /\ pc[r] = "saved"
    /\ model[r].due = None
    /\ End(r)
    /\ UNCHANGED <<rows, lastId, now, scanVars, historyVars>>

\* Mutant of NextOccurrence: the next occurrence is a replica of the task.
NextReplica(row) == [row EXCEPT !.status = "pending", !.due = @ + 1, !.stamped = FALSE]

\* What createNextOccurrence() inserts; a period is one tick of the clock.
NextOccurrence(row) == NewTask("pending", row.due + 1, TRUE)

\* createNextOccurrence(): a second statement, in no transaction with the first.
CreateNextOccurrence(r) ==
    /\ pc[r] = "saved"
    /\ model[r].due # None
    /\ Insert(NextOccurrence(model[r]))
    /\ owed' = [owed EXCEPT ![task[r]] = @ - 1]
    /\ End(r)
    /\ UNCHANGED <<now, scanVars, tainted>>

\* The process dies, or the insertion fails, after the save.
DieBetween(r) ==
    /\ pc[r] = "saved"
    /\ End(r)
    /\ tainted' = tainted \cup {task[r]}
    /\ UNCHANGED <<rows, lastId, now, scanVars, touched, owed>>

BulkChanges == [status: Asked] \cup [due: Dates] \cup [status: Asked, due: Dates]

\* bulkUpdate(): one UPDATE through the query builder; no hook sees it.
BulkUpdate(r, ts, change) ==
    /\ pc[r] = "idle"
    /\ rows' = [t \in Ids |->
          IF t \in ts
          THEN [f \in DOMAIN rows[t] |-> IF f \in DOMAIN change THEN change[f] ELSE rows[t][f]]
          ELSE rows[t]]
    /\ End(r)
    /\ Touch(ts)
    /\ tainted' = IF "status" \in DOMAIN change THEN tainted \cup ts ELSE tainted
    /\ UNCHANGED <<lastId, now, scanVars, owed>>

\* destroy() and bulkDelete().
Delete(r, ts) ==
    /\ pc[r] = "idle"
    /\ rows' = [t \in Ids |-> IF t \in ts THEN NoTask ELSE rows[t]]
    /\ End(r)
    /\ Touch(ts)
    /\ UNCHANGED <<lastId, now, scanVars, tainted, owed>>

-------------------------------------------------------------------------------
(* The daily scan *)

Overdue(row, time) ==
    /\ row.present
    /\ row.due # None /\ row.due < time
    /\ row.status # "completed"
    /\ ~row.notified

\* Mutant of Deadline: the start of the day instead of the hour.
DeadlineOfYesterday == IF now = 0 THEN 0 ELSE now - 1

\* What is due before this is overdue.
Deadline == now

StartScan ==
    /\ scan.at = "idle"
    /\ scan' = [NoScan EXCEPT !.at = "page", !.asof = Deadline]
    /\ UNCHANGED <<rows, lastId, now, requestVars, deaths, events, historyVars>>

\* History: nothing is touched before the next scan begins.
Rewind == touched' = IF scan'.at = "idle" THEN {} ELSE touched

\* Mutant of Rest: the page starts one key too late.
RestButOne == {t \in Ids : t > scan.last + 1 /\ Overdue(rows[t], scan.asof)}

\* The tasks the scan still has to see.
Rest == {t \in Ids : t > scan.last /\ Overdue(rows[t], scan.asof)}

\* chunkById(): the next page, in order of the key.  An empty one ends the scan.
FetchPage ==
    LET page == {t \in Rest : Cardinality({u \in Rest : u < t}) < PageSize} IN
    /\ scan.at = "page"
    /\ scan' = IF page = {}
               THEN NoScan
               ELSE [scan EXCEPT !.at = "event", !.page = page, !.last = Max(page),
                                 !.full = Cardinality(page) = PageSize]
    /\ Rewind
    /\ UNCHANGED <<rows, lastId, now, requestVars, deaths, events, tainted, owed>>

Current == Min(scan.page)

\* TaskOverdue::dispatch()
Announce ==
    /\ scan.at = "event"
    /\ events' = [events EXCEPT ![Current] = @ + 1]
    /\ scan' = [scan EXCEPT !.at = "mark"]
    /\ UNCHANGED <<rows, lastId, now, requestVars, deaths, historyVars>>

\* The page without its current task.  A page that was not full is the last.
Turned ==
    IF scan.page # {Current}
    THEN [scan EXCEPT !.page = @ \ {Current}, !.at = "event"]
    ELSE IF scan.full THEN [scan EXCEPT !.page = {}, !.at = "page"] ELSE NoScan

\* update(['overdue_notified' => true]) on the copy the page holds: it writes the
\* flag alone.
Mark ==
    /\ scan.at = "mark"
    /\ rows' = [rows EXCEPT ![Current].notified = rows[Current].present]
    /\ scan' = Turned
    /\ Rewind
    /\ UNCHANGED <<lastId, now, requestVars, deaths, events, tainted, owed>>

\* The scan dies, or the listener or the database throws: the rest waits for the
\* next day.
Die ==
    /\ scan.at # "idle"
    /\ deaths < MaxDeaths
    /\ deaths' = deaths + 1
    /\ scan' = NoScan
    /\ Rewind
    /\ UNCHANGED <<rows, lastId, now, requestVars, events, tainted, owed>>

-------------------------------------------------------------------------------
RequestStep(r) ==
    \/ \E s \in Asked, d \in Dates, b \in BOOLEAN : Store(r, s, d, b) \/ Save(r, s, d, b)
    \/ \E t \in Ids : Load(r, t)
    \/ NoNextOccurrence(r)
    \/ CreateNextOccurrence(r)
    \/ DieBetween(r)
    \/ \E ts \in SUBSET Present :
          \/ \E change \in BulkChanges : BulkUpdate(r, ts, change)
          \/ Delete(r, ts)

ScanStep == StartScan \/ FetchPage \/ Announce \/ Mark

Next ==
    \/ Tick
    \/ \E r \in Requests : RequestStep(r)
    \/ ScanStep
    \/ Die

Spec == Init /\ [][Next]_vars

\* The scheduler starts a scan every day and a scan that does not die goes on.
FairSpec == Spec /\ WF_vars(ScanStep)

-------------------------------------------------------------------------------
\* Every variable has its type.
TypeOK ==
    /\ rows \in [Ids -> Row]
    /\ lastId \in 0..MaxId
    /\ now \in 0..MaxTime
    /\ pc \in [Requests -> {"idle", "loaded", "saved", "done"}]
    /\ task \in [Requests -> Nat]
    /\ \A r \in Requests : pc[r] \in {"loaded", "saved"} => task[r] \in Ids
    /\ model \in [Requests -> Row]
    /\ scan \in [at: {"idle", "page", "event", "mark"}, asof: Nat, last: Nat,
                 page: SUBSET Ids, full: BOOLEAN]
    /\ scan.at \in {"event", "mark"} => scan.page # {}
    /\ deaths \in 0..MaxDeaths
    /\ events \in [Ids -> Nat]
    /\ touched \subseteq Ids
    /\ tainted \subseteq Ids
    /\ owed \in [Ids -> Int]

\* 'once per task': a second event for a task needs a scan that died, whatever
\* requests save meanwhile; nothing ever takes the mark away.
RepeatedEventsNeedDeaths == \A t \in Ids : events[t] <= 1 + deaths

\* No overdue task is passed over in silence: a task that carries the mark was
\* announced, so a scan that dies may repeat an event and never loses one.
MarkedWasAnnounced == \A t \in Ids : rows[t].notified => events[t] > 0

\* How far the notice of task t has got.
NoticeOf(t) == IF t > lastId THEN "unsent"
               ELSE IF ~rows[t].present THEN "withdrawn"
               ELSE IF rows[t].notified THEN "settled" ELSE "open"

\* Pages, events and marks, the requests between them and the scans that die implement an
\* outbox: a mark settles what was announced, for good, and no request undoes it.
Sent == INSTANCE Outbox WITH Notices <- Ids, status <- [t \in Ids |-> NoticeOf(t)],
            delivered <- events, failures <- deaths
ImplementsOutbox == Sent!Spec

\* A scan that comes to its end leaves no overdue task of its hour, though it
\* pages through a table whose filtered rows disappear behind it; only tasks that
\* requests wrote meanwhile may wait for the next day.
ScanIsComplete ==
    [][scan.at # "idle" /\ scan'.at = "idle" /\ deaths' = deaths =>
         \A t \in Present : Overdue(rows'[t], scan.asof) => t \in touched]_vars

\* The requests that owe task t its next occurrence.
Owing(t) == {r \in Requests : pc[r] = "saved" /\ task[r] = t /\ model[r].due # None}

\* Under the same condition a series never ends and never forks: each time a
\* recurring task is completed, one next occurrence is inserted or about to be.
EveryCompletionRepeats ==
    \A t \in Ids \ tainted : Cardinality(Owing(t)) = owed[t]

\* Every overdue task is announced in the end, unless somebody completes, moves
\* or deletes it: a scan that dies is made up for by a later one.
OverdueTasksAreAnnounced ==
    \A t \in Ids : Overdue(rows[t], now) ~> ~Overdue(rows[t], now)
===============================================================================
