------------------------------- MODULE TeamBackup -------------------------------
(***************************************************************************)
(* Backup and same-team restore.  Queue workers run GenerateTeamBackup and  *)
(* RestoreTeamBackup for one backup row while the team's users keep working.*)
(* The backup reads the tables one after another outside any transaction;   *)
(* the restore looks for rows, then inserts with foreign keys off.          *)
(* Two of the team's tables stand for all: stages.pipeline_id references    *)
(* pipelines with cascading delete, and Pipeline is read before Stage.      *)
(***************************************************************************)
EXTENDS Naturals, FiniteSets, Sequences

CONSTANTS
    Workers,
    MaxId,      \* bound on the primary keys handed out per table
    MaxRuns,    \* bound on the job deliveries (queue:work --tries, retry_after)
    None

ASSUME BoundsAreNat == MaxId \in Nat /\ MaxRuns \in Nat

Ids == 1..MaxId

\* TenantModels::all() is sorted by class name.
Tables == <<"pipelines", "stages">>

Pipelines == [table: {"pipelines"}, id: Ids, ref: {None}]
Stages == [table: {"stages"}, id: Ids, ref: Ids]
Rows == Pipelines \cup Stages

ASSUME NoneIsNoSet == \A set \in SUBSET Rows : set # None

VARIABLES
    rows,       \* the team's rows
    next,       \* next[t]: the auto-increment counter of table t
    backup,     \* the row of team_backups with its artifact
    run,        \* run[w]: what worker w is doing
    runs,       \* how many jobs have been delivered
    expected,   \* history: the rows a restore should have brought back, or None
    tainted     \* history: an artifact taken while users wrote has been restored

vars == <<rows, next, backup, run, runs, expected, tainted>>

\* at: the tables read; got: the rows in the archive; of (history): the rows when
\* the backup began, None once a user has written since.
Idle == [step |-> "idle", at |-> 0, got |-> {}, of |-> None]

Init ==
    /\ rows = {}
    /\ next = [t \in {"pipelines", "stages"} |-> 1]
    /\ backup = [status |-> "pending", file |-> None, of |-> None]
    /\ run = [w \in Workers |-> Idle]
    /\ runs = 0
    /\ expected = None
    /\ tainted = FALSE

InTable(t) == {x \in rows : x.table = t}

Has(table, id) == \E x \in rows : x.table = table /\ x.id = id

\* The runs after a write: no backup run stands for the rows it began with any more.
Disturbed == [w \in Workers |->
                 IF run[w].step = "reading" THEN [run[w] EXCEPT !.of = None] ELSE run[w]]

\* A write of a user.
UserWrites(new) ==
    /\ rows' = new
    /\ run' = Disturbed
    /\ expected' = None
    /\ UNCHANGED <<backup, runs, tainted>>

AddPipeline ==
    /\ next["pipelines"] \in Ids
    /\ UserWrites(rows \cup {[table |-> "pipelines", id |-> next["pipelines"], ref |-> None]})
    /\ next' = [next EXCEPT !["pipelines"] = @ + 1]

\* The foreign key wants the pipeline to exist.
AddStage(p) ==
    /\ next["stages"] \in Ids
    /\ Has("pipelines", p)
    /\ UserWrites(rows \cup {[table |-> "stages", id |-> next["stages"], ref |-> p]})
    /\ next' = [next EXCEPT !["stages"] = @ + 1]

DeleteStage(i) ==
    /\ Has("stages", i)
    /\ UserWrites({x \in rows : ~(x.table = "stages" /\ x.id = i)})
    /\ UNCHANGED next

\* onDelete('cascade').
DeletePipeline(p) ==
    /\ Has("pipelines", p)
    /\ UserWrites({x \in rows : IF x.table = "pipelines" THEN x.id # p ELSE x.ref # p})
    /\ UNCHANGED next

\* The data-loss event restore is made for: the rows are gone, the team is not.
LoseAll ==
    /\ rows # {}
    /\ UserWrites({})
    /\ UNCHANGED next

\* A worker takes a job: at most MaxRuns are delivered.
Deliver(w) ==
    /\ run[w].step = "idle"
    /\ runs < MaxRuns
    /\ runs' = runs + 1

\* GenerateTeamBackup begins, for the first time or again.
BeginBackup(w) ==
    /\ Deliver(w)
    /\ backup' = [backup EXCEPT !.status = "processing"]
    /\ run' = [run EXCEPT ![w] = [step |-> "reading", at |-> 0, got |-> {}, of |-> rows]]
    /\ UNCHANGED <<rows, next, expected, tainted>>

\* The rows of the next table go into the archive.
ReadTable(w) ==
    /\ run[w].step = "reading"
    /\ run[w].at < Len(Tables)
    /\ run' = [run EXCEPT ![w].got = @ \cup InTable(Tables[run[w].at + 1]),
                          ![w].at = @ + 1]
    /\ UNCHANGED <<rows, next, backup, runs, expected, tainted>>

\* Mutant of CompleteBackup: the artifact is stored before every table is read.
CompleteEarly(w) ==
    /\ run[w].step = "reading"
    /\ run[w].at > 0
    /\ backup' = [status |-> "completed", file |-> run[w].got, of |-> run[w].of]
    /\ run' = [run EXCEPT ![w] = Idle]
    /\ UNCHANGED <<rows, next, runs, expected, tainted>>

\* The artifact is stored and the outcome recorded.
CompleteBackup(w) ==
    /\ run[w].step = "reading"
    /\ run[w].at = Len(Tables)
    /\ backup' = [status |-> "completed", file |-> run[w].got, of |-> run[w].of]
    /\ run' = [run EXCEPT ![w] = Idle]
    /\ UNCHANGED <<rows, next, runs, expected, tainted>>

\* An exception is recorded and rethrown.
FailBackup(w) ==
    /\ run[w].step = "reading"
    /\ backup' = [backup EXCEPT !.status = "failed"]
    /\ run' = [run EXCEPT ![w] = Idle]
    /\ UNCHANGED <<rows, next, runs, expected, tainted>>

\* RestoreTeamBackup: a completed backup with its file, and an empty team.
CheckEmpty(w) ==
    /\ Deliver(w)
    /\ backup.status = "completed"
    /\ rows = {}
    /\ run' = [run EXCEPT ![w] = [step |-> "checked", at |-> 0, got |-> backup.file,
                                  of |-> backup.of]]
    /\ UNCHANGED <<rows, next, backup, expected, tainted>>

\* The job ends without restoring: the backup is not completed or the team not empty.
RefuseRestore(w) ==
    /\ Deliver(w)
    /\ backup.status # "completed" \/ rows # {}
    /\ UNCHANGED <<rows, next, backup, run, expected, tainted>>

Collides(file) == \E x \in file : Has(x.table, x.id)

\* The team after the rows of the run of w are added.
Restored(w, added) ==
    /\ rows' = rows \cup added
    /\ run' = [Disturbed EXCEPT ![w] = Idle]
    /\ expected' = IF rows = {} THEN run[w].of ELSE None
    /\ tainted' = (tainted \/ run[w].of = None)
    /\ UNCHANGED <<next, backup, runs>>

\* Mutant of InsertRows: the rows of the second table only.
InsertStages(w) ==
    /\ run[w].step = "checked"
    /\ ~Collides(run[w].got)
    /\ Restored(w, run[w].got \cap Stages)

\* The transaction inserts every row with its primary key, foreign keys unchecked.
InsertRows(w) ==
    /\ run[w].step = "checked"
    /\ ~Collides(run[w].got)
    /\ Restored(w, run[w].got)

\* A primary key is taken, or a statement fails: nothing is inserted.
InsertFails(w) ==
    /\ run[w].step = "checked"
    /\ run' = [run EXCEPT ![w] = Idle]
    /\ UNCHANGED <<rows, next, backup, runs, expected, tainted>>

\* The worker dies in the middle of a run; the backup row keeps its status.
Die(w) ==
    /\ run[w].step # "idle"
    /\ run' = [run EXCEPT ![w] = Idle]
    /\ UNCHANGED <<rows, next, backup, runs, expected, tainted>>

Work(w) ==
    \/ ReadTable(w)
    \/ CompleteBackup(w)
    \/ FailBackup(w)
    \/ InsertRows(w)
    \/ InsertFails(w)

Next ==
    \/ AddPipeline
    \/ \E i \in Ids : AddStage(i) \/ DeleteStage(i) \/ DeletePipeline(i)
    \/ LoseAll
    \/ \E w \in Workers :
          BeginBackup(w) \/ CheckEmpty(w) \/ RefuseRestore(w) \/ Work(w) \/ Die(w)

\* A run that has begun goes on.
Fairness == \A w \in Workers : WF_vars(Work(w))

Spec == Init /\ [][Next]_vars /\ Fairness

-------------------------------------------------------------------------------
\* Every variable has its type, and a completed backup has its file.
TypeOK ==
    /\ rows \subseteq Rows
    /\ next \in [{"pipelines", "stages"} -> 1..(MaxId + 1)]
    /\ backup \in [status: {"pending", "processing", "completed", "failed"},
                   file: (SUBSET Rows) \cup {None}, of: (SUBSET Rows) \cup {None}]
    /\ backup.status = "completed" => backup.file # None
    /\ run \in [Workers -> [step: {"idle", "reading", "checked"}, at: 0..Len(Tables),
                            got: SUBSET Rows, of: (SUBSET Rows) \cup {None}]]
    /\ runs \in 0..MaxRuns
    /\ expected \in (SUBSET Rows) \cup {None}
    /\ tainted \in BOOLEAN

\* Every stage has its pipeline.
Resolve(set) == \A s \in set \cap Stages : \E p \in set \cap Pipelines : p.id = s.ref

\* A team that lost its rows and got them back from a backup taken while nobody
\* wrote has exactly the rows it had then, until somebody writes again.
RestoreIsExact == expected # None => rows = expected

\* References dangle only after a backup taken while users wrote was restored:
\* neither retried jobs nor writes between check and insert are enough.
OnlyHurriedBackupsDangle == ~tainted => Resolve(rows)
===============================================================================
