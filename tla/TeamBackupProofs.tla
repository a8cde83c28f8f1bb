---------------------------- MODULE TeamBackupProofs ----------------------------
(***************************************************************************)
(* Proofs about TeamBackup, for any number of workers, rows and runs.      *)
(***************************************************************************)
EXTENDS TeamBackup, TLAPS

\* A calm reader has seen exactly the tables it has read of the present rows.
CalmReading ==
    \A w \in Workers : run[w].step = "reading" /\ run[w].of # None =>
        /\ run[w].of = rows
        /\ run[w].at >= 1 => InTable("pipelines") \subseteq run[w].got
        /\ run[w].at >= 2 => InTable("stages") \subseteq run[w].got
        /\ run[w].got \subseteq rows

\* A calm artifact is what it stands for, and so is the copy a restore works on.
CalmArtifact ==
    backup.of # None =>
        backup.file = backup.of /\ (tainted \/ Resolve(backup.file))

CalmCopies ==
    \A w \in Workers : run[w].step = "checked" /\ run[w].of # None =>
        run[w].got = run[w].of /\ (tainted \/ Resolve(run[w].got))

BackupInv ==
    CalmReading /\ CalmArtifact /\ CalmCopies /\ OnlyHurriedBackupsDangle
    /\ RestoreIsExact

\* The two tables, in the order a backup reads them.
LEMMA TablesFacts == Len(Tables) = 2 /\ Tables[1] = "pipelines" /\ Tables[2] = "stages"
  BY DEF Tables

\* The rows of the two tables are all the rows.
LEMMA TwoTables ==
    ASSUME rows \subseteq Rows
    PROVE  rows = InTable("pipelines") \cup InTable("stages")
  BY DEF InTable, Rows, Pipelines, Stages

\* Two sets of rows whose references resolve have a union whose references resolve.
LEMMA UnionResolves ==
    ASSUME NEW A, NEW B, Resolve(A), Resolve(B)
    PROVE  Resolve(A \cup B)
  BY DEF Resolve

Run == [step: {"idle", "reading", "checked"}, at: 0..2,
        got: SUBSET Rows, of: (SUBSET Rows) \cup {None}]

\* The runs as a function, for the steps that replace one.
LEMMA RunIsTyped == TypeOK => run \in [Workers -> Run]
  BY TablesFacts DEF TypeOK, Run

\* A worker at rest is a run.
LEMMA IdleIsRun == Idle \in Run /\ Idle.step = "idle"
  BY DEF Idle, Run

\* At the start there is no artifact and every worker rests.
LEMMA InitFacts == Init => TypeOK /\ BackupInv
  <1> SUFFICES ASSUME Init
               PROVE  TypeOK /\ BackupInv
    OBVIOUS
  <1>1. run \in [Workers -> Run] /\ \A w \in Workers : run[w].step = "idle"
    BY IdleIsRun DEF Init
  <1>2. backup = [status |-> "pending", file |-> None, of |-> None]
    BY DEF Init
  <1>3. next \in [{"pipelines", "stages"} -> 1..(MaxId + 1)]
    BY BoundsAreNat DEF Init
  <1>4. TypeOK
    <2>1. run \in [Workers -> [step: {"idle", "reading", "checked"}, at: 0..Len(Tables),
                               got: SUBSET Rows, of: (SUBSET Rows) \cup {None}]]
      BY <1>1, TablesFacts DEF Run
    <2>2. backup \in [status: {"pending", "processing", "completed", "failed"},
                     file: (SUBSET Rows) \cup {None}, of: (SUBSET Rows) \cup {None}]
          /\ backup.status # "completed"
      BY <1>2
    <2>3. rows \subseteq Rows /\ runs \in 0..MaxRuns
      BY BoundsAreNat DEF Init
    <2>4. expected \in (SUBSET Rows) \cup {None} /\ tainted \in BOOLEAN
      BY DEF Init
    <2>5. QED
      BY <1>3, <2>1, <2>2, <2>3, <2>4 DEF TypeOK
  <1>5. BackupInv
    BY <1>1, <1>2
       DEF Init, BackupInv, CalmReading, CalmArtifact, CalmCopies,
           OnlyHurriedBackupsDangle, RestoreIsExact, Resolve
  <1>6. QED
    BY <1>4, <1>5

\* The four writes of users: what each does to the rows.
UserStep ==
    \/ AddPipeline
    \/ \E i \in Ids : AddStage(i) \/ DeleteStage(i) \/ DeletePipeline(i)
    \/ LoseAll

\* What users write are rows; references that resolved still do.
LEMMA UserRows ==
    ASSUME TypeOK, UserStep
    PROVE  /\ rows' \subseteq Rows
           /\ Resolve(rows) => Resolve(rows')
           /\ UserWrites(rows')
  <1> USE DEF TypeOK, UserWrites
  <1>1. CASE AddPipeline
    BY <1>1 DEF AddPipeline, Resolve, Rows, Pipelines, Stages
  <1>2. ASSUME NEW i \in Ids, AddStage(i)
        PROVE  /\ rows' \subseteq Rows
               /\ Resolve(rows) => Resolve(rows')
               /\ UserWrites(rows')
    <2> DEFINE s == [table |-> "stages", id |-> next["stages"], ref |-> i]
    <2>1. s \in Stages /\ rows' = rows \cup {s}
      BY <1>2 DEF AddStage, Stages
    <2>2. PICK p \in rows : p.table = "pipelines" /\ p.id = i
      BY <1>2 DEF AddStage, Has
    <2>3. p \in Pipelines /\ s.ref = i
      BY <2>2 DEF Rows, Stages, Pipelines
    <2> HIDE DEF s
    <2>4. Resolve(rows) => Resolve(rows')
      BY <2>1, <2>2, <2>3 DEF Resolve
    <2>5. QED
      BY <1>2, <2>1, <2>4 DEF AddStage, Rows
  <1>3. ASSUME NEW i \in Ids, DeleteStage(i)
        PROVE  /\ rows' \subseteq Rows
               /\ Resolve(rows) => Resolve(rows')
               /\ UserWrites(rows')
    BY <1>3 DEF DeleteStage, Resolve, Pipelines
  <1>4. ASSUME NEW i \in Ids, DeletePipeline(i)
        PROVE  /\ rows' \subseteq Rows
               /\ Resolve(rows) => Resolve(rows')
               /\ UserWrites(rows')
    <2>1. rows' = {x \in rows : IF x.table = "pipelines" THEN x.id # i ELSE x.ref # i}
      BY <1>4 DEF DeletePipeline
    <2>2. Resolve(rows) => Resolve(rows')
      BY <2>1 DEF Resolve, Pipelines, Stages
    <2>3. QED
      BY <1>4, <2>1, <2>2 DEF DeletePipeline
  <1>5. CASE LoseAll
    BY <1>5 DEF LoseAll, Resolve
  <1>6. QED
    BY <1>1, <1>2, <1>3, <1>4, <1>5 DEF UserStep

\* Marking the runs that a write disturbed keeps them typed.
LEMMA DisturbedRuns ==
    ASSUME TypeOK
    PROVE  Disturbed \in [Workers -> Run]
  <1> SUFFICES ASSUME NEW w \in Workers
               PROVE  (IF run[w].step = "reading" THEN [run[w] EXCEPT !.of = None]
                                                  ELSE run[w]) \in Run
    BY DEF Disturbed
  <1> DEFINE r == run[w]
  <1>1. r \in Run
    BY RunIsTyped
  <1> HIDE DEF r
  <1>2. [r EXCEPT !.of = None] \in Run
    BY <1>1 DEF Run
  <1>3. QED
    BY <1>1, <1>2 DEF r

\* What it takes to keep the types of the runs.
LEMMA RunsTyped ==
    ASSUME run' \in [Workers -> Run]
    PROVE  run' \in [Workers -> [step: {"idle", "reading", "checked"}, at: 0..Len(Tables),
                                got: SUBSET Rows, of: (SUBSET Rows) \cup {None}]]
  BY TablesFacts DEF Run

\* Every step keeps the types.
LEMMA TypeStep == TypeOK /\ [Next]_vars => TypeOK'
  <1> SUFFICES ASSUME TypeOK, [Next]_vars
               PROVE  TypeOK'
    OBVIOUS
  <1> DEFINE Statuses == {"pending", "processing", "completed", "failed"}
  <1>1. CASE UNCHANGED vars
    BY <1>1 DEF vars, TypeOK
  <1>2. CASE UserStep
    <2>1. /\ rows' \subseteq Rows
          /\ run' \in [Workers -> Run]
          /\ UNCHANGED <<backup, runs, tainted>>
          /\ expected' = None
      BY <1>2, UserRows, DisturbedRuns DEF UserWrites
    <2>2. next' \in [{"pipelines", "stages"} -> 1..(MaxId + 1)]
      <3>1. \A t \in {"pipelines", "stages"} : next[t] \in Ids => next[t] + 1 \in 1..(MaxId + 1)
        BY BoundsAreNat DEF Ids
      <3>2. next \in [{"pipelines", "stages"} -> 1..(MaxId + 1)]
        BY DEF TypeOK
      <3>3. CASE AddPipeline
        BY <3>1, <3>2, <3>3 DEF AddPipeline
      <3>4. ASSUME NEW i \in Ids, AddStage(i)
            PROVE  next' \in [{"pipelines", "stages"} -> 1..(MaxId + 1)]
        BY <3>1, <3>2, <3>4 DEF AddStage
      <3>5. QED
        BY <1>2, <3>2, <3>3, <3>4 DEF UserStep, DeleteStage, DeletePipeline, LoseAll
    <2>3. QED
      BY <2>1, <2>2, RunsTyped DEF TypeOK
  <1>3. ASSUME NEW w \in Workers, BeginBackup(w) \/ CheckEmpty(w) \/ RefuseRestore(w)
        PROVE  TypeOK'
    <2>1. runs' \in 0..MaxRuns
      BY <1>3, BoundsAreNat
         DEF BeginBackup, CheckEmpty, RefuseRestore, Deliver, TypeOK
    <2>2. CASE BeginBackup(w)
      <3>1. [step |-> "reading", at |-> 0, got |-> {}, of |-> rows] \in Run
        BY DEF TypeOK, Run
      <3>2. run' \in [Workers -> Run]
        BY <2>2, <3>1, RunIsTyped DEF BeginBackup
      <3>3. /\ backup' \in [status: Statuses, file: (SUBSET Rows) \cup {None},
                            of: (SUBSET Rows) \cup {None}]
            /\ backup'.status = "processing"
        BY <2>2 DEF BeginBackup, TypeOK
      <3>4. QED
        BY <2>1, <2>2, <3>2, <3>3, RunsTyped DEF BeginBackup, TypeOK
    <2>3. CASE CheckEmpty(w)
      <3>1. backup.file \in SUBSET Rows /\ backup.of \in (SUBSET Rows) \cup {None}
        BY <2>3 DEF CheckEmpty, TypeOK
      <3>2. [step |-> "checked", at |-> 0, got |-> backup.file, of |-> backup.of] \in Run
        BY <3>1 DEF Run
      <3>3. run' \in [Workers -> Run]
        BY <2>3, <3>2, RunIsTyped DEF CheckEmpty
      <3>4. QED
        BY <2>1, <2>3, <3>3, RunsTyped DEF CheckEmpty, TypeOK
    <2>4. CASE RefuseRestore(w)
      BY <2>1, <2>4 DEF RefuseRestore, TypeOK
    <2>5. QED
      BY <1>3, <2>2, <2>3, <2>4
  <1>4. ASSUME NEW w \in Workers, ReadTable(w)
        PROVE  TypeOK'
    <2>1. run[w].at + 1 \in 0..Len(Tables)
      BY <1>4, TablesFacts DEF ReadTable, TypeOK
    <2>2. InTable(Tables[run[w].at + 1]) \subseteq Rows
      BY DEF InTable, TypeOK
    <2>3. run' = [run EXCEPT ![w] = [run[w] EXCEPT
                     !.got = @ \cup InTable(Tables[run[w].at + 1]), !.at = @ + 1]]
      BY <1>4 DEF ReadTable
    <2> DEFINE r == run[w]
               more == InTable(Tables[run[w].at + 1])
    <2>4. r \in Run /\ r.at + 1 \in 0..2 /\ more \in SUBSET Rows
      BY <2>1, <2>2, RunIsTyped, TablesFacts
    <2>5. run' = [run EXCEPT ![w] = [r EXCEPT !.got = @ \cup more, !.at = @ + 1]]
      BY <2>3
    <2> HIDE DEF r, more
    <2>6. [r EXCEPT !.got = @ \cup more, !.at = @ + 1] \in Run
      BY <2>4 DEF Run
    <2>7. run' \in [Workers -> Run]
      BY <2>5, <2>6, RunIsTyped
    <2>8. QED
      BY <1>4, <2>7, RunsTyped DEF ReadTable, TypeOK
  <1>5. ASSUME NEW w \in Workers, CompleteBackup(w) \/ FailBackup(w)
        PROVE  TypeOK'
    <2>1. run' \in [Workers -> Run]
      BY <1>5, IdleIsRun, RunIsTyped DEF CompleteBackup, FailBackup
    <2>2. CASE CompleteBackup(w)
      <3>1. run[w].got \in SUBSET Rows /\ run[w].of \in (SUBSET Rows) \cup {None}
        BY RunIsTyped DEF Run
      <3>2. QED
        BY <2>1, <2>2, <3>1, NoneIsNoSet, RunsTyped DEF CompleteBackup, TypeOK
    <2>3. CASE FailBackup(w)
      BY <2>1, <2>3, RunsTyped DEF FailBackup, TypeOK
    <2>4. QED
      BY <1>5, <2>2, <2>3
  <1>6. ASSUME NEW w \in Workers, InsertRows(w)
        PROVE  TypeOK'
    <2>1. run' \in [Workers -> Run]
      BY <1>6, IdleIsRun, DisturbedRuns DEF InsertRows, Restored
    <2>2. run[w].got \in SUBSET Rows /\ run[w].of \in (SUBSET Rows) \cup {None}
      BY RunIsTyped DEF Run
    <2>3. rows' \subseteq Rows /\ expected' \in (SUBSET Rows) \cup {None}
      BY <1>6, <2>2 DEF InsertRows, Restored, TypeOK
    <2>4. tainted' \in BOOLEAN
      BY <1>6 DEF InsertRows, Restored, TypeOK
    <2>5. QED
      BY <1>6, <2>1, <2>3, <2>4, RunsTyped DEF InsertRows, Restored, TypeOK
  <1>7. ASSUME NEW w \in Workers, InsertFails(w) \/ Die(w)
        PROVE  TypeOK'
    <2>1. run' \in [Workers -> Run]
      BY <1>7, IdleIsRun, RunIsTyped DEF InsertFails, Die
    <2>2. QED
      BY <1>7, <2>1, RunsTyped DEF InsertFails, Die, TypeOK
  <1>8. QED
    BY <1>1, <1>2, <1>3, <1>4, <1>5, <1>6, <1>7 DEF Next, Work, UserStep

\* Every step keeps what calm backups stand for.
LEMMA InvStep == TypeOK /\ BackupInv /\ [Next]_vars => BackupInv'
  <1> SUFFICES ASSUME TypeOK, BackupInv, [Next]_vars
               PROVE  BackupInv'
    OBVIOUS
  <1> USE DEF BackupInv, CalmReading, CalmArtifact, CalmCopies,
              OnlyHurriedBackupsDangle, RestoreIsExact
  <1>1. CASE UNCHANGED vars
    BY <1>1 DEF vars, InTable, Resolve
  <1>2. CASE UserStep
    <2>1. /\ run' = Disturbed /\ expected' = None
          /\ backup' = backup /\ tainted' = tainted
          /\ Resolve(rows) => Resolve(rows')
      BY <1>2, UserRows DEF UserWrites
    <2>2. \A w \in Workers : run'[w].step = "reading" => run'[w].of = None
      BY <2>1 DEF Disturbed, TypeOK
    <2>3. \A w \in Workers : run'[w].step = "checked" => run'[w] = run[w]
      BY <2>1 DEF Disturbed, TypeOK
    <2>4. QED
      BY <2>1, <2>2, <2>3 DEF Resolve
  <1>3. ASSUME NEW w \in Workers, BeginBackup(w)
        PROVE  BackupInv'
    BY <1>3 DEF BeginBackup, TypeOK, InTable, Resolve
  <1>4. ASSUME NEW w \in Workers, ReadTable(w)
        PROVE  BackupInv'
    <2>1. /\ rows' = rows /\ backup' = backup /\ tainted' = tainted
          /\ expected' = expected
          /\ \A v \in Workers \ {w} : run'[v] = run[v]
          /\ run'[w].step = "reading" /\ run'[w].of = run[w].of
          /\ run'[w].at = run[w].at + 1
          /\ run'[w].got = run[w].got \cup InTable(Tables[run[w].at + 1])
      BY <1>4 DEF ReadTable, TypeOK
    <2>2. run[w].at \in {0, 1}
      BY <1>4, TablesFacts DEF ReadTable, TypeOK
    <2>3. CalmReading'
      <3> SUFFICES ASSUME NEW v \in Workers, run'[v].step = "reading", run'[v].of # None
                   PROVE  /\ run'[v].of = rows
                          /\ run'[v].at >= 1 => InTable("pipelines") \subseteq run'[v].got
                          /\ run'[v].at >= 2 => InTable("stages") \subseteq run'[v].got
                          /\ run'[v].got \subseteq rows
        BY <2>1 DEF InTable
      <3>1. CASE v # w
        BY <2>1, <3>1
      <3>2. CASE v = w
        <4>1. run[w].step = "reading"
          BY <1>4 DEF ReadTable
        <4>2. CASE run[w].at = 0
          BY <2>1, <3>2, <4>1, <4>2, TablesFacts DEF InTable
        <4>3. CASE run[w].at = 1
          BY <2>1, <3>2, <4>1, <4>3, TablesFacts DEF InTable
        <4>4. QED
          BY <2>2, <4>2, <4>3
      <3>3. QED
        BY <3>1, <3>2
    <2>4. \A v \in Workers : run'[v].step = "checked" => run'[v] = run[v]
      BY <2>1
    <2>5. CalmArtifact' /\ CalmCopies'
      BY <2>1, <2>4 DEF Resolve
    <2>6. OnlyHurriedBackupsDangle' /\ RestoreIsExact'
      BY <2>1 DEF Resolve
    <2>7. QED
      BY <2>3, <2>5, <2>6
  <1>5. ASSUME NEW w \in Workers, CompleteBackup(w)
        PROVE  BackupInv'
    <2>1. run[w].of # None => run[w].got = rows /\ run[w].of = rows
      <3>1. run[w].step = "reading" /\ run[w].at = 2
        BY <1>5, TablesFacts DEF CompleteBackup
      <3>2. run[w].of # None => /\ run[w].of = rows
                                /\ InTable("pipelines") \subseteq run[w].got
                                /\ InTable("stages") \subseteq run[w].got
                                /\ run[w].got \subseteq rows
        BY <3>1
      <3>3. rows = InTable("pipelines") \cup InTable("stages")
        BY TwoTables DEF TypeOK
      <3>4. QED
        BY <3>2, <3>3
    <2>2. /\ backup'.of = run[w].of /\ backup'.file = run[w].got
          /\ rows' = rows /\ tainted' = tainted /\ expected' = expected
          /\ run' = [run EXCEPT ![w] = Idle]
      BY <1>5 DEF CompleteBackup
    <2>3. CalmArtifact'
      <3>1. tainted \/ Resolve(rows)
        OBVIOUS
      <3>2. QED
        BY <2>1, <2>2, <3>1 DEF Resolve
    <2>4. \A v \in Workers : run'[v].step # "idle" => run'[v] = run[v]
      BY <2>2, IdleIsRun DEF TypeOK
    <2>5. CalmReading' /\ CalmCopies'
      BY <2>2, <2>4 DEF InTable, Resolve
    <2>6. OnlyHurriedBackupsDangle' /\ RestoreIsExact'
      BY <2>2 DEF Resolve
    <2>7. QED
      BY <2>3, <2>5, <2>6
  <1>6. ASSUME NEW w \in Workers, CheckEmpty(w)
        PROVE  BackupInv'
    BY <1>6 DEF CheckEmpty, TypeOK, InTable, Resolve
  <1>7. ASSUME NEW w \in Workers, InsertRows(w)
        PROVE  BackupInv'
    <2>1. /\ rows' = rows \cup run[w].got
          /\ expected' = IF rows = {} THEN run[w].of ELSE None
          /\ tainted' = (tainted \/ run[w].of = None)
          /\ backup' = backup
          /\ run[w].step = "checked"
      BY <1>7 DEF InsertRows, Restored
    <2>2. \A v \in Workers : run'[v].step = "reading" => run'[v].of = None
      BY <1>7 DEF InsertRows, Restored, Disturbed, Idle, TypeOK
    <2>3. \A v \in Workers : run'[v].step = "checked" => run'[v] = run[v]
      BY <1>7 DEF InsertRows, Restored, Disturbed, Idle, TypeOK
    <2>4. OnlyHurriedBackupsDangle'
      <3>1. CASE tainted'
        BY <3>1
      <3>2. CASE ~tainted'
        <4>1. Resolve(rows) /\ Resolve(run[w].got)
          BY <2>1, <3>2
        <4>2. Resolve(rows')
          BY <2>1, <4>1, UnionResolves DEF Resolve
        <4>3. QED
          BY <4>2
      <3>3. QED
        BY <3>1, <3>2
    <2>5. RestoreIsExact'
      BY <2>1
    <2>6. CalmArtifact'
      <3>1. tainted => tainted'
        BY <2>1
      <3>2. CalmArtifact
        OBVIOUS
      <3>3. QED
        BY <2>1, <3>1, <3>2 DEF Resolve
    <2>7. CalmCopies'
      <3> SUFFICES ASSUME NEW v \in Workers, run'[v].step = "checked", run'[v].of # None
                   PROVE  run'[v].got = run'[v].of /\ (tainted' \/ Resolve(run'[v].got))
        BY DEF Resolve
      <3>1. run'[v] = run[v] /\ (tainted => tainted')
        BY <2>1, <2>3
      <3>2. CalmCopies
        OBVIOUS
      <3>3. QED
        BY <3>1, <3>2 DEF Resolve
    <2>8. QED
      BY <2>2, <2>4, <2>5, <2>6, <2>7
  <1>8. ASSUME NEW w \in Workers,
               FailBackup(w) \/ RefuseRestore(w) \/ InsertFails(w) \/ Die(w)
        PROVE  BackupInv'
    <2>1. /\ rows' = rows /\ tainted' = tainted /\ expected' = expected
          /\ backup'.file = backup.file /\ backup'.of = backup.of
      BY <1>8 DEF FailBackup, RefuseRestore, InsertFails, Die, TypeOK
    <2>2. \A v \in Workers : run'[v].step # "idle" => run'[v] = run[v]
      BY <1>8, IdleIsRun DEF FailBackup, RefuseRestore, InsertFails, Die, TypeOK
    <2>3. QED
      BY <2>1, <2>2 DEF InTable, Resolve
  <1>9. QED
    BY <1>1, <1>2, <1>3, <1>4, <1>5, <1>6, <1>7, <1>8 DEF Next, Work, UserStep

\* Type and invariant hold throughout.
LEMMA BackupInvariant == Spec => [](TypeOK /\ BackupInv)
  BY InitFacts, TypeStep, InvStep, PTL DEF Spec

\* Type correctness of the rows, the backup row and the runs.
THEOREM TypeCorrect == Spec => []TypeOK
  BY BackupInvariant, PTL

\* A restore of a backup taken while nobody wrote, into the empty team, brings back
\* exactly the rows of that time, whatever other runs and retries there are.
THEOREM RestoresAreExact == Spec => []RestoreIsExact
  BY BackupInvariant, PTL DEF BackupInv

\* References dangle only after a backup taken while users wrote was restored.
THEOREM DanglingNeedsHurry == Spec => []OnlyHurriedBackupsDangle
  BY BackupInvariant, PTL DEF BackupInv
===============================================================================
