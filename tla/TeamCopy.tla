-------------------------------- MODULE TeamCopy --------------------------------
(***************************************************************************)
(* New teams made from old ones: TeamCloneService copies the configuration  *)
(* of a team of this database, ImportTeamBackupService the rows of a backup *)
(* taken on another one.  Both give every row a fresh primary key in a first*)
(* pass and rewrite the references in a second, in one transaction with     *)
(* foreign keys off; other users take keys of the same counters meanwhile.  *)
(* The transaction reads one snapshot and its rows are invisible until it   *)
(* commits (REPEATABLE READ), so the second pass is one step with the commit.*)
(***************************************************************************)
EXTENDS Naturals, FiniteSets

CONSTANTS
    Workers,
    Tables,
    Cloned,      \* CLONEABLE_MODELS, a part of the tables
    RefTables,   \* RefTables[t]: the tables that rows of t may refer to; several if
                 \* a type beside the column says which (activitable_type)
    Guessed,     \* Guessed[t]: the table an import takes the column to refer to, by
                 \* its foreign key or by its name; None if no team has rows of it
    Required,    \* the tables whose reference column is NOT NULL
    Declared,    \* the tables whose reference is a foreign key of the schema
    MaxId,       \* bound on the primary keys per table
    MaxTeams,    \* bound on the teams
    MaxWrites,   \* bound on the writes of other users
    Databases,   \* the sets of rows the database may start with
    FirstFree,   \* FirstFree[t]: the auto-increment counter of t at the start
    Archives,    \* the sets of rows a backup of another database may hold
    Importer, Stranger,
    None

Ids == 1..MaxId
TeamIds == 1..MaxTeams
Source == 1

\* One reference column and one user column stand for the columns of a row.  to is the
\* table that ref is a key of; None if ref is an identifier of another system
\* (emails.message_id).
Rows == [table: Tables, id: Ids, team: TeamIds, to: Tables \cup {None},
         ref: Ids \cup {None}, user: {Importer, Stranger, None}]

ASSUME BoundsAreNat == MaxId \in Nat /\ MaxTeams \in Nat \ {0} /\ MaxWrites \in Nat
ASSUME SchemaAssumption ==
    /\ Cloned \subseteq Tables /\ Required \subseteq Tables /\ Declared \subseteq Tables
    /\ RefTables \in [Tables -> SUBSET Tables]
    /\ Guessed \in [Tables -> Tables \cup {None}]
    /\ \A t \in Declared : RefTables[t] = {Guessed[t]}
    /\ \A t \in Cloned : RefTables[t] \subseteq Cloned
    /\ None \notin Tables /\ None \notin Ids

SameKey(x, y) == x.table = y.table /\ x.id = y.id

Refers(x, y) == x.to = y.table /\ x.ref = y.id

\* Ids are primary keys, and the database starts with no reference across teams.
ASSUME StartAssumption ==
    /\ Databases \subseteq SUBSET Rows /\ Archives \subseteq SUBSET Rows
    /\ \A rs \in Databases \cup Archives :
          /\ \A x, y \in rs : SameKey(x, y) => x = y
          /\ \A x \in rs : x.to \in RefTables[x.table] \cup {None}
    /\ \A db \in Databases : \A x, y \in db : Refers(x, y) => x.team = y.team
    /\ FirstFree \in [Tables -> 1..(MaxId + 1)]
    /\ \A db \in Databases : \A x \in db :
          /\ x.id < FirstFree[x.table]
          /\ x.ref # None /\ x.to # None => x.ref < FirstFree[x.to]

VARIABLES
    rows,      \* the committed rows of every team
    next,      \* next[t]: the auto-increment counter of t
    teams,     \* the committed teams
    used,      \* the team ids handed out, those of rolled back imports too
    copy,      \* copy[w]: the clone or import worker w runs
    writes,    \* how often other users have written
    kept       \* history: the keys of the rows imported with a reference that was not
               \* led to where it belongs

vars == <<rows, next, teams, used, copy, writes, kept>>

\* of: the rows to copy; made: the rows inserted so far with their new keys;
\* mine: rows the new team already had in the snapshot.
Idle == [step |-> "idle", kind |-> "clone", team |-> Source, of |-> {}, made |-> {}, mine |-> {}]

Init ==
    /\ rows \in Databases
    /\ next = FirstFree
    /\ teams = {Source} \cup {x.team : x \in rows}
    /\ used = Cardinality(teams)
    /\ copy = [w \in Workers |-> Idle]
    /\ writes = 0
    /\ kept = {}

OfTeam(t) == {x \in rows : x.team = t}

-------------------------------------------------------------------------------
\* Other users.

Write(new) ==
    /\ writes < MaxWrites
    /\ writes' = writes + 1
    /\ rows' = new
    /\ UNCHANGED <<teams, used, copy, kept>>

\* A user adds a row to a team, referring to a row of that team or to none.
AddRow(t, team, to, ref) ==
    /\ team \in teams
    /\ next[t] \in Ids
    /\ ref = None => to = None /\ t \notin Required
    /\ ref # None => \E y \in OfTeam(team) : to = y.table /\ to \in RefTables[t] /\ ref = y.id
    /\ Write(rows \cup {[table |-> t, id |-> next[t], team |-> team, to |-> to, ref |-> ref,
                          user |-> None]})
    /\ next' = [next EXCEPT ![t] = @ + 1]

\* A user deletes a row.  A cascade is several of these steps, leaves first; a
\* reference that is no foreign key of the schema is left dangling.
DeleteRow(x) ==
    /\ x \in rows
    /\ \A y \in rows : Refers(y, x) => y.table \notin Declared
    /\ Write(rows \ {x})
    /\ UNCHANGED next

-------------------------------------------------------------------------------
\* The copy.

TakeTeam ==
    /\ used < MaxTeams
    /\ used' = used + 1

\* clone: the team is saved before the transaction begins.
BeginClone(w) ==
    /\ copy[w].step = "idle"
    /\ TakeTeam
    /\ teams' = teams \cup {used + 1}
    /\ copy' = [copy EXCEPT ![w] = [Idle EXCEPT !.step = "saved", !.team = used + 1]]
    /\ UNCHANGED <<rows, next, writes, kept>>

\* The transaction sees the configuration of the source as it is now.
OpenSnapshot(w) ==
    /\ copy[w].step = "saved"
    /\ copy' = [copy EXCEPT ![w].step = "copying",
                            ![w].of = {x \in OfTeam(Source) : x.table \in Cloned},
                            ![w].mine = {x \in OfTeam(copy[w].team) : x.table \in Cloned}]
    /\ UNCHANGED <<rows, next, teams, used, writes, kept>>

\* import: the team is created inside the transaction, its id is taken at once.
BeginImport(w, archive) ==
    /\ copy[w].step = "idle"
    /\ TakeTeam
    /\ copy' = [copy EXCEPT ![w] = [Idle EXCEPT !.step = "copying", !.kind = "import",
                                                !.team = used + 1, !.of = archive]]
    /\ UNCHANGED <<rows, next, teams, writes, kept>>

\* copyRows, insertAll: the row is inserted under a fresh key, its id remembered.
InsertRow(w, x) ==
    /\ copy[w].step = "copying"
    /\ x \in copy[w].of
    /\ \A m \in copy[w].made : m.row # x
    /\ next[x.table] \in Ids
    /\ copy' = [copy EXCEPT ![w].made = @ \cup {[row |-> x, id |-> next[x.table]]}]
    /\ next' = [next EXCEPT ![x.table] = @ + 1]
    /\ UNCHANGED <<rows, teams, used, writes, kept>>

\* The table by whose map the reference of x is rewritten: a clone has the right one
\* for each column (FK_EDGES), an import the one it guesses.
Mapped(c, x) == IF c.kind = "clone" THEN x.to ELSE Guessed[x.table]

\* A clone rewrites the columns it lists; an import those into a table of which it has
\* inserted rows.
Rewrites(c, x) ==
    IF c.kind = "clone" THEN x.to # None ELSE \E m \in c.made : m.row.table = Mapped(c, x)

\* Mutant of NewRef: the map is keyed by the old id without its table.
NewRefAnyTable(c, x) ==
    LET mapped == {m \in c.made : m.row.id = x.ref}
    IN  IF x.ref = None \/ ~Rewrites(c, x) THEN x.ref
        ELSE IF mapped # {} THEN (CHOOSE m \in mapped : TRUE).id ELSE None

\* Mutant of NewRef: a reference that is not in the map is left alone.
NewRefUnmappedKept(c, x) ==
    LET mapped == {m \in c.made : m.row.table = Mapped(c, x) /\ m.row.id = x.ref}
    IN  IF x.ref # None /\ mapped # {} THEN (CHOOSE m \in mapped : TRUE).id ELSE x.ref

\* $idMap[$referenced][$old] ?? null, or the reference is left as it is.
NewRef(c, x) ==
    LET mapped == {m \in c.made : m.row.table = Mapped(c, x) /\ m.row.id = x.ref}
    IN  IF x.ref = None \/ ~Rewrites(c, x) THEN x.ref
        ELSE IF mapped # {} THEN (CHOOSE m \in mapped : TRUE).id ELSE None

\* Every user column of an import becomes the importer.
NewUser(c, x) == IF c.kind = "import" /\ x.user # None THEN Importer ELSE x.user

NewRow(c, m) == [table |-> m.row.table, id |-> m.id, team |-> c.team, to |-> m.row.to,
                 ref |-> NewRef(c, m.row), user |-> NewUser(c, m.row)]

\* Mutant of Patched: the second pass forgets the team.
PatchedEverywhere(c, x) ==
    IF \E m \in c.made : m.row.table = x.table THEN [x EXCEPT !.ref = NewRef(c, x)] ELSE x

\* The second pass selects by team: a row the new team had before is patched too,
\* if its table was copied.
Patched(c, x) ==
    IF /\ \E y \in c.mine : SameKey(y, x)
       /\ \E m \in c.made : m.row.table = x.table
    THEN [x EXCEPT !.ref = NewRef(c, CHOOSE y \in c.mine : SameKey(y, x))]
    ELSE x

\* History: the import does not lead the reference of x to where it belongs, because its
\* guess is another table, or because the archive has no row of that table.
Astray(c, x) ==
    /\ c.kind = "import"
    /\ x.ref # None /\ x.to # None
    /\ Mapped(c, x) # x.to \/ ~\E y \in c.of : y.table = x.to

\* patchForeignKeys, remapForeignKeys and the commit; a NOT NULL column takes no null.
Commit(w) ==
    LET c == copy[w]
        new == {Patched(c, x) : x \in rows} \cup {NewRow(c, m) : m \in c.made}
    IN  /\ c.step = "copying"
        /\ c.of = {m.row : m \in c.made}
        /\ \A x \in new : x.team = c.team /\ x.table \in Required => x.ref # None
        /\ rows' = new
        /\ teams' = teams \cup {c.team}
        /\ kept' = kept \cup {<<m.row.table, m.id>> : m \in {n \in c.made : Astray(c, n.row)}}
        /\ copy' = [copy EXCEPT ![w] = Idle]
        /\ UNCHANGED <<next, used, writes>>

\* A statement fails, or the process dies: the transaction is rolled back.
Fail(w) ==
    /\ copy[w].step # "idle"
    /\ copy' = [copy EXCEPT ![w] = Idle]
    /\ UNCHANGED <<rows, next, teams, used, writes, kept>>

Next ==
    \/ \E t \in Tables, team \in TeamIds, to \in Tables \cup {None}, ref \in Ids \cup {None} :
          AddRow(t, team, to, ref)
    \/ \E x \in rows : DeleteRow(x)
    \/ \E w \in Workers :
          \/ BeginClone(w)
          \/ OpenSnapshot(w)
          \/ \E archive \in Archives : BeginImport(w, archive)
          \/ \E x \in copy[w].of : InsertRow(w, x)
          \/ Commit(w)
          \/ Fail(w)

Spec == Init /\ [][Next]_vars

-------------------------------------------------------------------------------

\* What the second pass must make of the reference of x when f maps rows to copies.  A
\* reference that is not astray leads to the copy of the row it led to, or to none if
\* that row is not copied.  Any other stays as it was, unless the archive has rows of
\* the table that is guessed: then it is none, or the key of such a row's copy.
RefIsMapped(c, f, x) ==
    LET target == {y \in c.of : Refers(x, y)}
        guessed == {y \in c.of : y.table = Guessed[x.table]}
    IN  /\ x.ref = None => f[x].ref = None
        /\ x.ref # None /\ x.to # None /\ ~Astray(c, x) =>
              IF target = {} THEN f[x].ref = None ELSE \A y \in target : f[x].ref = f[y].id
        /\ x.ref # None /\ (x.to = None \/ Astray(c, x)) =>
              IF c.kind = "clone" \/ guessed = {} THEN f[x].ref = x.ref
              ELSE f[x].ref = None \/ \E y \in guessed : y.id = x.ref /\ f[x].ref = f[y].id

\* The new team is a copy of the rows it was made from: some one-to-one map of
\* those rows into the team's rows keeps their tables and their references, but for
\* those an import leads astray, gives an import's rows to the importer, and leaves
\* out no row that is new.
CopyIsExact ==
    [][\A w \in Workers :
          LET c == copy[w]
              new == {x \in rows' : x.team = c.team /\
                                    ~\E y \in rows : SameKey(y, x)}
          IN  Commit(w) =>
              \E f \in [c.of -> new] :
                 /\ \A x, y \in c.of : f[x] = f[y] => x = y
                 /\ new = {f[x] : x \in c.of}
                 /\ \A x \in c.of :
                       /\ f[x].table = x.table
                       /\ f[x].to = x.to
                       /\ f[x].user = NewUser(c, x)
                       /\ RefIsMapped(c, f, x)]_vars

\* No row refers to a row of another team, whatever ids an archive holds and whoever
\* takes keys meanwhile; excepted are the rows whose reference an import led astray,
\* because the name of its column does not tell the table (activitable_id), or the
\* archive has no row of it.
NoForeignReference ==
    \A x, y \in rows : Refers(x, y) /\ <<x.table, x.id>> \notin kept => x.team = y.team

\* Copying changes the new team only: the source and every other team stay as they
\* are, and so does what their users wrote while the copy ran.
OthersUntouched ==
    [][\A w \in Workers :
          Commit(w) => {x \in rows' : x.team # copy[w].team} = {x \in rows : x.team # copy[w].team}]_vars
===============================================================================
