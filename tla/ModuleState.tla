------------------------------ MODULE ModuleState ------------------------------
(***************************************************************************)
(* app/Modules: which in-app modules are enabled.  The state is a row of    *)
(* the modules table (none: the configured default) behind a cache entry    *)
(* per module.  Processes (artisan commands, web requests) enable, disable  *)
(* or only look; nothing is locked.  install() and uninstall() change the   *)
(* state exactly as enable() and disable() do.  Development mode, which     *)
(* bypasses the cache, is left out.                                         *)
(***************************************************************************)
EXTENDS Naturals

CONSTANTS
    Modules,
    DependsOn,  \* DependsOn[m]: the dependencies module.json of m declares
    Defaults,   \* config('modules.enabled'); empty: every module
    Processes,
    None

Default(m) == Defaults = {} \/ m \in Defaults

ASSUME DependenciesAreModules == DependsOn \in [Modules -> SUBSET Modules]
ASSUME DefaultsAreClosed ==
    \A m \in Modules : Default(m) => \A d \in DependsOn[m] : Default(d)
ASSUME NoneIsNoState == None \notin BOOLEAN /\ None \notin Modules

VARIABLES
    db,         \* db[m]: is_enabled of m's row, or None
    dbUp,
    cache,      \* cache[m]: the entry "module.{m}.enabled", or None
    pc,
    op,         \* op[p]: what process p does
    todo,       \* todo[p]: the modules whose isEnabled() p still has to call
    blocked,    \* blocked[p]: p has met a dependency or a dependent in its way
    fill,       \* fill[p]: what Cache::remember() of p is about to store
    serial,     \* history: no two processes have overlapped, no failure was met, and
                \* none died before its forget
    orphans     \* history: the modules whose entry without a time to live was left
                \* behind by a process that died before its forget

vars == <<db, dbUp, cache, pc, op, todo, blocked, fill, serial, orphans>>

Ops == [kind: {"enable", "disable", "look"}, module: Modules]

Entry == [value: BOOLEAN, forever: BOOLEAN]

Init ==
    /\ db = [m \in Modules |-> None]
    /\ dbUp = TRUE
    /\ cache = [m \in Modules |-> None]
    /\ pc = [p \in Processes |-> "idle"]
    /\ op = [p \in Processes |-> None]
    /\ todo = [p \in Processes |-> {}]
    /\ blocked = [p \in Processes |-> FALSE]
    /\ fill = [p \in Processes |-> None]
    /\ serial = TRUE
    /\ orphans = {}

\* The state the table stands for.
Enabled(m) == IF db[m] = None THEN Default(m) ELSE db[m]

\* resolveEnabledState(): an exception of the database is answered with the default.
Resolved(m) == IF dbUp THEN Enabled(m) ELSE Default(m)

\* The modules whose state an operation asks for: checkDependencies() the declared
\* dependencies, hasDependents() every module.
ToCheck(o) ==
    CASE o.kind = "enable" -> DependsOn[o.module]
      [] o.kind = "disable" -> Modules
      [] o.kind = "look" -> {o.module}

Start(p, o) ==
    /\ pc[p] = "idle"
    /\ op' = [op EXCEPT ![p] = o]
    /\ todo' = [todo EXCEPT ![p] = ToCheck(o)]
    /\ blocked' = [blocked EXCEPT ![p] = FALSE]
    /\ pc' = [pc EXCEPT ![p] = "checking"]
    /\ serial' = (serial /\ \A q \in Processes : pc[q] = "idle")
    /\ UNCHANGED <<db, dbUp, cache, fill, orphans>>

\* Mutant of InTheWay: dependents are not looked for.
OnlyDependencies(o, m, value) == o.kind = "enable" /\ ~value

\* A disabled dependency is in the way of enable, an enabled dependent of disable.
InTheWay(o, m, value) ==
    \/ o.kind = "enable" /\ ~value
    \/ o.kind = "disable" /\ value /\ o.module \in DependsOn[m]

\* isEnabled() has answered for module m.
Learn(p, m, value) ==
    /\ todo' = [todo EXCEPT ![p] = @ \ {m}]
    /\ blocked' = [blocked EXCEPT ![p] = @ \/ InTheWay(op[p], m, value)]

\* isEnabled() of m is next; checkDependencies() asks no more once one is disabled.
Asks(p, m) ==
    /\ pc[p] = "checking"
    /\ m \in todo[p]
    /\ ~(op[p].kind = "enable" /\ blocked[p])

CheckHit(p, m) ==
    /\ Asks(p, m)
    /\ cache[m] # None
    /\ Learn(p, m, cache[m].value)
    /\ UNCHANGED <<db, dbUp, cache, pc, op, fill, serial, orphans>>

\* Cache::remember() misses and resolves the state.
CheckMiss(p, m) ==
    /\ Asks(p, m)
    /\ cache[m] = None
    /\ fill' = [fill EXCEPT ![p] = [module |-> m, value |-> Resolved(m)]]
    /\ pc' = [pc EXCEPT ![p] = "filling"]
    /\ UNCHANGED <<db, dbUp, cache, op, todo, blocked, serial, orphans>>

\* Mutant of CheckFill: rememberForever() instead of remember().
CheckFillForever(p) ==
    /\ pc[p] = "filling"
    /\ cache' = [cache EXCEPT ![fill[p].module] = [value |-> fill[p].value, forever |-> TRUE]]
    /\ Learn(p, fill[p].module, fill[p].value)
    /\ fill' = [fill EXCEPT ![p] = None]
    /\ pc' = [pc EXCEPT ![p] = "checking"]
    /\ UNCHANGED <<db, dbUp, op, serial, orphans>>

\* Cache::remember() stores what was resolved, whatever has happened since.
CheckFill(p) ==
    /\ pc[p] = "filling"
    /\ cache' = [cache EXCEPT ![fill[p].module] = [value |-> fill[p].value, forever |-> FALSE]]
    /\ Learn(p, fill[p].module, fill[p].value)
    /\ fill' = [fill EXCEPT ![p] = None]
    /\ pc' = [pc EXCEPT ![p] = "checking"]
    /\ orphans' = orphans \ {fill[p].module}
    /\ UNCHANGED <<db, dbUp, op, serial>>

\* 'has unmet dependencies' (at the first one), 'other modules depend on it' (after
\* all are looked at); a look ends.
Stop(p) ==
    /\ pc[p] = "checking"
    /\ \/ blocked[p] /\ (op[p].kind = "enable" \/ todo[p] = {})
       \/ op[p].kind = "look" /\ todo[p] = {}
    /\ pc' = [pc EXCEPT ![p] = "idle"]
    /\ UNCHANGED <<db, dbUp, cache, op, todo, blocked, fill, serial, orphans>>

MayChange(p) ==
    /\ pc[p] = "checking"
    /\ op[p].kind # "look"
    /\ todo[p] = {}
    /\ ~blocked[p]

\* persistState() writes the row.
Persist(p) ==
    /\ MayChange(p)
    /\ dbUp
    /\ db' = [db EXCEPT ![op[p].module] = op[p].kind = "enable"]
    /\ pc' = [pc EXCEPT ![p] = "forgetting"]
    /\ UNCHANGED <<dbUp, cache, op, todo, blocked, fill, serial, orphans>>

\* persistState() falls back to the cache, without a time to live.
PersistInCache(p) ==
    /\ MayChange(p)
    /\ ~dbUp
    /\ cache' = [cache EXCEPT ![op[p].module] =
                    [value |-> op[p].kind = "enable", forever |-> TRUE]]
    /\ pc' = [pc EXCEPT ![p] = "forgetting"]
    /\ UNCHANGED <<db, dbUp, op, todo, blocked, fill, serial, orphans>>

\* enable() and disable() end with Cache::forget().
Forget(p) ==
    /\ pc[p] = "forgetting"
    /\ cache' = [cache EXCEPT ![op[p].module] = None]
    /\ pc' = [pc EXCEPT ![p] = "idle"]
    /\ orphans' = orphans \ {op[p].module}
    /\ UNCHANGED <<db, dbUp, op, todo, blocked, fill, serial>>

\* The time to live of an entry is over.
Expire(m) ==
    /\ cache[m] # None
    /\ ~cache[m].forever
    /\ cache' = [cache EXCEPT ![m] = None]
    /\ UNCHANGED <<db, dbUp, pc, op, todo, blocked, fill, serial, orphans>>

\* The database goes away or comes back.
DbSwitch ==
    /\ dbUp' = ~dbUp
    /\ serial' = FALSE
    /\ UNCHANGED <<db, cache, pc, op, todo, blocked, fill, orphans>>

\* Process p dies.  An entry that persistState() has put without a time to live stays
\* if p does not live to forget it.
Die(p) ==
    /\ pc[p] # "idle"
    /\ pc' = [pc EXCEPT ![p] = "idle"]
    /\ fill' = [fill EXCEPT ![p] = None]
    /\ serial' = (serial /\ pc[p] # "forgetting")
    /\ orphans' = orphans \cup
          {m \in Modules : /\ pc[p] = "forgetting" /\ op[p].module = m
                          /\ cache[m] # None /\ cache[m].forever}
    /\ UNCHANGED <<db, dbUp, cache, op, todo, blocked>>

Continue(p) ==
    \/ \E m \in Modules : CheckHit(p, m) \/ CheckMiss(p, m)
    \/ CheckFill(p)
    \/ Stop(p)
    \/ Persist(p)
    \/ PersistInCache(p)
    \/ Forget(p)

Next ==
    \/ \E p \in Processes : Continue(p) \/ Die(p) \/ \E o \in Ops : Start(p, o)
    \/ \E m \in Modules : Expire(m)
    \/ DbSwitch

\* A process that has begun goes on or dies, and the cache drops what has expired.
Fairness ==
    /\ \A p \in Processes : WF_vars(Continue(p))
    /\ \A m \in Modules : WF_vars(Expire(m))

Spec == Init /\ [][Next]_vars /\ Fairness

-------------------------------------------------------------------------------

\* No process is about to drop the entry of m.
Settled(m) == \A p \in Processes : pc[p] = "forgetting" => op[p].module # m

\* No cache entry of the modules ms and no pending fill contradicts the table, but for
\* the entry of a module between the write and the forget.
CoherentOn(ms) ==
    /\ \A m \in ms : cache[m] # None /\ Settled(m) => cache[m].value = Enabled(m)
    /\ \A p \in Processes : fill[p] # None => fill[p].value = Enabled(fill[p].module)

Coherent == CoherentOn(Modules)

\* The modules an enabled module needs are enabled.
DependenciesEnabled == \A m \in Modules : Enabled(m) => \A d \in DependsOn[m] : Enabled(d)

\* "Prevents disabling modules that other modules depend on": while processes come
\* one after another and each lives to forget what it has changed, dependencies are
\* kept and the cache says what the table says.
SerialUseIsSafe == serial => DependenciesEnabled /\ Coherent

\* No process is changing a module, and the database answers.
Quiet ==
    /\ dbUp
    /\ \A p \in Processes : pc[p] = "idle" \/ op[p].kind = "look"

\* However enables, disables, lookups, deaths and database failures raced, once
\* changes stop every process is at last told what the table says, but of a module
\* whose last entry a dead process has left for ever.
StaleStateExpires == <>[]Quiet => <>[]CoherentOn(Modules \ orphans)
===============================================================================
