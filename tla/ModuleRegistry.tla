------------------------------ MODULE ModuleRegistry ------------------------------
(***************************************************************************)
(* ModuleRegistry::resolve, by which the application decides at every start *)
(* which installed modules to boot and in which order: the modules selected *)
(* by the configuration are checked against what they require, then visited *)
(* depth first so that each comes after its requirements.                   *)
(* Modules are numbered as sort() puts their names.                         *)
(***************************************************************************)
EXTENDS Naturals, Sequences, FiniteSets

CONSTANTS
    N,              \* the installed modules
    Capabilities,
    Outdated,       \* the pairs <<m, o>> where o's version is not what m asks for
    Catalogues,     \* what the manifests may say
    Configs         \* what the configuration may say

Modules == 1..N

\* packages: the modules whose Composer package m requires; missing: the modules
\* that require a library which is not installed; owner: the one module discovery
\* lets provide a capability, or 0.
Manifests == [default: SUBSET Modules, missing: SUBSET Modules,
              packages: [Modules -> SUBSET Modules],
              owner: [Capabilities -> Modules \cup {0}],
              needs: [Modules -> SUBSET Capabilities]]

ASSUME NAssumption == N \in Nat
ASSUME CatalogueAssumption ==
    /\ Catalogues \subseteq Manifests
    /\ Configs \subseteq [enabled: SUBSET Modules, disabled: SUBSET Modules]

VARIABLES
    manifests,  \* what the manifests say
    config,     \* modules.enabled and modules.disabled
    phase,
    selected,   \* the modules to boot
    stack,      \* the calls of $visit that have not returned, outermost first
    ordered     \* the result so far

vars == <<manifests, config, phase, selected, stack, ordered>>

Init ==
    /\ manifests \in Catalogues
    /\ config \in Configs
    /\ phase = "select"
    /\ selected = {}
    /\ stack = <<>>
    /\ ordered = <<>>

Elements(s) == {s[i] : i \in DOMAIN s}

Owners(m) == {manifests.owner[c] : c \in manifests.needs[m]}

\* What $visit follows: the owners of m's packages and capabilities that are selected.
Requires(m) == (manifests.packages[m] \cup Owners(m)) \cap selected

-------------------------------------------------------------------------------
\* Enabled by default or by the configuration, and not disabled.
Select ==
    /\ phase = "select"
    /\ selected' = (manifests.default \cup config.enabled) \ config.disabled
    /\ phase' = "check"
    /\ UNCHANGED <<manifests, config, stack, ordered>>

\* Every package and capability m requires is there, recent enough and selected.
Met(m) ==
    /\ m \notin manifests.missing
    /\ \A o \in manifests.packages[m] : o \in selected /\ <<m, o>> \notin Outdated
    /\ \A c \in manifests.needs[m] :
          manifests.owner[c] \in selected /\ <<m, manifests.owner[c]>> \notin Outdated

CheckFails ==
    /\ phase = "check"
    /\ \E m \in selected : ~Met(m)
    /\ phase' = "unmet"
    /\ UNCHANGED <<manifests, config, selected, stack, ordered>>

CheckPasses ==
    /\ phase = "check"
    /\ \A m \in selected : Met(m)
    /\ phase' = "order"
    /\ UNCHANGED <<manifests, config, selected, stack, ordered>>

Unordered == selected \ Elements(ordered)

Top == stack[Len(stack)]

\* The loop over the sorted names reaches a module not yet ordered.
VisitNext(m) ==
    /\ phase = "order"
    /\ stack = <<>>
    /\ m \in Unordered
    /\ \A o \in Unordered : m <= o
    /\ stack' = <<m>>
    /\ UNCHANGED <<manifests, config, phase, selected, ordered>>

\* The call for a requirement of the module on top.
VisitRequired(m) ==
    /\ phase = "order"
    /\ stack # <<>>
    /\ m \in Requires(Top) \cap Unordered
    /\ m \notin Elements(stack)
    /\ stack' = Append(stack, m)
    /\ UNCHANGED <<manifests, config, phase, selected, ordered>>

\* Mutant of VisitCircular: the call recurses (the calls above m are forgotten here).
VisitForever(m) ==
    /\ phase = "order"
    /\ stack # <<>>
    /\ m \in Requires(Top) \cap Elements(stack)
    /\ stack' = SubSeq(stack, 1, CHOOSE i \in DOMAIN stack : stack[i] = m)
    /\ UNCHANGED <<manifests, config, phase, selected, ordered>>

\* Mutant of VisitCircular: one set of modules seen, instead of visiting and ordered.
VisitSeenTwice(m) ==
    /\ phase = "order"
    /\ stack # <<>>
    /\ m \in Requires(Top)
    /\ m \in Elements(stack) \cup Elements(ordered)
    /\ phase' = "circular"
    /\ UNCHANGED <<manifests, config, selected, stack, ordered>>

\* A requirement is being visited already.
VisitCircular(m) ==
    /\ phase = "order"
    /\ stack # <<>>
    /\ m \in Requires(Top) \cap Unordered
    /\ m \in Elements(stack)
    /\ phase' = "circular"
    /\ UNCHANGED <<manifests, config, selected, stack, ordered>>

\* Mutant of Return: the module is put before what it requires.
ReturnInFront ==
    /\ phase = "order"
    /\ stack # <<>>
    /\ Requires(Top) \cap Unordered = {}
    /\ ordered' = <<Top>> \o ordered
    /\ stack' = SubSeq(stack, 1, Len(stack) - 1)
    /\ UNCHANGED <<manifests, config, phase, selected>>

\* Every requirement of the module on top is ordered: so is the module.
Return ==
    /\ phase = "order"
    /\ stack # <<>>
    /\ Requires(Top) \cap Unordered = {}
    /\ ordered' = Append(ordered, Top)
    /\ stack' = SubSeq(stack, 1, Len(stack) - 1)
    /\ UNCHANGED <<manifests, config, phase, selected>>

Finish ==
    /\ phase = "order"
    /\ stack = <<>>
    /\ Unordered = {}
    /\ phase' = "resolved"
    /\ UNCHANGED <<manifests, config, selected, stack, ordered>>

Visit == \E m \in Modules : VisitNext(m) \/ VisitRequired(m) \/ VisitCircular(m)

Next == Select \/ CheckFails \/ CheckPasses \/ Visit \/ Return \/ Finish

\* A call of resolve runs to its end.
Spec == Init /\ [][Next]_vars /\ WF_vars(Next)

-------------------------------------------------------------------------------
\* Every variable has its type, and no module is on the stack or in the order twice.
TypeOK ==
    /\ manifests \in Catalogues
    /\ config \in Configs
    /\ phase \in {"select", "check", "order", "unmet", "circular", "resolved"}
    /\ selected \subseteq Modules
    /\ stack \in Seq(selected)
    /\ ordered \in Seq(selected)
    /\ \A i, j \in DOMAIN stack : stack[i] = stack[j] => i = j
    /\ \A i, j \in DOMAIN ordered : ordered[i] = ordered[j] => i = j

\* The order handed to the application boots exactly the modules the configuration
\* asks for, every requirement of each before the module itself.
OrderIsSound ==
    phase = "resolved" =>
       /\ Elements(ordered) = (manifests.default \cup config.enabled) \ config.disabled
       /\ \A j \in DOMAIN ordered :
             \A o \in manifests.packages[ordered[j]] \cup Owners(ordered[j]) :
                \E i \in 1..(j - 1) : ordered[i] = o

\* Some selected modules require each other in a circle: no order could exist.
HasCycle ==
    \E S \in SUBSET selected : S # {} /\ \A m \in S : Requires(m) \cap S # {}

\* The application is refused as circular only if no order of its modules exists.
RefusalHasCause == phase = "circular" => HasCycle

\* How far a start has come.
Effort ==
    CASE phase = "select" -> 0
      [] phase = "check"  -> 1
      [] phase = "order"  -> 2 + 2 * Len(ordered) + Len(stack)
      [] OTHER            -> 2 * N + 3

\* A start takes at most 2N + 3 steps, however the modules require each other: each
\* step brings it further, and there is no further than that.
EveryStepAdvances == [](Effort <= 2 * N + 3) /\ [][Effort < Effort']_vars

\* Every start is decided: the search never runs round a circle for ever.
Decided == <>(phase \in {"unmet", "circular", "resolved"})
===============================================================================
