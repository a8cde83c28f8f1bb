-------------------------- MODULE ModuleRegistryProofs --------------------------
(***************************************************************************)
(* Proofs about ModuleRegistry, for any number of modules and any manifests,*)
(* and about the state of the modules of app/Modules (ModuleState).        *)
(***************************************************************************)
EXTENDS ModuleRegistry, SequenceTheorems, FiniteSetTheorems, TLAPS

NoRepeat(s) == \A i, j \in DOMAIN s : s[i] = s[j] => i = j

\* What every module requires, as a value that no step of the search changes.
Need == [m \in Modules |-> Requires(m)]

\* The search has not begun.
Fresh == phase \in {"select", "check"} => stack = <<>> /\ ordered = <<>>

\* The selection is the configured one, and once it is checked all of it is met.
Chosen ==
    /\ phase # "select" => selected = (manifests.default \cup config.enabled) \ config.disabled
    /\ phase \in {"order", "circular", "resolved"} => \A m \in selected : Met(m)

\* Each call on the stack was made for a requirement of the call below it.
Chain == \A i \in 1..(Len(stack) - 1) : stack[i + 1] \in Need[stack[i]]

Apart == Elements(stack) \cap Elements(ordered) = {}

\* Every requirement of an ordered module is ordered before it.
Preceded ==
    \A j \in 1..Len(ordered) :
       \A o \in Need[ordered[j]] : \E i \in 1..(j - 1) : ordered[i] = o

Complete == phase = "resolved" => Elements(ordered) = selected

RegistryInv ==
    Fresh /\ Chosen /\ Chain /\ Apart /\ Preceded /\ Complete /\ RefusalHasCause

-------------------------------------------------------------------------------
\* The elements of a sequence are its values at the indices 1 to its length.
LEMMA ElementsByIndex ==
    ASSUME NEW S, NEW s \in Seq(S)
    PROVE  /\ DOMAIN s = 1..Len(s) /\ Len(s) \in Nat
           /\ Elements(s) = {s[i] : i \in 1..Len(s)}
           /\ Elements(s) \subseteq S
  <1>1. DOMAIN s = 1..Len(s) /\ Len(s) \in Nat /\ \A i \in 1..Len(s) : s[i] \in S
    BY LenProperties, ElementOfSeq
  <1> QED
    BY <1>1 DEF Elements

\* Pushing adds one element at the end and keeps a sequence free of repetition if the
\* element is new.
LEMMA PushFacts ==
    ASSUME NEW S, NEW s \in Seq(S), NEW e \in S
    PROVE  /\ Append(s, e) \in Seq(S)
           /\ Len(Append(s, e)) = Len(s) + 1
           /\ \A i \in 1..Len(s) : Append(s, e)[i] = s[i]
           /\ Append(s, e)[Len(s) + 1] = e
           /\ Elements(Append(s, e)) = Elements(s) \cup {e}
           /\ NoRepeat(s) /\ e \notin Elements(s) => NoRepeat(Append(s, e))
  <1> DEFINE t == Append(s, e)
  <1>1. /\ t \in Seq(S) /\ Len(t) = Len(s) + 1 /\ t[Len(s) + 1] = e
        /\ \A i \in 1..Len(s) : t[i] = s[i]
    BY AppendProperties
  <1>2. /\ Len(s) \in Nat /\ Elements(s) = {s[i] : i \in 1..Len(s)} /\ DOMAIN s = 1..Len(s)
        /\ Elements(t) = {t[i] : i \in 1..Len(t)} /\ DOMAIN t = 1..Len(t)
    BY <1>1, ElementsByIndex
  <1> HIDE DEF t
  <1>3. 1..Len(t) = (1..Len(s)) \cup {Len(s) + 1}
    BY <1>1, <1>2
  <1>4. Elements(t) = Elements(s) \cup {e}
    BY <1>1, <1>2, <1>3
  <1>5. ASSUME NoRepeat(s), e \notin Elements(s)
        PROVE  NoRepeat(t)
    <2>1. SUFFICES ASSUME NEW i \in 1..Len(t), NEW j \in 1..Len(t), t[i] = t[j]
                   PROVE  i = j
      BY <1>2 DEF NoRepeat
    <2>2. CASE i \in 1..Len(s) /\ j \in 1..Len(s)
      BY <2>1, <2>2, <1>1, <1>2, <1>5 DEF NoRepeat
    <2>3. CASE i = Len(s) + 1 /\ j \in 1..Len(s)
      BY <2>1, <2>3, <1>1, <1>2, <1>5
    <2>4. CASE j = Len(s) + 1 /\ i \in 1..Len(s)
      BY <2>1, <2>4, <1>1, <1>2, <1>5
    <2> QED
      BY <2>2, <2>3, <2>4, <1>3
  <1> QED
    BY <1>1, <1>4, <1>5 DEF t

\* Popping drops the last element, which does not occur in the rest of a sequence without
\* repetition.
LEMMA PopFacts ==
    ASSUME NEW S, NEW s \in Seq(S), s # <<>>
    PROVE  LET t == SubSeq(s, 1, Len(s) - 1)
           IN  /\ t \in Seq(S) /\ Len(t) = Len(s) - 1
               /\ \A i \in 1..Len(t) : t[i] = s[i]
               /\ s[Len(s)] \in Elements(s) /\ s[Len(s)] \in S
               /\ Elements(t) \subseteq Elements(s)
               /\ NoRepeat(s) => NoRepeat(t) /\ s[Len(s)] \notin Elements(t)
  <1> DEFINE t == SubSeq(s, 1, Len(s) - 1)
  <1>1. Len(s) \in Nat \ {0} /\ DOMAIN s = 1..Len(s) /\ Elements(s) = {s[i] : i \in 1..Len(s)}
    BY EmptySeq, ElementsByIndex
  <1>2. \A i \in 1..Len(s) : s[i] \in S
    BY ElementOfSeq
  <1> DEFINE n == Len(s) - 1
  <1>n. n \in Nat /\ n \in Int /\ 1 \in Int /\ n - 1 + 1 = n
    BY <1>1
  <1>3. /\ t \in Seq(S)
        /\ Len(t) = IF 1 <= n THEN n - 1 + 1 ELSE 0
        /\ \A i \in 1..(n - 1 + 1) : t[i] = s[1 + i - 1]
    <2>1. \A i \in 1..n : s[i] \in S
      BY <1>1, <1>2
    <2> HIDE DEF n
    <2> QED
      BY <2>1, <1>n, SubSeqProperties DEF n
  <1> HIDE DEF t
  <1>4. Len(t) = Len(s) - 1 /\ \A i \in 1..Len(t) : t[i] = s[i]
    <2>1. \A i \in 1..n : 1 + i - 1 = i
      BY <1>n
    <2> HIDE DEF n
    <2>2. Len(t) = n
      BY <1>3, <1>n
    <2>3. \A i \in 1..n : t[i] = s[i]
      BY <1>3, <1>n, <2>1
    <2> QED
      BY <2>2, <2>3 DEF n
  <1>e. Elements(t) = {t[i] : i \in 1..Len(t)} /\ DOMAIN t = 1..Len(t)
    <2>1. DOMAIN t = 1..Len(t)
      BY <1>3, LenProperties
    <2> QED
      BY <2>1 DEF Elements
  <1>5. Elements(t) \subseteq Elements(s)
    BY <1>1, <1>4, <1>e
  <1>6. NoRepeat(s) => NoRepeat(t) /\ s[Len(s)] \notin Elements(t)
    BY <1>1, <1>4, <1>e DEF NoRepeat
  <1> QED
    BY <1>1, <1>2, <1>3, <1>4, <1>5, <1>6 DEF t

-------------------------------------------------------------------------------
\* The empty sequence: it is typed over every set, has no elements and repeats none.
LEMMA EmptyFacts ==
    /\ \A S : <<>> \in Seq(S)
    /\ Len(<<>>) = 0 /\ DOMAIN <<>> = {} /\ Elements(<<>>) = {} /\ NoRepeat(<<>>)
  <1>1. \A S : <<>> \in Seq(S) /\ Len(<<>>) = 0
    BY EmptySeq
  <1>2. DOMAIN <<>> = 1..Len(<<>>)
    BY <1>1, LenProperties
  <1>3. DOMAIN <<>> = {}
    BY <1>1, <1>2
  <1> QED
    BY <1>1, <1>3 DEF Elements, NoRepeat

\* The top of a stack that is not empty.
LEMMA TopFacts ==
    ASSUME NEW S, NEW s \in Seq(S), s # <<>>
    PROVE  Len(s) \in Nat \ {0} /\ s[Len(s)] \in S
  <1>1. Len(s) \in Nat \ {0}
    BY EmptySeq, ElementsByIndex
  <1> QED
    BY <1>1, ElementOfSeq

\* TypeOK, conjunct by conjunct, with stack and order as sequences over the selected
\* modules.
LEMMA TypeByParts ==
    TypeOK <=>
       /\ manifests \in Catalogues /\ config \in Configs
       /\ phase \in {"select", "check", "order", "unmet", "circular", "resolved"}
       /\ selected \subseteq Modules
       /\ stack \in Seq(selected) /\ NoRepeat(stack)
       /\ ordered \in Seq(selected) /\ NoRepeat(ordered)
  BY DEF TypeOK, NoRepeat

\* The invariant holds before the start: nothing is on the stack and nothing is ordered.
LEMMA InitFacts == Init => TypeOK /\ RegistryInv
  <1> SUFFICES ASSUME Init
               PROVE  TypeOK /\ RegistryInv
    OBVIOUS
  <1>1. TypeOK
    BY EmptyFacts, TypeByParts DEF Init
  <1>2. Chain /\ Apart /\ Preceded
    BY EmptyFacts DEF Init, Chain, Apart, Preceded
  <1> QED
    BY <1>1, <1>2 DEF Init, RegistryInv, Fresh, Chosen, Complete, RefusalHasCause

\* While the search runs, what the modules require does not change.
LEMMA SameRequirements ==
    ASSUME UNCHANGED <<manifests, config, selected>>
    PROVE  /\ Need' = Need
           /\ \A m : Met(m)' = Met(m)
           /\ HasCycle' = HasCycle
  <1>1. \A m : Requires(m)' = Requires(m)
    BY DEF Requires, Owners
  <1>2. \A m : Met(m)' = Met(m)
    BY DEF Met
  <1>3. HasCycle' = HasCycle
    BY <1>1 DEF HasCycle
  <1>4. Need' = Need
    BY <1>1 DEF Need
  <1> QED
    BY <1>2, <1>3, <1>4

\* The requirements visit() follows are the manifest's, for a selected module.
LEMMA NeedIsRequires ==
    ASSUME selected \subseteq Modules, NEW m \in selected
    PROVE  Need[m] = Requires(m)
  BY DEF Need

\* The invariant speaks of the search alone: a step that leaves the search keeps it.
LEMMA SameSearch ==
    ASSUME RegistryInv, UNCHANGED <<manifests, config, selected, stack, ordered>>
    PROVE  Chain' /\ Apart' /\ Preceded'
  <1>1. Chain' /\ Preceded'
    BY SameRequirements DEF RegistryInv, Chain, Preceded
  <1>2. Apart'
    BY DEF RegistryInv, Apart, Elements
  <1> QED
    BY <1>1, <1>2

\* Choosing the modules to start comes before the search, which is still empty.
LEMMA SelectKeeps ==
    ASSUME TypeOK, RegistryInv, Select
    PROVE  TypeOK' /\ RegistryInv'
  <1>1. stack' = <<>> /\ ordered' = <<>> /\ phase' = "check"
    BY DEF Select, RegistryInv, Fresh
  <1>2. selected' \subseteq Modules
    BY CatalogueAssumption, TypeByParts DEF Select, Manifests
  <1>3. TypeOK'
    BY <1>1, <1>2, EmptyFacts, TypeByParts DEF Select, TypeOK, NoRepeat
  <1>4. Chain' /\ Apart' /\ Preceded'
    BY <1>1, EmptyFacts DEF Chain, Apart, Preceded
  <1>5. Fresh' /\ Chosen' /\ Complete' /\ RefusalHasCause'
    BY <1>1 DEF Select, Fresh, Chosen, Complete, RefusalHasCause
  <1> QED
    BY <1>3, <1>4, <1>5 DEF RegistryInv

\* The check of versions and presence, which fails or passes on, does not touch the
\* search.
LEMMA CheckKeeps ==
    ASSUME TypeOK, RegistryInv, CheckFails \/ CheckPasses
    PROVE  TypeOK' /\ RegistryInv'
  <1>1. /\ phase = "check" /\ phase' \in {"unmet", "order"}
        /\ phase' = "order" => \A m \in selected : Met(m)
        /\ UNCHANGED <<manifests, config, selected, stack, ordered>>
    BY DEF CheckFails, CheckPasses
  <1>2. TypeOK'
    BY <1>1 DEF TypeOK
  <1>3. Chain' /\ Apart' /\ Preceded'
    BY <1>1, SameSearch
  <1>4. Fresh' /\ Chosen' /\ Complete' /\ RefusalHasCause'
    BY <1>1, SameRequirements DEF RegistryInv, Fresh, Chosen, Complete, RefusalHasCause
  <1> QED
    BY <1>2, <1>3, <1>4 DEF RegistryInv

\* What every step of the search shares.
LEMMA SearchFacts ==
    ASSUME TypeOK, RegistryInv, phase = "order", phase' = "order",
           UNCHANGED <<manifests, config, selected>>
    PROVE  Fresh' /\ Chosen' /\ Complete' /\ RefusalHasCause'
  BY SameRequirements DEF RegistryInv, Fresh, Chosen, Complete, RefusalHasCause

\* A visit from the outer loop starts a stack of one module, which nobody needed.
LEMMA VisitNextKeeps ==
    ASSUME TypeOK, RegistryInv, NEW m \in Modules, VisitNext(m)
    PROVE  TypeOK' /\ RegistryInv'
  <1>1. /\ phase = "order" /\ phase' = "order" /\ stack = <<>> /\ stack' = <<m>>
        /\ m \in selected /\ m \notin Elements(ordered)
        /\ UNCHANGED <<manifests, config, selected, ordered>>
    BY DEF VisitNext, Unordered
  <1>2. /\ <<m>> \in Seq(selected) /\ Len(<<m>>) = 1
        /\ Elements(<<m>>) = {m} /\ NoRepeat(<<m>>)
    BY <1>1 DEF Elements, NoRepeat
  <1>3. TypeOK'
    BY <1>1, <1>2, TypeByParts DEF TypeOK, NoRepeat
  <1>4. Chain' /\ Apart'
    BY <1>1, <1>2 DEF Chain, Apart, Elements
  <1>5. Preceded'
    BY <1>1, SameRequirements DEF RegistryInv, Preceded
  <1> QED
    BY <1>1, <1>3, <1>4, <1>5, SearchFacts DEF RegistryInv

\* A visit for a requirement extends the chain by one link, to a module that is not on it.
LEMMA VisitRequiredKeeps ==
    ASSUME TypeOK, RegistryInv, NEW m \in Modules, VisitRequired(m)
    PROVE  TypeOK' /\ RegistryInv'
  <1>1. /\ phase = "order" /\ phase' = "order" /\ stack # <<>> /\ stack' = Append(stack, m)
        /\ m \in selected /\ m \notin Elements(ordered) /\ m \notin Elements(stack)
        /\ m \in Requires(stack[Len(stack)])
        /\ UNCHANGED <<manifests, config, selected, ordered>>
    BY DEF VisitRequired, Unordered, Top, Requires
  <1>2. /\ stack \in Seq(selected) /\ NoRepeat(stack) /\ Len(stack) \in Nat \ {0}
        /\ stack[Len(stack)] \in selected /\ selected \subseteq Modules
    BY <1>1, TypeByParts, TopFacts
  <1>t. m \in Need[stack[Len(stack)]]
    BY <1>1, <1>2, NeedIsRequires
  <1>3. /\ stack' \in Seq(selected) /\ NoRepeat(stack') /\ Len(stack') = Len(stack) + 1
        /\ \A i \in 1..Len(stack) : stack'[i] = stack[i]
        /\ stack'[Len(stack) + 1] = m
        /\ Elements(stack') = Elements(stack) \cup {m}
    BY <1>1, <1>2, PushFacts
  <1>4. TypeOK'
    BY <1>1, <1>3, TypeByParts DEF TypeOK, NoRepeat
  <1>5. Chain'
    <2>1. SUFFICES ASSUME NEW i \in 1..Len(stack)
                   PROVE  stack'[i + 1] \in Need'[stack'[i]]
      <3>1. Len(stack') - 1 = Len(stack)
        BY <1>2, <1>3
      <3> QED
        BY <3>1 DEF Chain
    <2>2. Need'[stack'[i]] = Need[stack[i]]
      BY <1>1, <1>3, SameRequirements
    <2>3. CASE i = Len(stack)
      BY <1>1, <1>3, <1>t, <2>2, <2>3
    <2>4. CASE i \in 1..(Len(stack) - 1)
      <3>1. stack'[i + 1] = stack[i + 1]
        BY <1>2, <1>3, <2>4
      <3> QED
        BY <2>2, <2>4, <3>1 DEF RegistryInv, Chain
    <2> QED
      BY <1>2, <2>3, <2>4
  <1>6. Apart'
    BY <1>1, <1>3 DEF RegistryInv, Apart, Elements
  <1>7. Preceded'
    BY <1>1, SameRequirements DEF RegistryInv, Preceded
  <1> QED
    BY <1>1, <1>4, <1>5, <1>6, <1>7, SearchFacts DEF RegistryInv

\* The part of the stack from m upwards is a circle of requirements.
LEMMA VisitCircularKeeps ==
    ASSUME TypeOK, RegistryInv, NEW m \in Modules, VisitCircular(m)
    PROVE  TypeOK' /\ RegistryInv'
  <1>1. /\ phase = "order" /\ phase' = "circular" /\ stack # <<>>
        /\ m \in Elements(stack) /\ m \in Requires(stack[Len(stack)])
        /\ UNCHANGED <<manifests, config, selected, stack, ordered>>
    BY DEF VisitCircular, Top
  <1>2. /\ selected \subseteq Modules /\ stack \in Seq(selected) /\ Len(stack) \in Nat
        /\ Elements(stack) = {stack[i] : i \in 1..Len(stack)}
        /\ \A i \in 1..Len(stack) : stack[i] \in selected
    BY TypeByParts, ElementsByIndex, ElementOfSeq
  <1>3. HasCycle
    <2>1. PICK k \in 1..Len(stack) : stack[k] = m
      BY <1>1, <1>2
    <2> DEFINE S == {stack[i] : i \in k..Len(stack)}
    <2>2. S \in SUBSET selected /\ m \in S
      BY <1>2, <2>1
    <2>3. ASSUME NEW x \in S
          PROVE  Requires(x) \cap S # {}
      <3>1. PICK i \in k..Len(stack) : x = stack[i]
        OBVIOUS
      <3>n. Need[x] = Requires(x)
        BY <1>2, <2>2, NeedIsRequires
      <3>2. CASE i = Len(stack)
        BY <1>1, <2>2, <3>1, <3>2
      <3>3. CASE i # Len(stack)
        <4>1. i \in 1..(Len(stack) - 1) /\ i + 1 \in k..Len(stack)
          BY <1>2, <2>1, <3>3
        <4>2. stack[i + 1] \in Requires(x) /\ stack[i + 1] \in S
          BY <3>1, <3>n, <4>1 DEF RegistryInv, Chain
        <4> QED
          BY <4>2
      <3> QED
        BY <3>2, <3>3
    <2> HIDE DEF S
    <2> QED
      BY <2>2, <2>3 DEF HasCycle
  <1>4. TypeOK'
    BY <1>1 DEF TypeOK
  <1>5. Chain' /\ Apart' /\ Preceded'
    BY <1>1, SameSearch
  <1>6. Fresh' /\ Chosen' /\ Complete' /\ RefusalHasCause'
    BY <1>1, <1>3, SameRequirements DEF RegistryInv, Fresh, Chosen, Complete, RefusalHasCause
  <1> QED
    BY <1>4, <1>5, <1>6 DEF RegistryInv

\* Returning moves the top to the order: its requirements were all visited, so they come
\* before it.
LEMMA ReturnKeeps ==
    ASSUME TypeOK, RegistryInv, Return
    PROVE  TypeOK' /\ RegistryInv'
  <1> DEFINE n == stack[Len(stack)]
  <1>1. /\ phase = "order" /\ phase' = "order" /\ stack # <<>>
        /\ stack' = SubSeq(stack, 1, Len(stack) - 1) /\ ordered' = Append(ordered, n)
        /\ Requires(n) \subseteq Elements(ordered)
        /\ UNCHANGED <<manifests, config, selected>>
    BY DEF Return, Unordered, Top, Requires
  <1>2. /\ selected \subseteq Modules
        /\ stack \in Seq(selected) /\ NoRepeat(stack) /\ ordered \in Seq(selected)
        /\ NoRepeat(ordered) /\ Len(stack) \in Nat /\ Len(ordered) \in Nat
        /\ Elements(ordered) = {ordered[i] : i \in 1..Len(ordered)}
    BY TypeByParts, ElementsByIndex
  <1>3. /\ stack' \in Seq(selected) /\ Len(stack') = Len(stack) - 1 /\ NoRepeat(stack')
        /\ \A i \in 1..Len(stack') : stack'[i] = stack[i]
        /\ n \in Elements(stack) /\ n \in selected
        /\ Elements(stack') \subseteq Elements(stack) /\ n \notin Elements(stack')
    BY <1>1, <1>2, PopFacts
  <1>4. n \notin Elements(ordered)
    BY <1>3 DEF RegistryInv, Apart
  <1>5. /\ ordered' \in Seq(selected) /\ NoRepeat(ordered') /\ Len(ordered') = Len(ordered) + 1
        /\ \A i \in 1..Len(ordered) : ordered'[i] = ordered[i]
        /\ ordered'[Len(ordered) + 1] = n
        /\ Elements(ordered') = Elements(ordered) \cup {n}
    <2> HIDE DEF n
    <2> QED
      BY <1>1, <1>2, <1>3, <1>4, PushFacts
  <1> HIDE DEF n
  <1>6. TypeOK'
    BY <1>1, <1>3, <1>5, TypeByParts DEF TypeOK, NoRepeat
  <1>7. Chain'
    <2>1. SUFFICES ASSUME NEW i \in 1..(Len(stack) - 2)
                   PROVE  stack'[i + 1] \in Need'[stack'[i]]
      <3>1. Len(stack') - 1 = Len(stack) - 2
        BY <1>2, <1>3
      <3> QED
        BY <3>1 DEF Chain
    <2>2. /\ i \in 1..(Len(stack) - 1)
          /\ stack'[i] = stack[i] /\ stack'[i + 1] = stack[i + 1]
      BY <1>2, <1>3
    <2>3. Need'[stack'[i]] = Need[stack[i]]
      BY <1>1, <2>2, SameRequirements
    <2> QED
      BY <2>2, <2>3 DEF RegistryInv, Chain
  <1>8. Apart'
    BY <1>3, <1>5 DEF RegistryInv, Apart, Elements
  <1>9. Preceded'
    <2>1. SUFFICES ASSUME NEW j \in 1..(Len(ordered) + 1), NEW o \in Need'[ordered'[j]]
                   PROVE  \E i \in 1..(j - 1) : ordered'[i] = o
      BY <1>5 DEF Preceded
    <2>2. CASE j \in 1..Len(ordered)
      <3>1. o \in Need[ordered[j]]
        BY <1>1, <1>5, <2>2, SameRequirements
      <3>2. PICK i \in 1..(j - 1) : ordered[i] = o
        BY <2>2, <3>1 DEF RegistryInv, Preceded
      <3> QED
        BY <1>2, <1>5, <2>2, <3>2
    <2>3. CASE j = Len(ordered) + 1
      <3>1. o \in Requires(n)
        BY <1>1, <1>2, <1>3, <1>5, <2>3, SameRequirements, NeedIsRequires
      <3>2. PICK i \in 1..Len(ordered) : ordered[i] = o
        BY <1>1, <1>2, <3>1
      <3> QED
        BY <1>2, <1>5, <2>3, <3>2
    <2> QED
      BY <1>2, <2>2, <2>3
  <1> QED
    BY <1>1, <1>6, <1>7, <1>8, <1>9, SearchFacts DEF RegistryInv

\* The end of the outer loop changes neither stack nor order.
LEMMA FinishKeeps ==
    ASSUME TypeOK, RegistryInv, Finish
    PROVE  TypeOK' /\ RegistryInv'
  <1>1. /\ phase = "order" /\ phase' = "resolved" /\ selected \subseteq Elements(ordered)
        /\ UNCHANGED <<manifests, config, selected, stack, ordered>>
    BY DEF Finish, Unordered
  <1>2. Elements(ordered) \subseteq selected
    BY TypeByParts, ElementsByIndex
  <1>3. TypeOK'
    BY <1>1 DEF TypeOK
  <1>4. Chain' /\ Apart' /\ Preceded'
    BY <1>1, SameSearch
  <1>5. Fresh' /\ Chosen' /\ Complete' /\ RefusalHasCause'
    BY <1>1, <1>2, SameRequirements
       DEF RegistryInv, Fresh, Chosen, Complete, RefusalHasCause, Elements
  <1> QED
    BY <1>3, <1>4, <1>5 DEF RegistryInv

\* A stuttering step changes nothing the invariant reads.
LEMMA StutterKeeps ==
    ASSUME TypeOK, RegistryInv, UNCHANGED vars
    PROVE  TypeOK' /\ RegistryInv'
  <1>1. UNCHANGED <<manifests, config, phase, selected, stack, ordered>>
    BY DEF vars
  <1>2. TypeOK'
    BY <1>1 DEF TypeOK
  <1>3. Chain' /\ Apart' /\ Preceded'
    BY <1>1, SameSearch
  <1>4. Fresh' /\ Chosen' /\ RefusalHasCause'
    BY <1>1, SameRequirements DEF RegistryInv, Fresh, Chosen, RefusalHasCause
  <1>5. Complete'
    BY <1>1 DEF RegistryInv, Complete, Elements
  <1> QED
    BY <1>2, <1>3, <1>4, <1>5 DEF RegistryInv

\* Every step of the start keeps type and invariant: the lemmas above, action by action.
LEMMA StepFacts == TypeOK /\ RegistryInv /\ [Next]_vars => TypeOK' /\ RegistryInv'
  <1> SUFFICES ASSUME TypeOK, RegistryInv, [Next]_vars
               PROVE  TypeOK' /\ RegistryInv'
    OBVIOUS
  <1>1. CASE Select
    BY <1>1, SelectKeeps
  <1>2. CASE CheckFails \/ CheckPasses
    BY <1>2, CheckKeeps
  <1>3. CASE Visit
    BY <1>3, VisitNextKeeps, VisitRequiredKeeps, VisitCircularKeeps DEF Visit
  <1>4. CASE Return
    BY <1>4, ReturnKeeps
  <1>5. CASE Finish
    BY <1>5, FinishKeeps
  <1>6. CASE UNCHANGED vars
    BY <1>6, StutterKeeps
  <1> QED
    BY <1>1, <1>2, <1>3, <1>4, <1>5, <1>6 DEF Next

\* Type and invariant hold throughout.
LEMMA Invariance == Spec => [](TypeOK /\ RegistryInv)
  BY InitFacts, StepFacts, PTL DEF Spec

-------------------------------------------------------------------------------
\* Type correctness: no module is on the stack or in the order twice, so the depth
\* of the search is bounded by the modules.
THEOREM TypeCorrect == Spec => []TypeOK
  BY Invariance, PTL

\* A resolved order boots exactly the configured modules, each after everything it
\* requires by package or by capability.
THEOREM OrdersAreSound == Spec => []OrderIsSound
  <1>1. TypeOK /\ RegistryInv => OrderIsSound
    <2> SUFFICES ASSUME TypeOK, RegistryInv, phase = "resolved"
                 PROVE  OrderIsSound
      BY DEF OrderIsSound
    <2>1. /\ selected = (manifests.default \cup config.enabled) \ config.disabled
          /\ \A m \in selected : Met(m)
          /\ Elements(ordered) = selected
      BY DEF RegistryInv, Chosen, Complete
    <2>2. /\ DOMAIN ordered = 1..Len(ordered)
          /\ \A j \in 1..Len(ordered) : ordered[j] \in selected
      BY TypeByParts, ElementsByIndex, ElementOfSeq
    <2>3. \A m \in selected : manifests.packages[m] \cup Owners(m) = Requires(m)
      BY <2>1 DEF Met, Owners, Requires
    <2>4. selected \subseteq Modules
      BY TypeByParts
    <2>5. ASSUME NEW j \in 1..Len(ordered),
                 NEW o \in manifests.packages[ordered[j]] \cup Owners(ordered[j])
          PROVE  \E i \in 1..(j - 1) : ordered[i] = o
      <3>1. o \in Need[ordered[j]]
        BY <2>2, <2>3, <2>4, NeedIsRequires
      <3> QED
        BY <3>1 DEF RegistryInv, Preceded
    <2> QED
      BY <2>1, <2>2, <2>5 DEF OrderIsSound
  <1> QED
    BY <1>1, Invariance, PTL

\* The application is refused as circular only when no order of its modules exists.
THEOREM RefusalsHaveCause == Spec => []RefusalHasCause
  <1>1. TypeOK /\ RegistryInv => RefusalHasCause
    BY DEF RegistryInv
  <1> QED
    BY <1>1, Invariance, PTL

\* Stack and order share no module and repeat none, so together they are no longer than
\* the list of modules.
LEMMA SearchFits ==
    ASSUME TypeOK, RegistryInv
    PROVE  /\ Len(stack) \in Nat /\ Len(ordered) \in Nat
           /\ Len(stack) + Len(ordered) <= N
  <1> DEFINE a == Len(stack)
             b == Len(ordered)
             f == [i \in 1..(a + b) |-> IF i <= a THEN stack[i] ELSE ordered[i - a]]
  <1>1. /\ a \in Nat /\ b \in Nat
        /\ DOMAIN stack = 1..a /\ DOMAIN ordered = 1..b
        /\ Elements(stack) = {stack[i] : i \in 1..a}
        /\ Elements(ordered) = {ordered[i] : i \in 1..b}
        /\ Elements(stack) \subseteq 1..N /\ Elements(ordered) \subseteq 1..N
        /\ NoRepeat(stack) /\ NoRepeat(ordered)
    BY TypeByParts, ElementsByIndex DEF Modules
  <1>2. \A i \in 1..a, j \in 1..b : stack[i] # ordered[j]
    BY <1>1 DEF RegistryInv, Apart
  <1> HIDE DEF a, b
  <1>3. \A i \in 1..(a + b) : (i <= a /\ i \in 1..a) \/ (~(i <= a) /\ i - a \in 1..b)
    <2> SUFFICES ASSUME NEW i \in 1..(a + b)
                 PROVE  (i <= a /\ i \in 1..a) \/ (~(i <= a) /\ i - a \in 1..b)
      OBVIOUS
    <2>1. a \in Int /\ b \in Int /\ i \in Int /\ 1 <= i /\ i <= a + b
      BY <1>1
    <2> QED
      BY <2>1
  <1>4. f \in [1..(a + b) -> 1..N]
    BY <1>1, <1>3
  <1>5. ASSUME NEW i \in 1..(a + b), NEW j \in 1..(a + b), i # j
        PROVE  f[i] # f[j]
    <2>1. CASE i <= a /\ j <= a
      BY <1>1, <1>3, <1>5, <2>1 DEF NoRepeat
    <2>2. CASE ~(i <= a) /\ ~(j <= a)
      <3>1. i - a # j - a
        BY <1>1, <1>5
      <3> QED
        BY <1>1, <1>3, <2>2, <3>1 DEF NoRepeat
    <2>3. CASE i <= a /\ ~(j <= a)
      BY <1>2, <1>3, <2>3
    <2>4. CASE ~(i <= a) /\ j <= a
      BY <1>2, <1>3, <2>4
    <2> QED
      BY <2>1, <2>2, <2>3, <2>4
  <1> HIDE DEF f
  <1>6. /\ IsFiniteSet(1..(a + b)) /\ Cardinality(1..(a + b)) = a + b
        /\ IsFiniteSet(1..N) /\ Cardinality(1..N) = N
    <2>1. ASSUME NEW n \in Nat
          PROVE  IsFiniteSet(1..n) /\ Cardinality(1..n) = n
      BY FS_Interval
    <2>2. a + b \in Nat
      BY <1>1
    <2> QED
      BY <2>1, <2>2, NAssumption
  <1>7. ~(N < a + b)
    BY <1>4, <1>5, <1>6, FS_PigeonHole
  <1> QED
    BY <1>1, <1>7, NAssumption DEF a, b

\* Every start is decided within 2N + 3 steps: a visit lengthens the stack by one, a return
\* shortens it by one and lengthens the order, which counts twice, and both stay within N.
THEOREM SearchIsBounded == Spec => EveryStepAdvances
  <1>1. TypeOK /\ RegistryInv => Effort <= 2 * N + 3
    BY SearchFits, NAssumption DEF Effort
  <1>2. TypeOK /\ RegistryInv /\ [Next]_vars => [Effort < Effort']_vars
    <2> SUFFICES ASSUME TypeOK, RegistryInv, Next
                 PROVE  Effort < Effort'
      BY DEF vars
    <2>1. /\ Len(stack) \in Nat /\ Len(ordered) \in Nat
          /\ Len(stack) + Len(ordered) <= N
      BY SearchFits
    <2>2. CASE Select
      BY <2>2 DEF Select, Effort
    <2>3. CASE CheckFails \/ CheckPasses
      <3>1. phase = "check" /\ phase' \in {"unmet", "order"} /\ UNCHANGED <<stack, ordered>>
        BY <2>3 DEF CheckFails, CheckPasses
      <3> QED
        BY <2>1, <3>1, NAssumption DEF Effort
    <2>4. ASSUME NEW m \in Modules, VisitNext(m) \/ VisitRequired(m)
          PROVE  Effort < Effort'
      <3>1. phase = "order" /\ phase' = "order" /\ UNCHANGED <<selected, ordered>>
        BY <2>4 DEF VisitNext, VisitRequired
      <3>2. Len(stack') = Len(stack) + 1
        <4>1. CASE VisitNext(m)
          BY <4>1, EmptyFacts DEF VisitNext
        <4>2. CASE VisitRequired(m)
          <5>1. m \in selected /\ stack' = Append(stack, m)
            BY <4>2 DEF VisitRequired, Unordered
          <5> QED
            BY <5>1, TypeByParts, PushFacts
        <4> QED
          BY <2>4, <4>1, <4>2
      <3> QED
        BY <2>1, <3>1, <3>2 DEF Effort
    <2>5. ASSUME NEW m \in Modules, VisitCircular(m)
          PROVE  Effort < Effort'
      <3>1. phase = "order" /\ phase' = "circular"
        BY <2>5 DEF VisitCircular
      <3> QED
        BY <2>1, <3>1, NAssumption DEF Effort
    <2>6. CASE Return
      <3>1. /\ phase = "order" /\ phase' = "order" /\ stack # <<>>
            /\ stack' = SubSeq(stack, 1, Len(stack) - 1) /\ ordered' = Append(ordered, Top)
        BY <2>6 DEF Return
      <3>2. Len(stack') = Len(stack) - 1 /\ Top \in selected
        BY <3>1, TypeByParts, PopFacts DEF Top
      <3>3. Len(ordered') = Len(ordered) + 1
        BY <3>1, <3>2, TypeByParts, PushFacts
      <3>4. Effort = 2 + 2 * Len(ordered) + Len(stack)
        BY <3>1 DEF Effort
      <3>5. Effort' = 2 + 2 * Len(ordered') + Len(stack')
        BY <3>1 DEF Effort
      <3> QED
        BY <2>1, <3>2, <3>3, <3>4, <3>5
    <2>7. CASE Finish
      <3>1. phase = "order" /\ phase' = "resolved"
        BY <2>7 DEF Finish
      <3> QED
        BY <2>1, <3>1, NAssumption DEF Effort
    <2> QED
      BY <2>2, <2>3, <2>4, <2>5, <2>6, <2>7 DEF Next, Visit
  <1> QED
    BY <1>1, <1>2, Invariance, PTL DEF Spec, EveryStepAdvances

-------------------------------------------------------------------------------
(***************************************************************************)
(* The in-app modules of app/Modules (ModuleState), under an instance of   *)
(* their own: both parts decide which modules of the application run.      *)
(***************************************************************************)
CONSTANTS AppModules, DependsOn, Defaults, Processes, None

VARIABLES db, dbUp, cache, pc, op, todo, blocked, fill, serial, orphans

State == INSTANCE ModuleState WITH Modules <- AppModules

Fill == [module: AppModules, value: BOOLEAN]

\* Every variable has its type, an operation is known while a process runs it, and a
\* pending fill belongs to a process between the two halves of remember().
StateTypes ==
    /\ db \in [AppModules -> BOOLEAN \cup {None}]
    /\ cache \in [AppModules -> State!Entry \cup {None}]
    /\ pc \in [Processes -> {"idle", "checking", "filling", "forgetting"}]
    /\ op \in [Processes -> State!Ops \cup {None}]
    /\ todo \in [Processes -> SUBSET AppModules]
    /\ blocked \in [Processes -> BOOLEAN]
    /\ fill \in [Processes -> Fill \cup {None}]
    /\ \A p \in Processes : /\ pc[p] # "idle" => op[p] \in State!Ops
                            /\ pc[p] = "filling" => fill[p] \in Fill
                            /\ pc[p] # "filling" => fill[p] = None

\* What process p has learned so far is what the table says.
Learned(p) ==
    pc[p] \in {"checking", "filling"} =>
        \A m \in State!ToCheck(op[p]) \ todo[p] : State!InTheWay(op[p], m,
           State!Enabled(m)) => blocked[p]

FillIsTrue(p) == pc[p] = "filling" => fill[p].value = State!Enabled(fill[p].module)

\* The strengthening that makes SerialUseIsSafe inductive: while no two processes
\* have overlapped, the one that runs has seen the states it acts upon, and nobody
\* has changed them since.
SerialInv ==
    serial =>
        /\ dbUp
        /\ \A p, q \in Processes : pc[p] # "idle" /\ pc[q] # "idle" => p = q
        /\ \A p \in Processes : Learned(p) /\ FillIsTrue(p)
        /\ State!DependenciesEnabled
        /\ State!Coherent

\* What an operation asks for, and the answers it may get.
LEMMA StateFacts ==
    ASSUME State!DependenciesAreModules, StateTypes
    PROVE  /\ \A m \in AppModules : State!Enabled(m) \in BOOLEAN
           /\ \A m \in AppModules : State!Resolved(m) \in BOOLEAN
           /\ \A p \in Processes : pc[p] # "idle" =>
                 /\ op[p].module \in AppModules /\ op[p].kind \in {"enable", "disable", "look"}
                 /\ State!ToCheck(op[p]) \in SUBSET AppModules
  <1>1. \A m \in AppModules : State!Default(m) \in BOOLEAN /\ State!Enabled(m) \in BOOLEAN
    BY DEF StateTypes, State!Enabled, State!Default
  <1>2. \A m \in AppModules : State!Resolved(m) \in BOOLEAN
    BY <1>1 DEF State!Resolved
  <1>3. ASSUME NEW p \in Processes, pc[p] # "idle"
        PROVE  /\ op[p].module \in AppModules /\ op[p].kind \in {"enable", "disable", "look"}
               /\ State!ToCheck(op[p]) \in SUBSET AppModules
    <2>1. op[p] \in State!Ops
      BY <1>3 DEF StateTypes
    <2>2. op[p].module \in AppModules /\ op[p].kind \in {"enable", "disable", "look"}
      BY <2>1 DEF State!Ops
    <2>3. State!ToCheck(op[p]) \in SUBSET AppModules
      BY <2>2 DEF State!DependenciesAreModules, State!ToCheck
    <2>4. QED
      BY <2>2, <2>3
  <1>4. QED
    BY <1>1, <1>2, <1>3

\* Every step keeps the types.
LEMMA StateTypesStep ==
    ASSUME State!DependenciesAreModules, StateTypes, [State!Next]_(State!vars)
    PROVE  StateTypes'
  <1> USE DEF StateTypes
  <1>1. CASE UNCHANGED State!vars
    BY <1>1 DEF State!vars
  <1>2. ASSUME NEW p \in Processes, NEW o \in State!Ops, State!Start(p, o)
        PROVE  StateTypes'
    <2>1. State!ToCheck(o) \in SUBSET AppModules
      BY DEF State!DependenciesAreModules, State!ToCheck, State!Ops
    <2>2. QED
      BY <1>2, <2>1 DEF State!Start
  <1>3. ASSUME NEW p \in Processes, NEW m \in AppModules, State!CheckHit(p, m)
        PROVE  StateTypes'
    <2>1. State!InTheWay(op[p], m, cache[m].value) \in BOOLEAN
      BY DEF State!InTheWay
    <2>2. QED
      BY <1>3, <2>1 DEF State!CheckHit, State!Learn, State!Asks
  <1>4. ASSUME NEW p \in Processes, NEW m \in AppModules, State!CheckMiss(p, m)
        PROVE  StateTypes'
    <2>1. [module |-> m, value |-> State!Resolved(m)] \in Fill
      BY StateFacts DEF Fill
    <2>2. QED
      BY <1>4, <2>1 DEF State!CheckMiss, State!Asks
  <1>5. ASSUME NEW p \in Processes, State!CheckFill(p)
        PROVE  StateTypes'
    <2>1. fill[p].module \in AppModules /\ fill[p].value \in BOOLEAN
      BY <1>5 DEF State!CheckFill, Fill
    <2>2. State!InTheWay(op[p], fill[p].module, fill[p].value) \in BOOLEAN
      BY DEF State!InTheWay
    <2>3. [value |-> fill[p].value, forever |-> FALSE] \in State!Entry
      BY <2>1 DEF State!Entry
    <2>4. QED
      BY <1>5, <2>1, <2>2, <2>3 DEF State!CheckFill, State!Learn
  <1>6. ASSUME NEW p \in Processes, State!Stop(p)
        PROVE  StateTypes'
    BY <1>6 DEF State!Stop
  <1>7. ASSUME NEW p \in Processes, State!Persist(p)
        PROVE  StateTypes'
    BY <1>7, StateFacts DEF State!Persist, State!MayChange
  <1>8. ASSUME NEW p \in Processes, State!PersistInCache(p)
        PROVE  StateTypes'
    BY <1>8, StateFacts DEF State!PersistInCache, State!MayChange, State!Entry
  <1>9. ASSUME NEW p \in Processes, State!Forget(p)
        PROVE  StateTypes'
    BY <1>9 DEF State!Forget
  <1>10. ASSUME NEW m \in AppModules, State!Expire(m)
         PROVE  StateTypes'
    BY <1>10 DEF State!Expire
  <1>11. CASE State!DbSwitch
    BY <1>11 DEF State!DbSwitch
  <1>12. ASSUME NEW p \in Processes, State!Die(p)
         PROVE  StateTypes'
    BY <1>12 DEF State!Die
  <1>13. QED
    BY <1>1, <1>2, <1>3, <1>4, <1>5, <1>6, <1>7, <1>8, <1>9, <1>10, <1>11, <1>12
    DEF State!Next, State!Continue

\* Asking for one more module keeps what is learned true.
LEMMA LearnKeeps ==
    ASSUME State!DependenciesAreModules, StateTypes,
           NEW p \in Processes, pc[p] \in {"checking", "filling"}, Learned(p),
           NEW m \in AppModules, NEW value, value = State!Enabled(m), State!Learn(p, m, value),
           UNCHANGED <<op, db>>
    PROVE  Learned(p)'
  <1>1. /\ todo'[p] = todo[p] \ {m}
        /\ blocked'[p] = (blocked[p] \/ State!InTheWay(op[p], m, State!Enabled(m)))
    BY DEF State!Learn, StateTypes
  <1>2. \A n \in AppModules : State!Enabled(n)' = State!Enabled(n)
    BY DEF State!Enabled
  <1>3. \A n \in State!ToCheck(op[p]) : n \in AppModules
    BY StateFacts
  <1>4. QED
    BY <1>1, <1>2, <1>3 DEF Learned, State!InTheWay

\* Every step of the one process that runs keeps what it has seen true.
LEMMA SerialStep ==
    ASSUME State!DependenciesAreModules, State!NoneIsNoState,
           StateTypes, SerialInv, [State!Next]_(State!vars)
    PROVE  SerialInv'
  <1> SUFFICES ASSUME serial'
               PROVE  /\ dbUp'
                      /\ \A p, q \in Processes : pc'[p] # "idle" /\ pc'[q] # "idle" => p = q
                      /\ \A p \in Processes : Learned(p)' /\ FillIsTrue(p)'
                      /\ State!DependenciesEnabled'
                      /\ State!Coherent'
    BY DEF SerialInv
  <1> DEFINE Goal == /\ dbUp'
                     /\ \A p, q \in Processes : pc'[p] # "idle" /\ pc'[q] # "idle" => p = q
                     /\ \A p \in Processes : Learned(p)' /\ FillIsTrue(p)'
                     /\ State!DependenciesEnabled'
                     /\ State!Coherent'
  <1>1. serial /\ UNCHANGED dbUp /\ dbUp
    BY DEF SerialInv, State!Next, State!Continue, State!Start, State!CheckHit,
       State!CheckMiss, State!CheckFill, State!Stop, State!Persist, State!PersistInCache,
          State!Forget, State!Expire, State!DbSwitch, State!Die, State!vars
  <1>2. /\ \A p, q \in Processes : pc[p] # "idle" /\ pc[q] # "idle" => p = q
        /\ \A p \in Processes : Learned(p) /\ FillIsTrue(p)
        /\ State!DependenciesEnabled /\ State!Coherent
    BY <1>1 DEF SerialInv
  <1>3. ASSUME UNCHANGED db
        PROVE  /\ State!DependenciesEnabled'
               /\ \A m \in AppModules : State!Enabled(m)' = State!Enabled(m)
    BY <1>2, <1>3 DEF State!DependenciesEnabled, State!Enabled
  <1>4. CASE UNCHANGED State!vars
    BY <1>1, <1>2, <1>3, <1>4 DEF State!vars, Learned, FillIsTrue, State!ToCheck,
       State!InTheWay, State!Coherent, State!CoherentOn, State!Settled, State!Enabled
  <1>5. ASSUME NEW p \in Processes, NEW o \in State!Ops, State!Start(p, o)
        PROVE  Goal
    <2>1. \A q \in Processes : pc[q] = "idle"
      BY <1>5 DEF State!Start
    <2>2. /\ pc' = [pc EXCEPT ![p] = "checking"] /\ op' = [op EXCEPT ![p] = o]
          /\ todo' = [todo EXCEPT ![p] = State!ToCheck(o)]
          /\ UNCHANGED <<db, cache, fill>>
      BY <1>5 DEF State!Start
    <2>3. \A q \in Processes : q # p => pc'[q] = "idle"
      BY <2>1, <2>2 DEF StateTypes
    <2>4. \A q \in Processes : Learned(q)' /\ FillIsTrue(q)'
      BY <2>2, <2>3 DEF Learned, FillIsTrue, StateTypes
    <2>5. State!Coherent'
      BY <1>2, <1>3, <2>1, <2>2, <2>3 DEF State!Coherent, State!CoherentOn, State!Settled, StateTypes
    <2>6. QED
      BY <1>1, <1>3, <2>2, <2>3, <2>4, <2>5
  <1>6. ASSUME NEW p \in Processes, pc[p] # "idle", UNCHANGED <<db, op>>,
               \A q \in Processes \ {p} : pc'[q] = pc[q],
               Learned(p)', FillIsTrue(p)', State!Coherent'
        PROVE  Goal
    <2>1. \A q \in Processes \ {p} : pc'[q] = "idle"
      BY <1>2, <1>6
    <2>2. \A q \in Processes : Learned(q)' /\ FillIsTrue(q)'
      BY <1>6, <2>1 DEF Learned, FillIsTrue
    <2>3. QED
      BY <1>1, <1>3, <1>6, <2>1, <2>2
  <1>7. ASSUME NEW p \in Processes, NEW m \in AppModules, State!CheckHit(p, m)
        PROVE  Goal
    <2>1. /\ pc[p] = "checking" /\ cache[m] # None /\ State!Learn(p, m, cache[m].value)
          /\ UNCHANGED <<db, cache, pc, op, fill>>
      BY <1>7 DEF State!CheckHit, State!Asks
    <2>2. State!Settled(m)
      BY <1>2, <2>1 DEF State!Settled
    <2>3. cache[m].value = State!Enabled(m)
      BY <1>2, <2>1, <2>2 DEF State!Coherent, State!CoherentOn
    <2>4. Learned(p)' /\ FillIsTrue(p)'
      BY <1>2, <2>1, <2>3, LearnKeeps DEF FillIsTrue
    <2>5. State!Coherent'
      BY <1>2, <1>3, <2>1 DEF State!Coherent, State!CoherentOn, State!Settled, StateTypes, Fill, State!Enabled
    <2>6. QED
      BY <1>6, <2>1, <2>4, <2>5
  <1>8. ASSUME NEW p \in Processes, NEW m \in AppModules, State!CheckMiss(p, m)
        PROVE  Goal
    <2>1. /\ pc[p] = "checking" /\ pc' = [pc EXCEPT ![p] = "filling"]
          /\ fill' = [fill EXCEPT ![p] = [module |-> m, value |-> State!Resolved(m)]]
          /\ UNCHANGED <<db, cache, op, todo, blocked>>
      BY <1>8 DEF State!CheckMiss, State!Asks
    <2>2. State!Resolved(m) = State!Enabled(m)
      BY <1>1 DEF State!Resolved
    <2>3. Learned(p)'
      BY <1>2, <1>3, <2>1 DEF Learned, StateTypes, State!InTheWay, State!Enabled
    <2>4. fill'[p].value = State!Enabled(m) /\ fill'[p].module = m /\ FillIsTrue(p)'
      BY <1>3, <2>1, <2>2 DEF StateTypes, FillIsTrue
    <2>5. \A q \in Processes \ {p} : fill'[q] = fill[q] /\ pc'[q] = pc[q]
      BY <2>1 DEF StateTypes
    <2>6. State!Coherent'
      <3>1. \A n \in AppModules : State!Settled(n)' => State!Settled(n)
        BY <2>1, <2>5 DEF State!Settled, StateTypes
      <3>2. (\A q \in Processes : fill[q] # None => fill[q].value = State!Enabled(fill[q].module))'
        BY <1>2, <2>1, <2>4, <2>5 DEF State!Coherent, State!CoherentOn, State!Enabled
      <3>3. QED
        BY <1>2, <1>3, <2>1, <3>1, <3>2 DEF State!Coherent, State!CoherentOn
    <2>7. QED
      BY <1>6, <2>1, <2>3, <2>4, <2>5, <2>6
  <1>9. ASSUME NEW p \in Processes, State!CheckFill(p)
        PROVE  Goal
    <2> DEFINE m == fill[p].module
    <2>1. /\ pc[p] = "filling" /\ pc' = [pc EXCEPT ![p] = "checking"]
          /\ cache' = [cache EXCEPT ![m] = [value |-> fill[p].value, forever |-> FALSE]]
          /\ State!Learn(p, m, fill[p].value) /\ fill' = [fill EXCEPT ![p] = None]
          /\ UNCHANGED <<db, op>>
      BY <1>9 DEF State!CheckFill
    <2>2. m \in AppModules /\ fill[p].value = State!Enabled(m)
      BY <1>2, <2>1 DEF StateTypes, Fill, FillIsTrue
    <2>3. Learned(p)' /\ FillIsTrue(p)'
      BY <1>2, <2>1, <2>2, LearnKeeps DEF FillIsTrue, StateTypes
    <2>4. \A q \in Processes \ {p} : fill'[q] = fill[q] /\ pc'[q] = pc[q]
      BY <2>1 DEF StateTypes
    <2>5. PICK n \in AppModules : n = m
      BY <2>2
    <2>6. /\ cache'[n].value = State!Enabled(n) /\ fill'[p] = None
          /\ \A k \in AppModules \ {n} : cache'[k] = cache[k]
      BY <2>1, <2>2, <2>5 DEF StateTypes
    <2>7. State!Coherent'
      <3>1. \A k \in AppModules : State!Settled(k)' => State!Settled(k)
        BY <2>1, <2>4 DEF State!Settled, StateTypes
      <3>2. (\A q \in Processes : fill[q] # None => fill[q].value = State!Enabled(fill[q].module))'
        BY <1>2, <2>1, <2>4, <2>6 DEF State!Coherent, State!CoherentOn, State!Enabled
      <3>3. QED
        BY <1>2, <1>3, <2>1, <2>6, <3>1, <3>2 DEF State!Coherent, State!CoherentOn
    <2>8. QED
      BY <1>6, <2>1, <2>3, <2>4, <2>7
  <1>10. ASSUME NEW p \in Processes, State!Stop(p)
         PROVE  Goal
    <2>1. /\ pc[p] = "checking" /\ pc' = [pc EXCEPT ![p] = "idle"]
          /\ UNCHANGED <<db, cache, op, todo, blocked, fill>>
      BY <1>10 DEF State!Stop
    <2>2. pc'[p] = "idle" /\ \A q \in Processes \ {p} : pc'[q] = pc[q]
      BY <2>1 DEF StateTypes
    <2>3. Learned(p)' /\ FillIsTrue(p)'
      BY <2>2 DEF Learned, FillIsTrue
    <2>4. State!Coherent'
      BY <1>2, <1>3, <2>1, <2>2 DEF State!Coherent, State!CoherentOn, State!Settled, State!Enabled
    <2>5. QED
      BY <1>6, <2>1, <2>2, <2>3, <2>4
  <1>11. ASSUME NEW p \in Processes, State!Persist(p)
         PROVE  Goal
    <2>1. PICK m \in AppModules : m = op[p].module
      BY <1>11, StateFacts DEF State!Persist, State!MayChange
    <2>2. /\ pc[p] = "checking" /\ pc' = [pc EXCEPT ![p] = "forgetting"]
          /\ op[p].kind # "look" /\ todo[p] = {} /\ ~blocked[p]
          /\ db' = [db EXCEPT ![m] = op[p].kind = "enable"]
          /\ UNCHANGED <<cache, op, fill>>
      BY <1>11, <2>1 DEF State!Persist, State!MayChange
    <2>3. op[p].kind \in {"enable", "disable"}
      BY <2>2, StateFacts
    <2>4. /\ State!Enabled(m)' = (op[p].kind = "enable")
          /\ \A n \in AppModules \ {m} : State!Enabled(n)' = State!Enabled(n)
      BY <2>2 DEF State!NoneIsNoState, State!Enabled, StateTypes
    <2>5. \A n \in State!ToCheck(op[p]) : ~State!InTheWay(op[p], n, State!Enabled(n))
      BY <1>2, <2>2 DEF Learned
    <2>6. State!DependenciesEnabled'
      <3> SUFFICES ASSUME NEW n \in AppModules, State!Enabled(n)', NEW d \in DependsOn[n]
                   PROVE  State!Enabled(d)'
        BY DEF State!DependenciesEnabled
      <3>1. d \in AppModules
        BY DEF State!DependenciesAreModules
      <3>2. CASE op[p].kind = "enable"
        <4>1. CASE n = m
          BY <2>1, <2>4, <2>5, <3>1, <3>2, <4>1 DEF State!ToCheck, State!InTheWay
        <4>2. CASE n # m
          BY <1>2, <2>4, <3>1, <3>2, <4>2 DEF State!DependenciesEnabled
        <4>3. QED
          BY <4>1, <4>2
      <3>3. CASE op[p].kind = "disable"
        <4>1. n # m /\ State!Enabled(n)
          BY <2>4, <3>3
        <4>2. d # m
          BY <2>1, <2>5, <3>3, <4>1 DEF State!ToCheck, State!InTheWay
        <4>3. QED
          BY <1>2, <2>4, <3>1, <4>1, <4>2 DEF State!DependenciesEnabled
      <3>4. QED
        BY <2>3, <3>2, <3>3
    <2>7. \A q \in Processes \ {p} : pc[q] = "idle" /\ pc'[q] = "idle"
      BY <1>2, <2>2 DEF StateTypes
    <2>8. \A q \in Processes : Learned(q)' /\ FillIsTrue(q)'
      BY <2>2, <2>7 DEF Learned, FillIsTrue, StateTypes
    <2>9. State!Coherent'
      <3>1. \A q \in Processes : fill'[q] = None
        BY <2>2, <2>7 DEF StateTypes
      <3>2. \A n \in AppModules : State!Settled(n)
        BY <2>2, <2>7 DEF State!Settled
      <3>3. \A n \in AppModules : State!Settled(n)' => n # m
        BY <2>1, <2>2 DEF State!Settled, StateTypes
      <3>4. QED
        BY <1>2, <2>2, <2>4, <3>1, <3>2, <3>3 DEF State!Coherent, State!CoherentOn
    <2>10. QED
      BY <1>1, <2>6, <2>7, <2>8, <2>9
  <1>12. ASSUME NEW p \in Processes, State!PersistInCache(p)
         PROVE  Goal
    BY <1>1, <1>12 DEF State!PersistInCache
  <1>13. ASSUME NEW p \in Processes, State!Forget(p)
         PROVE  Goal
    <2>1. PICK m \in AppModules : m = op[p].module
      BY <1>13, StateFacts DEF State!Forget
    <2>2. /\ pc[p] = "forgetting" /\ pc' = [pc EXCEPT ![p] = "idle"]
          /\ cache' = [cache EXCEPT ![m] = None]
          /\ UNCHANGED <<db, op, todo, blocked, fill>>
      BY <1>13, <2>1 DEF State!Forget
    <2>3. pc'[p] = "idle" /\ \A q \in Processes \ {p} : pc'[q] = pc[q]
      BY <2>2 DEF StateTypes
    <2>4. Learned(p)' /\ FillIsTrue(p)'
      BY <2>3 DEF Learned, FillIsTrue
    <2>5. \A q \in Processes \ {p} : pc[q] = "idle"
      BY <1>2, <2>2
    <2>6. \A n \in AppModules \ {m} : cache'[n] = cache[n] /\ State!Settled(n)
      BY <2>1, <2>2, <2>5 DEF State!Settled, StateTypes
    <2>7. cache'[m] = None
      BY <2>2 DEF StateTypes
    <2>8. State!Coherent'
      BY <1>2, <1>3, <2>2, <2>6, <2>7 DEF State!Coherent, State!CoherentOn, State!Enabled
    <2>9. QED
      BY <1>6, <2>2, <2>3, <2>4, <2>8
  <1>14. ASSUME NEW m \in AppModules, State!Expire(m)
         PROVE  Goal
    <2>1. cache' = [cache EXCEPT ![m] = None] /\ UNCHANGED <<db, pc, op, todo, blocked, fill>>
      BY <1>14 DEF State!Expire
    <2>2. \A q \in Processes : Learned(q)' /\ FillIsTrue(q)'
      BY <1>2, <2>1 DEF Learned, FillIsTrue, State!InTheWay, State!Enabled
    <2>3. \A n \in AppModules : cache'[n] # None => cache'[n] = cache[n]
      BY <2>1 DEF StateTypes
    <2>4. State!Coherent'
      BY <1>2, <1>3, <2>1, <2>3 DEF State!Coherent, State!CoherentOn, State!Settled, State!Enabled
    <2>5. QED
      BY <1>1, <1>2, <1>3, <2>1, <2>2, <2>4
  <1>15. CASE State!DbSwitch
    BY <1>1, <1>15 DEF State!DbSwitch
  <1>16. ASSUME NEW p \in Processes, State!Die(p)
         PROVE  Goal
    <2>1. /\ pc[p] \in {"checking", "filling"}
          /\ pc' = [pc EXCEPT ![p] = "idle"] /\ fill' = [fill EXCEPT ![p] = None]
          /\ UNCHANGED <<db, cache, op, todo, blocked>>
      BY <1>16 DEF State!Die, StateTypes
    <2>2. /\ pc'[p] = "idle" /\ fill'[p] = None
          /\ \A q \in Processes \ {p} : pc'[q] = pc[q] /\ fill'[q] = fill[q]
      BY <2>1 DEF StateTypes
    <2>3. Learned(p)' /\ FillIsTrue(p)'
      BY <2>2 DEF Learned, FillIsTrue
    <2>4. State!Coherent'
      <3>1. \A m \in AppModules : State!Settled(m)' => State!Settled(m)
        BY <2>1, <2>2 DEF State!Settled
      <3>2. (\A q \in Processes : fill[q] # None => fill[q].value = State!Enabled(fill[q].module))'
        BY <1>2, <2>1, <2>2 DEF State!Coherent, State!CoherentOn, State!Enabled
      <3>3. QED
        BY <1>2, <1>3, <2>1, <3>1, <3>2 DEF State!Coherent, State!CoherentOn
    <2>5. QED
      BY <1>6, <2>1, <2>2, <2>3, <2>4
  <1>17. QED
    BY <1>4, <1>5, <1>7, <1>8, <1>9, <1>10, <1>11, <1>12, <1>13, <1>14, <1>15, <1>16
    DEF State!Next, State!Continue

\* While processes come one after another, none dies between its write and its
\* forget() and the database answers, enable() and
\* disable() keep the dependencies of every enabled module, and isEnabled() says what
\* the table says, for any modules, dependencies and processes.
THEOREM StateSerial ==
    ASSUME State!DependenciesAreModules, State!DefaultsAreClosed, State!NoneIsNoState
    PROVE  State!Spec => []State!SerialUseIsSafe
  <1>1. State!Init => StateTypes /\ SerialInv
    <2>1. State!Init => StateTypes
      BY DEF State!Init, StateTypes
    <2>2. ASSUME State!Init
          PROVE  /\ dbUp /\ \A p \in Processes : pc[p] = "idle" /\ fill[p] = None
                 /\ \A m \in AppModules : cache[m] = None /\ (State!Enabled(m) <=> State!Default(m))
      BY <2>2 DEF State!Init, State!Enabled
    <2>3. State!Init => SerialInv
      BY <2>2 DEF State!DefaultsAreClosed, State!DependenciesAreModules, SerialInv, Learned,
         FillIsTrue, State!DependenciesEnabled, State!Coherent, State!CoherentOn
    <2>4. QED
      BY <2>1, <2>3
  <1>2. SerialInv => State!SerialUseIsSafe
    BY DEF SerialInv, State!SerialUseIsSafe
  <1>3. QED
    BY <1>1, <1>2, StateTypesStep, SerialStep, PTL DEF State!Spec
===============================================================================
