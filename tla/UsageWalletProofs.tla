--------------------------- MODULE UsageWalletProofs ---------------------------
(***************************************************************************)
(* Proofs about UsageWallet, for all sets of imports, requests, amounts.   *)
(***************************************************************************)
EXTENDS UsageWallet, FiniteSetTheorems, TLAPS

\* What the lock protects: the holder's reading is the balance.
HolderIsCurrent ==
    \A r \in Requests : pc[r] = "locked" =>
        lock = r /\ wallet.present /\ read[r] = wallet.balance

\* A transaction knows what it is for; a charge has its import.
TransactionsHaveOps ==
    \A r \in Requests :
        /\ pc[r] \in {"begun", "locked"} =>
              \/ op[r].kind = "upsert"
              \/ op[r].kind = "charge" /\ imports[op[r].import] # None
        /\ pc[r] = "creating" => op[r].kind = "upsert"

AbsentIsEmpty == ~wallet.present => wallet.balance = 0

WalletInv == HolderIsCurrent /\ TransactionsHaveOps /\ AbsentIsEmpty

\* What the fields of a request range over.
LEMMA ChargeFields ==
    ASSUME TypeOK, NEW r \in Requests, op[r].kind = "charge"
    PROVE  op[r].import \in Imports /\ op[r].markup \in Nat
  <1>1. op[r] \in ChargeOps \cup UpsertOps \cup {[kind |-> "none"]}
    BY DEF TypeOK
  <1>2. op[r] \notin UpsertOps
    BY DEF UpsertOps
  <1>3. op[r] # [kind |-> "none"]
    OBVIOUS
  <1>4. QED
    BY <1>1, <1>2, <1>3, MarkupsAreNat DEF ChargeOps

\* The balance an upsert saves is an integer.
LEMMA UpsertFields ==
    ASSUME TypeOK, NEW r \in Requests, op[r].kind = "upsert", NEW b \in Int
    PROVE  Filled(op[r], b) \in Int
  <1>1. op[r] \in ChargeOps \cup UpsertOps \cup {[kind |-> "none"]}
    BY DEF TypeOK
  <1>2. op[r] \notin ChargeOps
    BY DEF ChargeOps
  <1>3. op[r] # [kind |-> "none"]
    OBVIOUS
  <1>4. QED
    BY <1>1, <1>2, <1>3, BalancesAreInt DEF UpsertOps, Filled

\* The markup only adds.
LEMMA ChargeBound ==
    ASSUME TypeOK, NEW r \in Requests, op[r].kind = "charge",
           imports[op[r].import] # None
    PROVE  Charge(op[r]) \in Nat /\ Charge(op[r]) >= imports[op[r].import]
  <1> DEFINE c == imports[op[r].import]
             m == op[r].markup
             cm == c * m
  <1>1. c \in Nat /\ m \in Nat
    BY ChargeFields, CostsAreNat DEF TypeOK
  <1>2. cm \in Nat
    BY <1>1
  <1>3. Charge(op[r]) = c + cm \div 100
    BY DEF Charge
  <1> HIDE DEF c, m, cm
  <1>4. cm \div 100 \in Nat
    BY <1>2
  <1>5. Charge(op[r]) \in Nat /\ Charge(op[r]) >= c
    BY <1>1, <1>3, <1>4
  <1>6. QED
    BY <1>5 DEF c

\* Nothing is imported, charged or locked at the start.
LEMMA InitFacts == Init => TypeOK /\ WalletInv
  BY NoneIsNothing DEF Init, TypeOK, WalletInv, HolderIsCurrent,
        TransactionsHaveOps, AbsentIsEmpty, Ended

\* Every step keeps the types.
LEMMA TypeStep == TypeOK /\ WalletInv /\ [Next]_vars => TypeOK'
  <1> SUFFICES ASSUME TypeOK, WalletInv, [Next]_vars
               PROVE  TypeOK'
    OBVIOUS
  <1> USE DEF TypeOK, Ended
  <1>1. CASE UNCHANGED vars
    BY <1>1 DEF vars
  <1>2. ASSUME NEW i \in Imports, NEW c \in Costs, ImportProviderUsage(i, c)
        PROVE  TypeOK'
    BY <1>2 DEF ImportProviderUsage
  <1>3. ASSUME NEW r \in Requests, NEW o \in ChargeOps, ReadImport(r, o)
        PROVE  TypeOK'
    BY <1>3 DEF ReadImport, Charged
  <1>4. ASSUME NEW r \in Requests, NEW o \in UpsertOps, BeginUpsert(r, o)
        PROVE  TypeOK'
    BY <1>4 DEF BeginUpsert
  <1>5. ASSUME NEW r \in Requests, LockWallet(r)
        PROVE  TypeOK'
    BY <1>5 DEF LockWallet
  <1>6. ASSUME NEW r \in Requests, NoWallet(r) \/ NewWallet(r) \/ DuplicateWallet(r)
        PROVE  TypeOK'
    BY <1>6 DEF NoWallet, NewWallet, DuplicateWallet
  <1>7. ASSUME NEW r \in Requests, PostCharge(r)
        PROVE  TypeOK'
    <2>1. Charge(op[r]) \in Nat /\ op[r].import \in Imports
      BY <1>7, ChargeBound, ChargeFields
         DEF PostCharge, WalletInv, TransactionsHaveOps
    <2>2. wallet' \in [present: BOOLEAN, balance: Int]
      BY <1>7, <2>1 DEF PostCharge
    <2>3. audits' \in [imported: SUBSET Imports, charged: [Imports -> Nat],
                       updated: BOOLEAN]
      BY <1>7, <2>1 DEF PostCharge
    <2>4. QED
      BY <1>7, <2>1, <2>2, <2>3 DEF PostCharge, Release
  <1>8. ASSUME NEW r \in Requests,
               ExistingCharge(r) \/ DuplicateCharge(r) \/ RollBack(r)
        PROVE  TypeOK'
    BY <1>8 DEF ExistingCharge, DuplicateCharge, RollBack, Release
  <1>9. ASSUME NEW r \in Requests, SaveWallet(r)
        PROVE  TypeOK'
    <2>1. Filled(op[r], wallet.balance) \in Int
      BY <1>9, UpsertFields DEF SaveWallet
    <2>2. wallet' \in [present: BOOLEAN, balance: Int] /\ credit' \in Int
      BY <1>9, <2>1 DEF SaveWallet
    <2>3. audits' \in [imported: SUBSET Imports, charged: [Imports -> Nat],
                       updated: BOOLEAN]
      BY <1>9 DEF SaveWallet
    <2>4. lock' \in Requests \cup {None}
      BY <1>9 DEF SaveWallet, Release
    <2>5. QED
      BY <1>9, <2>2, <2>3, <2>4 DEF SaveWallet
  <1>10. ASSUME NEW r \in Requests, InsertWallet(r)
         PROVE  TypeOK'
    <2>1. Filled(op[r], 0) \in Int
      BY <1>10, UpsertFields DEF InsertWallet, WalletInv, TransactionsHaveOps
    <2>2. wallet' \in [present: BOOLEAN, balance: Int] /\ credit' \in Int
      BY <1>10, <2>1 DEF InsertWallet
    <2>3. audits' \in [imported: SUBSET Imports, charged: [Imports -> Nat],
                       updated: BOOLEAN]
      BY <1>10 DEF InsertWallet
    <2>4. QED
      BY <1>10, <2>2, <2>3 DEF InsertWallet
  <1>11. QED
    BY <1>1, <1>2, <1>3, <1>4, <1>5, <1>6, <1>7, <1>8, <1>9, <1>10
       DEF Next, Statement

\* Every step keeps what the lock protects.
LEMMA WalletStep == TypeOK /\ WalletInv /\ [Next]_vars => WalletInv'
  <1> SUFFICES ASSUME TypeOK, WalletInv, [Next]_vars
               PROVE  WalletInv'
    OBVIOUS
  <1> USE NoneIsNothing DEF WalletInv, HolderIsCurrent, TransactionsHaveOps,
                            AbsentIsEmpty, TypeOK, Ended
  <1>1. CASE UNCHANGED vars
    BY <1>1 DEF vars
  <1>2. ASSUME NEW i \in Imports, NEW c \in Costs, ImportProviderUsage(i, c)
        PROVE  WalletInv'
    <2>1. c # None
      BY CostsAreNat
    <2>2. \A j \in Imports : imports[j] # None => imports'[j] # None
      BY <1>2, <2>1 DEF ImportProviderUsage
    <2>3. QED
      BY <1>2, <2>2, ChargeFields DEF ImportProviderUsage
  <1>3. ASSUME NEW r \in Requests, NEW o \in ChargeOps, ReadImport(r, o)
        PROVE  WalletInv'
    BY <1>3 DEF ReadImport, ChargeOps
  <1>4. ASSUME NEW r \in Requests, NEW o \in UpsertOps, BeginUpsert(r, o)
        PROVE  WalletInv'
    BY <1>4 DEF BeginUpsert, UpsertOps
  <1>5. ASSUME NEW r \in Requests, LockWallet(r)
        PROVE  WalletInv'
    BY <1>5 DEF LockWallet
  <1>6. ASSUME NEW r \in Requests, NoWallet(r) \/ NewWallet(r) \/ DuplicateWallet(r)
        PROVE  WalletInv'
    BY <1>6 DEF NoWallet, NewWallet, DuplicateWallet
  <1>7. ASSUME NEW r \in Requests, PostCharge(r) \/ SaveWallet(r)
        PROVE  WalletInv'
    <2>1. /\ pc' = [pc EXCEPT ![r] = "done"]
          /\ op' = op /\ imports' = imports /\ wallet'.present = wallet.present
          /\ pc[r] = "locked"
      BY <1>7 DEF PostCharge, SaveWallet
    <2>2. \A q \in Requests : pc'[q] # "locked"
      BY <2>1
    <2>3. wallet'.present
      BY <2>1
    <2>4. QED
      BY <2>1, <2>2, <2>3
  <1>8. ASSUME NEW r \in Requests,
               ExistingCharge(r) \/ DuplicateCharge(r) \/ RollBack(r)
        PROVE  WalletInv'
    BY <1>8 DEF ExistingCharge, DuplicateCharge, RollBack, Release
  <1>9. ASSUME NEW r \in Requests, InsertWallet(r)
        PROVE  WalletInv'
    BY <1>9 DEF InsertWallet
  <1>10. QED
    BY <1>1, <1>2, <1>3, <1>4, <1>5, <1>6, <1>7, <1>8, <1>9 DEF Next, Statement

\* Type and invariant hold throughout.
LEMMA WalletInvariant == Spec => [](TypeOK /\ WalletInv)
  BY InitFacts, TypeStep, WalletStep, PTL DEF Spec

\* Type correctness of the wallet, its imports and charges, and the requests.
THEOREM TypeCorrect == Spec => []TypeOK
  BY WalletInvariant, PTL

\* An import is charged and audited at most once, whatever requests race.
THEOREM EachImportChargedOnce == Spec => []ChargedOnce
  <1>1. Init => ChargedOnce
    BY DEF Init, ChargedOnce
  <1>2. TypeOK /\ WalletInv /\ ChargedOnce /\ [Next]_vars => ChargedOnce'
    <2> SUFFICES ASSUME TypeOK, WalletInv, ChargedOnce, [Next]_vars
                 PROVE  ChargedOnce'
      OBVIOUS
    <2>1. CASE charges' = charges /\ audits'.charged = audits.charged
      BY <2>1 DEF ChargedOnce
    <2>2. ASSUME NEW r \in Requests, PostCharge(r)
          PROVE  ChargedOnce'
      <3> DEFINE i == op[r].import
      <3>1. i \in Imports /\ Charge(op[r]) # None
        BY <2>2, ChargeFields, ChargeBound, NoneIsNothing
           DEF PostCharge, WalletInv, TransactionsHaveOps
      <3>2. /\ charges[i] = None
            /\ charges' = [charges EXCEPT ![i] = Charge(op[r])]
            /\ audits'.charged = [audits.charged EXCEPT ![i] = @ + 1]
        BY <2>2 DEF PostCharge, TypeOK
      <3>3. \A j \in Imports : audits'.charged[j] =
                IF charges'[j] = None THEN 0 ELSE 1
        BY <3>1, <3>2 DEF ChargedOnce, TypeOK
      <3>4. QED
        BY <3>3 DEF ChargedOnce
    <2>3. QED
      BY <2>1, <2>2 DEF Next, Statement, vars, TypeOK, ImportProviderUsage,
         ReadImport, BeginUpsert, LockWallet, NoWallet, NewWallet, ExistingCharge,
         DuplicateCharge, SaveWallet, InsertWallet, DuplicateWallet, RollBack
  <1>3. QED
    BY <1>1, <1>2, WalletInvariant, PTL DEF Spec

\* A charge is never below the amount first imported.
THEOREM ChargesCoverCosts == Spec => []ChargeCoversCost
  <1>1. Init => ChargeCoversCost
    BY DEF Init, ChargeCoversCost, Charged
  <1>2. TypeOK /\ WalletInv /\ ChargeCoversCost /\ [Next]_vars => ChargeCoversCost'
    <2> SUFFICES ASSUME TypeOK, WalletInv, ChargeCoversCost, [Next]_vars
                 PROVE  ChargeCoversCost'
      OBVIOUS
    <2>1. CASE /\ charges' = charges
               /\ \A i \in Imports : imports[i] # None => imports'[i] = imports[i]
      BY <2>1 DEF ChargeCoversCost, Charged
    <2>2. ASSUME NEW r \in Requests, PostCharge(r)
          PROVE  ChargeCoversCost'
      <3>1. /\ op[r].import \in Imports
            /\ imports[op[r].import] # None
            /\ Charge(op[r]) >= imports[op[r].import]
        BY <2>2, ChargeFields, ChargeBound
           DEF PostCharge, WalletInv, TransactionsHaveOps
      <3>2. /\ charges' = [charges EXCEPT ![op[r].import] = Charge(op[r])]
            /\ imports' = imports
        BY <2>2 DEF PostCharge
      <3>3. QED
        BY <3>1, <3>2 DEF ChargeCoversCost, Charged, TypeOK
    <2>3. QED
      BY <2>1, <2>2 DEF Next, Statement, vars, TypeOK, ImportProviderUsage,
         ReadImport, BeginUpsert, LockWallet, NoWallet, NewWallet, ExistingCharge,
         DuplicateCharge, SaveWallet, InsertWallet, DuplicateWallet, RollBack
  <1>3. QED
    BY <1>1, <1>2, WalletInvariant, PTL DEF Spec

\* The wallet implements the ledger: every step posts one charge, changes the
\* balance and the credit alike, or leaves the ledger as it is.
THEOREM WalletImplementsLedger == Spec => ImplementsLedger
  <1>1. Init => Book!Init
    BY DEF Init, Book!Init
  <1>2. TypeOK /\ TypeOK' /\ WalletInv /\ [Next]_vars
           => [Book!Next]_<<wallet.balance, credit, charges>>
    <2> SUFFICES ASSUME TypeOK, TypeOK', WalletInv, [Next]_vars
                 PROVE  [Book!Next]_<<wallet.balance, credit, charges>>
      OBVIOUS
    <2>1. CASE UNCHANGED <<wallet, credit, charges>>
      BY <2>1
    <2>2. ASSUME NEW r \in Requests, PostCharge(r)
          PROVE  Book!Next
      <3> DEFINE i == op[r].import
      <3>1. i \in Imports /\ Charge(op[r]) \in Nat
        BY <2>2, ChargeFields, ChargeBound
           DEF PostCharge, WalletInv, TransactionsHaveOps
      <3>2. charges' = [charges EXCEPT ![i] = Charge(op[r])] /\ charges[i] = None
        BY <2>2 DEF PostCharge
      <3>3. charges'[i] = Charge(op[r])
        BY <3>1, <3>2 DEF TypeOK
      <3>4. wallet'.balance = wallet.balance - charges'[i]
        BY <2>2, <3>3 DEF PostCharge, WalletInv, HolderIsCurrent, TypeOK
      <3>5. Book!Post(i)
        BY <2>2, <3>1, <3>2, <3>3, <3>4 DEF PostCharge, Book!Post
      <3>6. QED
        BY <3>1, <3>5 DEF Book!Next
    <2>3. ASSUME NEW r \in Requests, SaveWallet(r)
          PROVE  Book!Next
      BY <2>3, UpsertFields DEF SaveWallet, TypeOK, Book!Next, Book!Adjust
    <2>4. ASSUME NEW r \in Requests, InsertWallet(r)
          PROVE  Book!Next
      <3>1. wallet.balance = 0 /\ wallet'.balance = Filled(op[r], 0)
        BY <2>4 DEF InsertWallet, WalletInv, AbsentIsEmpty
      <3>2. Filled(op[r], 0) \in Int
        BY <2>4, UpsertFields DEF InsertWallet, WalletInv, TransactionsHaveOps
      <3>3. QED
        BY <2>4, <3>1, <3>2 DEF InsertWallet, Book!Next, Book!Adjust
    <2>5. QED
      BY <2>1, <2>2, <2>3, <2>4 DEF Next, Statement, vars, ImportProviderUsage,
         ReadImport, BeginUpsert, LockWallet, NoWallet, NewWallet, ExistingCharge,
         DuplicateCharge, DuplicateWallet, RollBack
  <1>3. QED
    BY <1>1, <1>2, WalletInvariant, PTL DEF Spec, ImplementsLedger, Book!Spec

\* One step of the sum: what the total of s is, given the totals g of smaller sets.
First(s) == CHOOSE i \in s : TRUE

Sum(f, g, s) ==
    IF s = {} THEN 0
    ELSE IF f[First(s)] = None THEN g[s \ {First(s)}] ELSE f[First(s)] + g[s \ {First(s)}]

\* The totals of all sets of imports.
Totals(f) == CHOOSE g : g = [s \in SUBSET Imports |-> Sum(f, g, s)]

Charges == [Imports -> Nat \cup {None}]

\* The fold of the specification, unfolded to the recursive function it is defined by.
LEMMA FoldIsTotal ==
    ASSUME NEW f \in Charges
    PROVE  FoldFunction(LAMBDA c, sum : IF c = None THEN sum ELSE c + sum, 0, f)
             = Totals(f)[Imports]
  BY DEF FoldFunction, FoldFunctionOnSet, MapThenFoldSet, Totals, Sum, First, Charges

\* A set of natural numbers that is not empty has a smallest element.
LEMMA SmallestIn ==
    ASSUME NEW P \in SUBSET Nat, P # {}
    PROVE  \E m \in P : \A n \in P : m <= n
  <1> DEFINE Less == {p \in Nat \X Nat : p[1] < p[2]}
  <1>1. IsWellFoundedOn(Less, Nat)
    BY NatLessThanWellFounded DEF OpToRel
  <1>2. \A x, y \in Nat : <<y, x>> \notin Less => x <= y
    OBVIOUS
  <1> HIDE DEF Less
  <1>3. \E x \in P : \A y \in P : <<y, x>> \notin Less
    BY <1>1, WFMin
  <1>4. QED
    BY <1>2, <1>3

\* Taking the chosen element out of a set of imports makes it smaller by one.
LEMMA WithoutFirst ==
    ASSUME NEW s \in SUBSET Imports, s # {}
    PROVE  /\ First(s) \in s /\ First(s) \in Imports
           /\ s \ {First(s)} \in SUBSET Imports
           /\ Cardinality(s) \in Nat /\ Cardinality(s \ {First(s)}) \in Nat
           /\ Cardinality(s \ {First(s)}) = Cardinality(s) - 1
           /\ Cardinality(s) # 0
  <1>1. First(s) \in s
    BY DEF First
  <1>2. IsFiniteSet(s)
    BY ImportsAreFinite, FS_Subset
  <1>3. QED
    BY <1>1, <1>2, FS_RemoveElement, FS_CardinalityType, FS_EmptySet

\* One step of the recursion gives an integer when the step before did.
LEMMA SumIsInteger ==
    ASSUME NEW f \in Charges, NEW g, NEW s \in SUBSET Imports,
           s # {} => g[s \ {First(s)}] \in Int
    PROVE  Sum(f, g, s) \in Int
  <1>1. CASE s = {}
    BY <1>1 DEF Sum
  <1>2. CASE s # {}
    <2>1. f[First(s)] \in Nat \cup {None}
      BY <1>2, WithoutFirst DEF Charges
    <2>2. QED
      BY <1>2, <2>1 DEF Sum
  <1>3. QED
    BY <1>1, <1>2

\* A function with the recursive equation exists: no smallest set can be without one.
LEMMA TotalsExist ==
    ASSUME NEW f \in Charges
    PROVE  \E g \in [SUBSET Imports -> Int] : g = [s \in SUBSET Imports |-> Sum(f, g, s)]
  <1> DEFINE L(n) == {s \in SUBSET Imports : Cardinality(s) <= n}
             Has(n) == \E g \in [SUBSET Imports -> Int] : \A s \in L(n) : g[s] = Sum(f, g, s)
             Bad == {n \in Nat : ~Has(n)}
  <1>1. \A s \in SUBSET Imports : IsFiniteSet(s) /\ Cardinality(s) \in Nat
    BY ImportsAreFinite, FS_Subset, FS_CardinalityType
  <1>2. Has(0)
    <2> DEFINE g == [s \in SUBSET Imports |-> 0]
    <2>1. \A s \in L(0) : s = {}
      BY <1>1, FS_EmptySet
    <2>2. g \in [SUBSET Imports -> Int] /\ \A s \in L(0) : g[s] = Sum(f, g, s)
      BY <2>1 DEF Sum
    <2>3. QED
      BY <2>2
  <1>3. ASSUME NEW n \in Nat, Has(n)
        PROVE  Has(n + 1)
    <2>1. PICK g \in [SUBSET Imports -> Int] : \A s \in L(n) : g[s] = Sum(f, g, s)
      BY <1>3
    <2> DEFINE h == [s \in SUBSET Imports |-> IF Cardinality(s) <= n THEN g[s] ELSE Sum(f, g, s)]
    <2>2. \A s \in SUBSET Imports : Sum(f, g, s) \in Int
      BY WithoutFirst, SumIsInteger
    <2>3. h \in [SUBSET Imports -> Int]
      BY <2>2
    <2>4. ASSUME NEW s \in L(n + 1)
          PROVE  h[s] = Sum(f, h, s)
      <3>1. h[s] = Sum(f, g, s)
        BY <2>1
      <3>2. CASE s = {}
        BY <3>1, <3>2 DEF Sum
      <3>3. CASE s # {}
        <4>1. h[s \ {First(s)}] = g[s \ {First(s)}]
          BY <3>3, WithoutFirst
        <4>2. QED
          BY <3>1, <4>1 DEF Sum
      <3>4. QED
        BY <3>2, <3>3
    <2>5. QED
      BY <2>3, <2>4
  <1>4. Bad = {}
    <2> SUFFICES ASSUME Bad # {}
                 PROVE  FALSE
      OBVIOUS
    <2>1. Bad \in SUBSET Nat
      OBVIOUS
    <2> HIDE DEF Has
    <2>2. PICK m \in Bad : \A n \in Bad : m <= n
      BY <2>1, SmallestIn
    <2>3. m # 0
      BY <1>2
    <2>4. m - 1 \in Nat /\ m - 1 \notin Bad
      BY <2>2, <2>3
    <2>5. Has(m - 1)
      BY <2>4
    <2>6. Has(m)
      BY <1>3, <2>4, <2>5
    <2>7. QED
      BY <2>6
  <1>5. Cardinality(Imports) \in Nat /\ \A s \in SUBSET Imports : s \in L(Cardinality(Imports))
    BY ImportsAreFinite, FS_CardinalityType, FS_Subset
  <1>6. Has(Cardinality(Imports))
    BY <1>4, <1>5
  <1>7. PICK g \in [SUBSET Imports -> Int] : \A s \in L(Cardinality(Imports)) : g[s] = Sum(f, g, s)
    BY <1>6
  <1>8. g = [s \in SUBSET Imports |-> Sum(f, g, s)]
    BY <1>5, <1>7
  <1>9. QED
    BY <1>8

\* A set of counterexamples among the sets of imports has a smallest one.
LEMMA SmallestSet ==
    ASSUME NEW Bad \in SUBSET SUBSET Imports, Bad # {}
    PROVE  \E s \in Bad : \A u \in Bad : Cardinality(s) <= Cardinality(u)
  <1> DEFINE Sizes == {Cardinality(s) : s \in Bad}
  <1>1. \A s \in SUBSET Imports : Cardinality(s) \in Nat
    BY ImportsAreFinite, FS_Subset, FS_CardinalityType
  <1>2. Sizes \in SUBSET Nat /\ Sizes # {}
    BY <1>1
  <1>3. PICK m \in Sizes : \A n \in Sizes : m <= n
    BY <1>2, SmallestIn
  <1>4. PICK s \in Bad : m = Cardinality(s)
    OBVIOUS
  <1>5. \A u \in Bad : Cardinality(u) \in Sizes
    OBVIOUS
  <1>6. QED
    BY <1>3, <1>4, <1>5

\* The total satisfies its recursive equation, and is an integer.
LEMMA TotalsUnfold ==
    ASSUME NEW f \in Charges
    PROVE  /\ \A s \in SUBSET Imports : Totals(f)[s] = Sum(f, Totals(f), s)
           /\ \A s \in SUBSET Imports : Totals(f)[s] \in Int
  <1> DEFINE T == Totals(f)
  <1>1. T = [s \in SUBSET Imports |-> Sum(f, T, s)]
    BY TotalsExist DEF Totals
  <1> HIDE DEF T
  <1>2. \A s \in SUBSET Imports : T[s] = Sum(f, T, s)
    BY <1>1
  <1> DEFINE Bad == {s \in SUBSET Imports : T[s] \notin Int}
  <1>3. Bad = {}
    <2> SUFFICES ASSUME Bad # {}
                 PROVE  FALSE
      OBVIOUS
    <2>1. Bad \in SUBSET SUBSET Imports
      OBVIOUS
    <2>2. PICK s \in Bad : \A u \in Bad : Cardinality(s) <= Cardinality(u)
      BY <2>1, SmallestSet
    <2>3. s # {}
      <3>1. T[{}] = 0
        BY <1>2 DEF Sum
      <3>2. QED
        BY <3>1
    <2>4. s \ {First(s)} \in SUBSET Imports /\ s \ {First(s)} \notin Bad
      BY <2>2, <2>3, WithoutFirst
    <2>5. T[s \ {First(s)}] \in Int
      BY <2>4
    <2>6. T[s] \in Int
      BY <1>2, <2>2, <2>5, SumIsInteger
    <2>7. QED
      BY <2>2, <2>6
  <1>4. QED
    BY <1>2, <1>3 DEF T

\* The total of no charges is zero.
LEMMA NothingCharged ==
    ASSUME NEW f \in Charges, \A i \in Imports : f[i] = None
    PROVE  Totals(f)[Imports] = 0
  <1> DEFINE T == Totals(f)
             Bad == {s \in SUBSET Imports : T[s] # 0}
  <1>1. \A s \in SUBSET Imports : T[s] = Sum(f, T, s)
    BY TotalsUnfold
  <1> HIDE DEF T
  <1>2. Bad = {}
    <2> SUFFICES ASSUME Bad # {}
                 PROVE  FALSE
      OBVIOUS
    <2>1. PICK s \in Bad : \A u \in Bad : Cardinality(s) <= Cardinality(u)
      BY SmallestSet
    <2>2. s # {}
      BY <1>1, <2>1 DEF Sum
    <2>3. s \ {First(s)} \in SUBSET Imports /\ s \ {First(s)} \notin Bad
      BY <2>1, <2>2, WithoutFirst
    <2>4. QED
      BY <1>1, <2>1, <2>2, <2>3, WithoutFirst DEF Sum
  <1>3. QED
    BY <1>2 DEF T

\* A new charge adds its amount to the total, and nothing else.
LEMMA OneMoreCharge ==
    ASSUME NEW f \in Charges, NEW i \in Imports, f[i] = None, NEW c \in Nat
    PROVE  Totals([f EXCEPT ![i] = c])[Imports] = c + Totals(f)[Imports]
  <1> DEFINE h == [f EXCEPT ![i] = c]
             F == Totals(f)
             H == Totals(h)
             More(s) == F[s] + (IF i \in s THEN c ELSE 0)
             Bad == {s \in SUBSET Imports : H[s] # More(s)}
  <1>1. h \in Charges
    BY DEF Charges
  <1>2. \A s \in SUBSET Imports : /\ F[s] = Sum(f, F, s) /\ F[s] \in Int
                                  /\ H[s] = Sum(h, H, s) /\ H[s] \in Int
    BY <1>1, TotalsUnfold
  <1>3. h[i] = c /\ \A j \in Imports \ {i} : h[j] = f[j]
    BY DEF Charges
  <1>4. c # None /\ c \in Nat /\ f[i] = None
    BY NoneIsNothing
  <1> HIDE DEF h, F, H
  <1>5. Bad = {}
    <2> SUFFICES ASSUME Bad # {}
                 PROVE  FALSE
      OBVIOUS
    <2>1. PICK s \in Bad : \A u \in Bad : Cardinality(s) <= Cardinality(u)
      BY SmallestSet
    <2>2. s # {}
      BY <1>2, <2>1 DEF Sum
    <2> DEFINE x == First(s)
               u == s \ {x}
    <2>3. /\ x \in s /\ x \in Imports /\ u \in SUBSET Imports
          /\ u \notin Bad
      BY <2>1, <2>2, WithoutFirst
    <2>4. H[u] = More(u) /\ F[u] \in Int
      BY <1>2, <2>3
    <2>5. /\ F[s] = IF f[x] = None THEN F[u] ELSE f[x] + F[u]
          /\ H[s] = IF h[x] = None THEN H[u] ELSE h[x] + H[u]
      BY <1>2, <2>1, <2>2 DEF Sum
    <2> HIDE DEF x
    <2>6. CASE x = i
      BY <1>3, <1>4, <2>1, <2>3, <2>4, <2>5, <2>6
    <2>7. CASE x # i
      <3>1. h[x] = f[x] /\ f[x] \in Nat \cup {None}
        BY <1>3, <2>3, <2>7 DEF Charges
      <3>2. i \in s <=> i \in u
        BY <2>7
      <3>3. QED
        BY <1>4, <2>1, <2>4, <2>5, <3>1, <3>2
    <2>8. QED
      BY <2>6, <2>7
  <1>6. H[Imports] = More(Imports)
    BY <1>5
  <1>7. QED
    BY <1>2, <1>6 DEF h, F, H

\* BalanceIsExplained in terms of the total.
LEMMA BalanceByTotal ==
    /\ charges \in Charges
         => (BalanceIsExplained <=> wallet.balance = credit - Totals(charges)[Imports])
    /\ charges' \in Charges
         => (BalanceIsExplained' <=> wallet'.balance = credit' - Totals(charges')[Imports])
  BY DEF BalanceIsExplained, FoldFunction, FoldFunctionOnSet, MapThenFoldSet, Totals, Sum,
         First, Charges

\* The balance is what was put in less the total of all charges, whatever requests race.
THEOREM BalanceExplained == Spec => []BalanceIsExplained
  <1>1. TypeOK => charges \in Charges
    BY DEF TypeOK, Charges
  <1>2. Init => BalanceIsExplained
    <2> SUFFICES ASSUME Init
                 PROVE  BalanceIsExplained
      OBVIOUS
    <2>1. charges \in Charges /\ \A i \in Imports : charges[i] = None
      BY DEF Init, Charges
    <2>2. Totals(charges)[Imports] = 0
      BY <2>1, NothingCharged
    <2>3. QED
      BY <2>1, <2>2, BalanceByTotal DEF Init
  <1>3. TypeOK /\ TypeOK' /\ WalletInv /\ BalanceIsExplained /\ [Next]_vars => BalanceIsExplained'
    <2> SUFFICES ASSUME TypeOK, TypeOK', WalletInv, BalanceIsExplained, [Next]_vars
                 PROVE  BalanceIsExplained'
      OBVIOUS
    <2> DEFINE total == Totals(charges)[Imports]
    <2>1. /\ charges \in Charges /\ charges' \in Charges
          /\ wallet.balance = credit - total /\ total \in Int
          /\ wallet.balance \in Int /\ credit \in Int
      BY BalanceByTotal, TotalsUnfold DEF TypeOK, Charges
    <2>2. SUFFICES wallet'.balance = credit' - Totals(charges')[Imports]
      BY <2>1, BalanceByTotal
    <2>3. CASE UNCHANGED <<wallet, credit, charges>>
      BY <2>1, <2>3
    <2>4. ASSUME NEW r \in Requests, PostCharge(r)
          PROVE  wallet'.balance = credit' - Totals(charges')[Imports]
      <3>1. PICK i \in Imports : i = op[r].import
        BY <2>4, ChargeFields DEF PostCharge
      <3>2. PICK c \in Nat : c = Charge(op[r])
        BY <2>4, ChargeBound DEF PostCharge, WalletInv, TransactionsHaveOps
      <3>3. /\ charges[i] = None /\ charges' = [charges EXCEPT ![i] = c]
            /\ wallet'.balance = wallet.balance - c /\ credit' = credit
        BY <2>4, <3>1, <3>2 DEF PostCharge, WalletInv, HolderIsCurrent, TypeOK
      <3>4. Totals(charges')[Imports] = c + total
        BY <2>1, <3>3, OneMoreCharge
      <3>5. QED
        BY <2>1, <3>3, <3>4
    <2>5. ASSUME NEW r \in Requests, SaveWallet(r) \/ InsertWallet(r)
          PROVE  wallet'.balance = credit' - Totals(charges')[Imports]
      <3>1. op[r].kind = "upsert"
        BY <2>5 DEF SaveWallet, InsertWallet, WalletInv, TransactionsHaveOps
      <3>2. PICK b \in Int : b = Filled(op[r], wallet.balance)
        BY <2>1, <3>1, UpsertFields
      <3>3. InsertWallet(r) => wallet.balance = 0
        BY DEF InsertWallet, WalletInv, AbsentIsEmpty
      <3>4. /\ wallet'.balance = b /\ credit' = credit + (b - wallet.balance)
            /\ charges' = charges
        BY <2>5, <3>2, <3>3 DEF SaveWallet, InsertWallet, TypeOK
      <3>5. QED
        BY <2>1, <3>4
    <2>6. QED
      BY <2>3, <2>4, <2>5 DEF Next, Statement, vars, ImportProviderUsage,
         ReadImport, BeginUpsert, LockWallet, NoWallet, NewWallet, ExistingCharge,
         DuplicateCharge, DuplicateWallet, RollBack
  <1>4. QED
    BY <1>1, <1>2, <1>3, WalletInvariant, PTL DEF Spec
===============================================================================
