------------------------------ MODULE UsageWallet ------------------------------
(***************************************************************************)
(* crm-usage-wallet-and-rebilling for one team: the wallet row, provider   *)
(* imports and the charges posted from them, under concurrent requests.    *)
(* The database is MySQL with its default isolation (config/database.php   *)
(* sets no other): plain reads of a transaction see the snapshot of its    *)
(* first read, FOR UPDATE and unique indexes see the latest commit.        *)
(* Amounts are integers: rounding to six decimals and currencies are left  *)
(* out (a charge is debited in the import's currency whatever the wallet's).*)
(***************************************************************************)
EXTENDS Integers, FiniteSets, Functions

CONSTANTS
    Imports,    \* (provider, external_id) of the usage a provider reports
    Requests,   \* requests on the wallet, each runs once
    Costs,      \* amounts of imports
    Markups,    \* markup_percent of charges
    Balances,   \* balances a request to UpsertWallet may carry
    None

\* validate() bounds the length of provider (100) and external_id (255).
ASSUME ImportsAreFinite == IsFiniteSet(Imports)
ASSUME CostsAreNat == Costs \subseteq Nat
ASSUME MarkupsAreNat == Markups \subseteq Nat
ASSUME BalancesAreInt == Balances \subseteq Int
ASSUME NoneIsNothing == None \notin Int /\ None \notin Requests

VARIABLES
    wallet,     \* the team's row of crm_usage_wallets
    imports,    \* imports[i]: the amount of the row in crm_usage_imports, or None
    charges,    \* charges[i]: the charge of the row in crm_usage_charges, or None
    audits,     \* rows of crm_usage_audits; those about charges are counted
    credit,     \* history: what UpsertWallet has put into the balance
    lock,       \* the request that holds the wallet row FOR UPDATE
    pc,
    op,         \* op[r]: what request r asks for
    seen,       \* seen[r]: the imports charged in the snapshot of r's transaction
    read        \* read[r]: the balance r read with the lock

vars == <<wallet, imports, charges, audits, credit, lock, pc, op, seen, read>>

ChargeOps == [kind: {"charge"}, import: Imports, markup: Markups]

\* validate() checks the request but fill() gets all of it: a request may carry a
\* balance (None: it does not).
UpsertOps == [kind: {"upsert"}, balance: Balances \cup {None}]

Charged == {i \in Imports : charges[i] # None}

Ended == {"done", "failed"}

Init ==
    /\ wallet = [present |-> FALSE, balance |-> 0]
    /\ imports = [i \in Imports |-> None]
    /\ charges = [i \in Imports |-> None]
    /\ audits = [imported |-> {}, charged |-> [i \in Imports |-> 0], updated |-> FALSE]
    /\ credit = 0
    /\ lock = None
    /\ pc = [r \in Requests |-> "idle"]
    /\ op = [r \in Requests |-> [kind |-> "none"]]
    /\ seen = [r \in Requests |-> {}]
    /\ read = [r \in Requests |-> 0]

\* Mutant of ImportProviderUsage: updateOrCreate instead of firstOrCreate.
ImportOverwrites(i, cost) ==
    /\ imports' = [imports EXCEPT ![i] = cost]
    /\ audits' = [audits EXCEPT !.imported = @ \cup {i}]
    /\ UNCHANGED <<wallet, charges, credit, lock, pc, op, seen, read>>

\* ImportProviderUsage: the first report of an external_id is kept, every report is
\* audited.
ImportProviderUsage(i, cost) ==
    /\ imports' = [imports EXCEPT ![i] = IF @ = None THEN cost ELSE @]
    /\ audits' = [audits EXCEPT !.imported = @ \cup {i}]
    /\ UNCHANGED <<wallet, charges, credit, lock, pc, op, seen, read>>

\* CreateCharge opens its transaction and reads the import: the snapshot is taken.
ReadImport(r, o) ==
    /\ pc[r] = "idle"
    /\ imports[o.import] # None
    /\ op' = [op EXCEPT ![r] = o]
    /\ seen' = [seen EXCEPT ![r] = Charged]
    /\ pc' = [pc EXCEPT ![r] = "begun"]
    /\ UNCHANGED <<wallet, imports, charges, audits, credit, lock, read>>

\* UpsertWallet opens its transaction.
BeginUpsert(r, o) ==
    /\ pc[r] = "idle"
    /\ op' = [op EXCEPT ![r] = o]
    /\ pc' = [pc EXCEPT ![r] = "begun"]
    /\ UNCHANGED <<wallet, imports, charges, audits, credit, lock, seen, read>>

\* Mutant of LockWallet: the row is read without FOR UPDATE.
ReadWalletUnlocked(r) ==
    /\ pc[r] = "begun"
    /\ wallet.present
    /\ read' = [read EXCEPT ![r] = wallet.balance]
    /\ pc' = [pc EXCEPT ![r] = "locked"]
    /\ UNCHANGED <<wallet, imports, charges, audits, credit, lock, op, seen>>

\* lockForUpdate() on an existing row waits for the lock and reads the latest row.
LockWallet(r) ==
    /\ pc[r] = "begun"
    /\ wallet.present
    /\ lock = None
    /\ lock' = r
    /\ read' = [read EXCEPT ![r] = wallet.balance]
    /\ pc' = [pc EXCEPT ![r] = "locked"]
    /\ UNCHANGED <<wallet, imports, charges, audits, credit, op, seen>>

\* firstOrFail() of CreateCharge finds no wallet: the transaction is rolled back.
NoWallet(r) ==
    /\ pc[r] = "begun"
    /\ op[r].kind = "charge"
    /\ ~wallet.present
    /\ pc' = [pc EXCEPT ![r] = "failed"]
    /\ UNCHANGED <<wallet, imports, charges, audits, credit, lock, op, seen, read>>

\* firstOrNew() of UpsertWallet finds no wallet: the row will be inserted.
NewWallet(r) ==
    /\ pc[r] = "begun"
    /\ op[r].kind = "upsert"
    /\ ~wallet.present
    /\ pc' = [pc EXCEPT ![r] = "creating"]
    /\ UNCHANGED <<wallet, imports, charges, audits, credit, lock, op, seen, read>>

\* round($cost * (1 + markup / 100)) on integers.
Charge(o) == imports[o.import] + (imports[o.import] * o.markup) \div 100

Release(r) == lock' = IF lock = r THEN None ELSE lock

\* Mutant of PostCharge: the debit is not tied to the charge being new.
PostAnyCharge(r) ==
    LET i == op[r].import IN
    /\ pc[r] = "locked"
    /\ op[r].kind = "charge"
    /\ charges' = [charges EXCEPT ![i] = Charge(op[r])]
    /\ wallet' = [wallet EXCEPT !.balance = read[r] - Charge(op[r])]
    /\ audits' = [audits EXCEPT !.charged[i] = @ + 1]
    /\ Release(r)
    /\ pc' = [pc EXCEPT ![r] = "done"]
    /\ UNCHANGED <<imports, credit, op, seen, read>>

\* firstOrCreate() creates the charge; balance and audit follow; commit.
PostCharge(r) ==
    LET i == op[r].import IN
    /\ pc[r] = "locked"
    /\ op[r].kind = "charge"
    /\ charges[i] = None
    /\ charges' = [charges EXCEPT ![i] = Charge(op[r])]
    /\ wallet' = [wallet EXCEPT !.balance = read[r] - Charge(op[r])]
    /\ audits' = [audits EXCEPT !.charged[i] = @ + 1]
    /\ Release(r)
    /\ pc' = [pc EXCEPT ![r] = "done"]
    /\ UNCHANGED <<imports, credit, op, seen, read>>

\* firstOrCreate() finds the charge in the snapshot: nothing is debited.
ExistingCharge(r) ==
    /\ pc[r] = "locked"
    /\ op[r].kind = "charge"
    /\ op[r].import \in seen[r]
    /\ Release(r)
    /\ pc' = [pc EXCEPT ![r] = "done"]
    /\ UNCHANGED <<wallet, imports, charges, audits, credit, op, seen, read>>

\* The charge was committed after the snapshot: the insert meets the unique index,
\* the re-read of createOrFirst() still finds nothing, and the exception rolls back.
DuplicateCharge(r) ==
    /\ pc[r] = "locked"
    /\ op[r].kind = "charge"
    /\ op[r].import \in Charged \ seen[r]
    /\ Release(r)
    /\ pc' = [pc EXCEPT ![r] = "failed"]
    /\ UNCHANGED <<wallet, imports, charges, audits, credit, op, seen, read>>

\* The balance UpsertWallet saves over the balance it found.
Filled(o, found) == IF o.balance = None THEN found ELSE o.balance

\* UpsertWallet saves the locked row and commits.
SaveWallet(r) ==
    /\ pc[r] = "locked"
    /\ op[r].kind = "upsert"
    /\ wallet' = [wallet EXCEPT !.balance = Filled(op[r], @)]
    /\ credit' = credit + (Filled(op[r], wallet.balance) - wallet.balance)
    /\ audits' = [audits EXCEPT !.updated = TRUE]
    /\ Release(r)
    /\ pc' = [pc EXCEPT ![r] = "done"]
    /\ UNCHANGED <<imports, charges, op, seen, read>>

\* UpsertWallet inserts the row; unique(team_id) lets one of several insert.
InsertWallet(r) ==
    /\ pc[r] = "creating"
    /\ ~wallet.present
    /\ wallet' = [present |-> TRUE, balance |-> Filled(op[r], 0)]
    /\ credit' = credit + Filled(op[r], 0)
    /\ audits' = [audits EXCEPT !.updated = TRUE]
    /\ pc' = [pc EXCEPT ![r] = "done"]
    /\ UNCHANGED <<imports, charges, lock, op, seen, read>>

DuplicateWallet(r) ==
    /\ pc[r] = "creating"
    /\ wallet.present
    /\ pc' = [pc EXCEPT ![r] = "failed"]
    /\ UNCHANGED <<wallet, imports, charges, audits, credit, lock, op, seen, read>>

\* Mutant of RollBack: the lock outlives the transaction.
RollBackHoldingLock(r) ==
    /\ pc[r] \in {"begun", "locked", "creating"}
    /\ pc' = [pc EXCEPT ![r] = "failed"]
    /\ UNCHANGED <<wallet, imports, charges, audits, credit, lock, op, seen, read>>

\* A statement fails or the worker dies: the transaction is rolled back.
RollBack(r) ==
    /\ pc[r] \in {"begun", "locked", "creating"}
    /\ Release(r)
    /\ pc' = [pc EXCEPT ![r] = "failed"]
    /\ UNCHANGED <<wallet, imports, charges, audits, credit, op, seen, read>>

\* The statements of an open transaction.
Statement(r) ==
    \/ LockWallet(r)
    \/ NoWallet(r)
    \/ NewWallet(r)
    \/ PostCharge(r)
    \/ ExistingCharge(r)
    \/ DuplicateCharge(r)
    \/ SaveWallet(r)
    \/ InsertWallet(r)
    \/ DuplicateWallet(r)

Next ==
    \/ \E i \in Imports, c \in Costs : ImportProviderUsage(i, c)
    \/ \E r \in Requests :
          \/ \E o \in ChargeOps : ReadImport(r, o)
          \/ \E o \in UpsertOps : BeginUpsert(r, o)
          \/ Statement(r)
          \/ RollBack(r)

\* A request whose transaction is open goes on; InnoDB hands the row lock on.
Fairness == \A r \in Requests : WF_vars(Statement(r))

Spec == Init /\ [][Next]_vars /\ Fairness

-------------------------------------------------------------------------------
\* Every variable has its type.
TypeOK ==
    /\ wallet \in [present: BOOLEAN, balance: Int]
    /\ imports \in [Imports -> Costs \cup {None}]
    /\ charges \in [Imports -> Nat \cup {None}]
    /\ audits \in [imported: SUBSET Imports, charged: [Imports -> Nat], updated: BOOLEAN]
    /\ credit \in Int
    /\ lock \in Requests \cup {None}
    /\ pc \in [Requests -> {"idle", "begun", "locked", "creating"} \cup Ended]
    /\ op \in [Requests -> ChargeOps \cup UpsertOps \cup {[kind |-> "none"]}]
    /\ seen \in [Requests -> SUBSET Imports]
    /\ read \in [Requests -> Int]

\* No debit is lost, doubled or left without its charge: the balance is what was
\* put in less what was charged.
BalanceIsExplained ==
    wallet.balance = credit - FoldFunction(LAMBDA c, sum : IF c = None THEN sum ELSE c + sum,
                                           0, charges)

\* An import is charged at most once, and each charge has its one audit row.
ChargedOnce ==
    \A i \in Imports : audits.charged[i] = IF charges[i] = None THEN 0 ELSE 1

\* A charge stands for the amount first imported: it is at least that cost, even
\* when the provider reports the same usage again with another amount.
ChargeCoversCost ==
    \A i \in Charged : imports[i] # None /\ charges[i] >= imports[i]

\* An open transaction ends: nobody waits for the wallet for ever.
EveryRequestEnds == \A r \in Requests : pc[r] = "begun" ~> pc[r] \in Ended

\* Racing requests leave the ledger as if charges were posted one at a time.
Book == INSTANCE Ledger WITH Entries <- Imports, balance <- wallet.balance,
                             posted <- charges
ImplementsLedger == Book!Spec
===============================================================================
