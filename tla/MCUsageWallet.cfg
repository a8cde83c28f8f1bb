SPECIFICATION Spec
CONSTANTS
    Imports = {i1, i2}
    Requests = {r1, r2, r3}
    Costs = {1, 2}
    Markups = {0, 100}
    Balances <- OneCredit
    None = None
CHECK_DEADLOCK FALSE
INVARIANTS BalanceIsExplained ChargedOnce ChargeCoversCost
PROPERTIES EveryRequestEnds ImplementsLedger
