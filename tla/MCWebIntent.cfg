CONSTANTS
    Visitors = {u1, u2}
    MaxVisits = 2
    First = 1
    Requests = {r1, r2, r3, r4}
    Keys = {k}
    None = None
    Points = {1, 2}
    Cap = 3
    Warm = 2
    Hot = 3
SPECIFICATION Spec
INVARIANTS ScoreIsCappedTotal OneEngagementPerKey VisitsShowConsent
PROPERTIES ImplementsScoreBook
SYMMETRY Symmetric
CHECK_DEADLOCK FALSE
