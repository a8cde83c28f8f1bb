CONSTANTS
    Attempts = {a1, a2, a3}
    Keys = {k1, k2}
    Targets = {t1}
    Bodies = {b1, b2}
    None = None
SPECIFICATION FairSpec
INVARIANTS EffectOnce ReplayFaithful
PROPERTIES ImplementsOnce EveryAttemptEnds
CHECK_DEADLOCK FALSE
