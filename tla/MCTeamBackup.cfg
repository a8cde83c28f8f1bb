SPECIFICATION Spec
CONSTANTS
    Workers = {w1, w2}
    MaxId = 2
    MaxRuns = 3
    None = None
CHECK_DEADLOCK FALSE
SYMMETRY Symmetric
INVARIANTS RestoreIsExact OnlyHurriedBackupsDangle
