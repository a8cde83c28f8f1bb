CONSTANTS
    Ids = {i1, i2, i3}
    Asked = {"pending", "cancelled"}
    MaxExpect = 1
    Keyed = {a1, a2}
    Plain = {r1}
    Keys = {k1, k2}
    EmptyBody = EmptyBody
    None = None
SPECIFICATION Spec
INVARIANTS OneCompletionPerKey SuccessorsPerKey
CHECK_DEADLOCK FALSE
SYMMETRY Symmetric
