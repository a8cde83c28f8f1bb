CONSTANTS
    Ids = {i1, i2, i3}
    Requests = {r1, r2, r3}
    Asked = {"pending", "cancelled"}
    MaxExpect = 1
    None = None
SPECIFICATION Spec
INVARIANTS VersionIsAudited LostUpdatesShareAVersion SuccessorsAreAudited
CHECK_DEADLOCK FALSE
SYMMETRY Symmetric
