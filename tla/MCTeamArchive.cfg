CONSTANTS
    Users = {u1, u2}
    Shared = {t1}
    Owner <- Owners
    Home = Home
    None = None
    Admins = {a1, a2}
    Requests = {r1, r2}
SPECIFICATION FairSpec
INVARIANTS NobodyIsLeftBehind CurrentTeamIsOwn
PROPERTIES ArchivedTeamsEmpty
