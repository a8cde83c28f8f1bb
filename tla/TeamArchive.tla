------------------------------ MODULE TeamArchive ------------------------------
(***************************************************************************)
(* Archiving and restoring shared teams, while their members switch teams, *)
(* accept invitations, leave and are removed.  An archive hides the team   *)
(* and then moves those who act in it to their personal teams, one by one  *)
(* and in no transaction.                                                  *)
(***************************************************************************)
CONSTANTS
    Users,
    Shared,     \* the teams that are not personal
    Owner,      \* Owner[t]: who owns t and can neither leave nor be removed
    Home,       \* stands for a user's own personal team
    None,       \* no team, no user
    Admins,     \* requests of administrators who archive and restore, again and again
    Requests    \* requests about one user's team, each runs once

ASSUME NamesAreApart == Home \notin Shared /\ None \notin Shared \cup {Home} \cup Users
ASSUME OwnersAreUsers == Owner \in [Shared -> Users]

Teams == Shared \cup {Home}

VARIABLES
    archived,   \* the teams with an archived_at
    members,    \* members[t]: who owns t or has a row in team_user for it
    personal,   \* the users who have a personal team
    current,    \* current[u]: current_team_id of u
    admin,      \* admin[a]: how far request a has got, with the team it loaded and,
                \* once it is moving members, the users it has still to move
    req,        \* req[r]: what request r is about to write, with the current team
                \* its user had when it was loaded
    overtaken,  \* history: the requests whose team was archived since they found it
    late,       \* history: <<u, t>> if such a request switched u to its archived t
    abandoned,  \* history: the teams whose archive stopped on the way
    detached,   \* history: <<u, t>> if u was removed from t by a statement that
                \* leaves the current team alone
    raced       \* history: the users two of whose requests overlapped

histories == <<overtaken, late, abandoned, detached, raced>>
vars == <<archived, members, personal, current, admin, req, histories>>

NoAdmin == [at |-> "idle", team |-> None, queue |-> {}]
NoRequest == [at |-> "idle", user |-> None, team |-> None, loaded |-> None]
Done == [NoRequest EXCEPT !.at = "done"]

\* Everybody acts in a team of theirs; users who came by single sign-on have no
\* personal team.
Init ==
    /\ archived = {}
    /\ members \in [Shared -> SUBSET Users]
    /\ \A t \in Shared : Owner[t] \in members[t]
    /\ personal \in SUBSET Users
    /\ current \in [Users -> Teams \cup {None}]
    /\ \A u \in Users : /\ current[u] \in Shared => u \in members[current[u]]
                        /\ current[u] = Home => u \in personal
    /\ admin = [a \in Admins |-> NoAdmin]
    /\ req = [r \in Requests |-> NoRequest]
    /\ overtaken = {}
    /\ late = {}
    /\ abandoned = {}
    /\ detached = {}
    /\ raced = {}

-------------------------------------------------------------------------------
(* Administrators *)

\* The archive button shows for a shared team that is not archived, the restore
\* button for one that is; the model is loaded once.
LoadTeam(a, t) ==
    /\ admin[a].at = "idle"
    /\ admin' = [admin EXCEPT ![a] = [NoAdmin EXCEPT
                    !.at = IF t \in archived THEN "restore" ELSE "archive", !.team = t]]
    /\ UNCHANGED <<archived, members, personal, current, req, histories>>

\* archived_at is set and saved.
SaveArchived(a) ==
    /\ admin[a].at = "archive"
    /\ archived' = archived \cup {admin[a].team}
    /\ admin' = [admin EXCEPT ![a].at = "saved"]
    /\ overtaken' = overtaken \cup {r \in Requests : /\ req[r].at \in {"switch", "join"}
                                                       /\ req[r].team = admin[a].team}
    /\ UNCHANGED <<members, personal, current, req, late, abandoned, detached, raced>>

\* Mutant of ActingIn: the members of the team who act in it.
MembersActingIn(t) == {u \in members[t] : current[u] = t}

ActingIn(t) == {u \in Users : current[u] = t}

\* Request a is over once nobody is left to move.
Moving(a, queue) ==
    admin' = [admin EXCEPT ![a] = IF queue = {} THEN NoAdmin
                                  ELSE [@ EXCEPT !.at = "moving", !.queue = queue]]

\* get(): those whose current team it is, once.
FetchUsers(a) ==
    LET t == admin[a].team IN
    /\ admin[a].at = "saved"
    /\ Moving(a, ActingIn(t))
    /\ late' = {p \in late : p[2] # t}
    /\ abandoned' = abandoned \ {t}
    /\ UNCHANGED <<archived, members, personal, current, req, overtaken, detached, raced>>

\* One user goes home, wherever that user has gone since.
MoveUser(a, u) ==
    /\ admin[a].at = "moving"
    /\ u \in admin[a].queue
    /\ u \in personal
    /\ current' = [current EXCEPT ![u] = Home]
    /\ Moving(a, admin[a].queue \ {u})
    /\ UNCHANGED <<archived, members, personal, req, histories>>

\* The rest of the queue is never moved: archive() of an archived team returns
\* early.
GiveUp(a) ==
    /\ admin' = [admin EXCEPT ![a] = NoAdmin]
    /\ abandoned' = abandoned \cup {admin[a].team}
    /\ UNCHANGED <<archived, members, personal, current, req, overtaken, late, detached, raced>>

\* Mutant of Raise: the user is tried again.
TryAgain(a) == admin[a].at = "moving" /\ UNCHANGED vars

\* A user without a personal team raises an error.
Raise(a) ==
    /\ admin[a].at = "moving"
    /\ ~ admin[a].queue \subseteq personal
    /\ GiveUp(a)

\* The request dies after the team was archived.
Die(a) == admin[a].at \in {"saved", "moving"} /\ GiveUp(a)

\* restore() of the model that was loaded; nobody is moved back.
Restore(a) ==
    /\ admin[a].at = "restore"
    /\ archived' = archived \ {admin[a].team}
    /\ admin' = [admin EXCEPT ![a] = NoAdmin]
    /\ UNCHANGED <<members, personal, current, req, histories>>

-------------------------------------------------------------------------------
(* Members *)

Has(u, t) == IF t = Home THEN u \in personal ELSE u \in members[t]

\* History: another request about u is under way.
Raced(r) == raced' = IF \E q \in Requests \ {r} : req[q].user = req[r].user
                     THEN raced \cup {req[r].user} ELSE raced

Load(r, u, t, at) ==
    /\ req[r].at = "idle"
    /\ req' = [req EXCEPT ![r] = [at |-> at, user |-> u, team |-> t, loaded |-> current[u]]]
    /\ UNCHANGED <<archived, members, personal, current, admin, histories>>

\* The scope of the model hides archived teams.
Found(t) == t \notin archived

\* switchTeam(): the team is found, and its user belongs to it.
FindTeam(r, u, t) == Found(t) /\ Has(u, t) /\ Load(r, u, t, "switch")

\* acceptInvitation(): the team of an invitation is found.
FindInvitation(r, u, t) == Found(t) /\ Load(r, u, t, "join")

Removable(u, t) == u \in members[t] /\ u # Owner[t]

\* removeUser(): the member is loaded.
FindMember(r, u, t) == Removable(u, t) /\ Load(r, u, t, "leave")

\* save() of a current team: written if it differs from the one loaded.
Written(r, t) ==
    LET u == req[r].user IN
    /\ current' = [current EXCEPT ![u] = IF req[r].loaded = t THEN @ ELSE t]
    /\ late' = IF t \in archived /\ r \in overtaken THEN late \cup {<<u, t>>} ELSE late

\* The switch is saved, after the membership if an invitation was accepted.
Switch(r) ==
    LET t == req[r].team
        u == req[r].user
    IN
    /\ req[r].at \in {"switch", "join"}
    /\ Written(r, t)
    /\ IF req[r].at = "join"
       THEN /\ members' = [members EXCEPT ![t] = @ \cup {u}]
            /\ detached' = detached \ {<<u, t>>}
       ELSE UNCHANGED <<members, detached>>
    /\ overtaken' = overtaken \ {r}
    /\ Raced(r)
    /\ req' = [req EXCEPT ![r] = Done]
    /\ UNCHANGED <<archived, personal, admin, abandoned>>

\* Mutant of Left: the current team stays.
LeftOpen(team, loaded) == FALSE

\* Whether removeUser() takes the current team away.
Left(team, loaded) == loaded = team

\* removeUser(): the current team is taken away if it was the one.
TakeAway(r) ==
    /\ req[r].at = "leave"
    /\ current' = [current EXCEPT ![req[r].user] = IF Left(req[r].team, req[r].loaded)
                                                   THEN None ELSE @]
    /\ Raced(r)
    /\ req' = [req EXCEPT ![r].at = "detach", ![r].loaded = None]
    /\ UNCHANGED <<archived, members, personal, admin, overtaken, late, abandoned, detached>>

\* removeUser(): the membership ends.
Leave(r) ==
    /\ req[r].at = "detach"
    /\ members' = [members EXCEPT ![req[r].team] = @ \ {req[r].user}]
    /\ Raced(r)
    /\ req' = [req EXCEPT ![r] = Done]
    /\ UNCHANGED <<archived, personal, current, admin, overtaken, late, abandoned, detached>>

\* removeTeamMember() of the service: the membership alone.
Detach(u, t) ==
    /\ Removable(u, t)
    /\ members' = [members EXCEPT ![t] = @ \ {u}]
    /\ detached' = detached \cup {<<u, t>>}
    /\ UNCHANGED <<archived, personal, current, admin, req, overtaken, late, abandoned, raced>>

\* CreateTeam of Jetstream: a personal team, to which its owner switches.
CreateTeam(u) ==
    /\ u \notin personal
    /\ personal' = personal \cup {u}
    /\ current' = [current EXCEPT ![u] = Home]
    /\ UNCHANGED <<archived, members, admin, req, histories>>

-------------------------------------------------------------------------------
ArchiveStep(a) ==
    \/ SaveArchived(a)
    \/ FetchUsers(a)
    \/ \E u \in Users : MoveUser(a, u)
    \/ Raise(a)

AdminStep(a) ==
    \/ \E t \in Shared : LoadTeam(a, t)
    \/ ArchiveStep(a)
    \/ Die(a)
    \/ Restore(a)

RequestStep(r) ==
    \/ \E u \in Users, t \in Teams : FindTeam(r, u, t)
    \/ \E u \in Users, t \in Shared : FindInvitation(r, u, t) \/ FindMember(r, u, t)
    \/ Switch(r)
    \/ TakeAway(r)
    \/ Leave(r)

Next ==
    \/ \E a \in Admins : AdminStep(a)
    \/ \E r \in Requests : RequestStep(r)
    \/ \E u \in Users, t \in Shared : Detach(u, t)
    \/ \E u \in Users : CreateTeam(u)

Spec == Init /\ [][Next]_vars

\* An archive that does not die goes on.
FairSpec == Spec /\ \A a \in Admins : WF_vars(ArchiveStep(a))

-------------------------------------------------------------------------------
AdminRecord == [at: {"idle", "archive", "restore", "saved", "moving"},
                team: Shared \cup {None}, queue: SUBSET Users]

RequestRecord == [at: {"idle", "switch", "join", "leave", "detach", "done"},
                  user: Users \cup {None}, team: Teams \cup {None},
                  loaded: Teams \cup {None}]

AdminTyped(x) == /\ x \in AdminRecord
                 /\ x.at # "idle" => x.team \in Shared
                 /\ x.at = "moving" <=> x.queue # {}

RequestTyped(x) ==
    /\ x \in RequestRecord
    /\ x.at \notin {"idle", "done"} => x.user \in Users /\ x.team \in Teams
    /\ x.at \in {"join", "leave", "detach"} => x.team \in Shared

OthersTyped ==
    /\ archived \subseteq Shared
    /\ members \in [Shared -> SUBSET Users]
    /\ personal \subseteq Users
    /\ current \in [Users -> Teams \cup {None}]
    /\ overtaken \subseteq Requests
    /\ late \subseteq Users \X Shared
    /\ abandoned \subseteq Shared
    /\ detached \subseteq Users \X Shared
    /\ raced \subseteq Users

AdminsTyped == admin \in [Admins -> AdminRecord] /\ \A a \in Admins : AdminTyped(admin[a])

RequestsTyped ==
    req \in [Requests -> RequestRecord] /\ \A r \in Requests : RequestTyped(req[r])

\* Every variable has its type, and only a request that moves members has a queue.
TypeOK == OthersTyped /\ AdminsTyped /\ RequestsTyped

\* Request a is about to move u out of t.
Moves(a, u, t) ==
    admin[a].team = t /\ (admin[a].at = "saved" \/ u \in admin[a].queue)

\* u acts in the archived team t, and neither a switch that had found t before nor
\* an archive that stopped on the way explains it.
Stranded(u, t) ==
    current[u] = t /\ t \in archived /\ <<u, t>> \notin late /\ t \notin abandoned

\* 'no session is stranded': who acts in an archived team is about to be moved,
\* switched to it at the same moment, or was left behind by an archive that broke.
NobodyIsLeftBehind ==
    \A u \in Users, t \in Shared : Stranded(u, t) => \E a \in Admins : Moves(a, u, t)

\* Nobody acts in a team that is not theirs, though switches, removals and archives
\* write the two tables in several statements: only a removal through the service,
\* which leaves the current team alone, and requests that overlap break it.
CurrentTeamIsOwn ==
    \A u \in Users : current[u] = None \/ Has(u, current[u]) \/ u \in raced
                     \/ <<u, current[u]>> \in detached

\* Those who act in a team when it is archived leave it in the end.
ArchivedTeamsEmpty == \A u \in Users, t \in Shared : Stranded(u, t) ~> ~Stranded(u, t)
===============================================================================
