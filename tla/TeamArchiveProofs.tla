---------------------------- MODULE TeamArchiveProofs ----------------------------
(***************************************************************************)
(* Proofs about TeamArchive, for any users, teams, administrators and      *)
(* requests, and about the copies of teams (TeamCopy), for any schema,     *)
(* databases and archives.                                                 *)
(***************************************************************************)
EXTENDS TeamArchive, FiniteSetTheorems, TLAPS

\* A request that is about to switch to an archived team found it before.
ArchivesAreNoticed ==
    \A r \in Requests :
        req[r].at \in {"switch", "join"} /\ req[r].team \in archived => r \in overtaken

\* A switch is to a team of the user's, unless a removal came in between.
SwitchesAreOwn ==
    \A r \in Requests :
        req[r].at = "switch" =>
            \/ Has(req[r].user, req[r].team)
            \/ req[r].user \in raced
            \/ <<req[r].user, req[r].team>> \in detached

\* A removal has seen that its user acts in the team, unless a switch came in between.
LeavesHaveSeen ==
    \A r \in Requests :
        req[r].at = "leave" /\ current[req[r].user] = req[r].team =>
            req[r].loaded = req[r].team \/ req[r].user \in raced

\* A membership ends when the user acts elsewhere.
LeaversActElsewhere ==
    \A r \in Requests :
        req[r].at = "detach" =>
            current[req[r].user] # req[r].team \/ req[r].user \in raced

OwnInv ==
    SwitchesAreOwn /\ LeavesHaveSeen /\ LeaversActElsewhere /\ CurrentTeamIsOwn

ArchiveInv == ArchivesAreNoticed /\ NobodyIsLeftBehind

\* What the proofs need to know of the constants: the home team is none of the shared
\* ones.
LEMMA ConstantFacts ==
    /\ Home \notin Shared /\ None \notin Shared /\ None # Home /\ None \notin Users
    /\ Home \in Teams /\ Shared \subseteq Teams /\ None \notin Teams
  BY NamesAreApart DEF Teams

\* The states of rest, of an administrator and of a request, are typed.
LEMMA RestIsTyped ==
    /\ AdminTyped(NoAdmin) /\ NoAdmin.at = "idle" /\ NoAdmin.queue = {}
    /\ NoAdmin.team = None
    /\ RequestTyped(NoRequest) /\ NoRequest.at = "idle" /\ NoRequest.user = None
    /\ RequestTyped(Done) /\ Done.at = "done" /\ Done.user = None
  BY DEF AdminTyped, RequestTyped, AdminRecord, RequestRecord, NoAdmin, NoRequest, Done

\* One record replaced by a typed one.
LEMMA AdminsStayTyped ==
    ASSUME AdminsTyped, NEW a \in Admins, NEW x, AdminTyped(x),
           admin' = [admin EXCEPT ![a] = x]
    PROVE  AdminsTyped'
  <1>1. \A b \in Admins : admin'[b] = IF b = a THEN x ELSE admin[b]
    BY DEF AdminsTyped
  <1>2. x \in AdminRecord /\ \A b \in Admins : AdminTyped(admin[b])
    BY DEF AdminsTyped, AdminTyped
  <1>3. \A b \in Admins : AdminTyped(admin'[b])
    BY <1>1, <1>2
  <1>4. admin' \in [Admins -> AdminRecord]
    BY <1>2 DEF AdminsTyped
  <1>5. QED
    BY <1>3, <1>4 DEF AdminsTyped, AdminTyped, AdminRecord

\* Replacing one request by a typed one keeps all of them typed.
LEMMA RequestsStayTyped ==
    ASSUME RequestsTyped, NEW r \in Requests, NEW x, RequestTyped(x),
           req' = [req EXCEPT ![r] = x]
    PROVE  RequestsTyped'
  <1>1. \A q \in Requests : req'[q] = IF q = r THEN x ELSE req[q]
    BY DEF RequestsTyped
  <1>2. x \in RequestRecord /\ \A q \in Requests : RequestTyped(req[q])
    BY DEF RequestsTyped, RequestTyped
  <1>3. \A q \in Requests : RequestTyped(req'[q])
    BY <1>1, <1>2
  <1>4. req' \in [Requests -> RequestRecord]
    BY <1>2 DEF RequestsTyped
  <1>5. QED
    BY <1>3, <1>4 DEF RequestsTyped, RequestTyped, RequestRecord

\* A step that leaves the administrators alone keeps their types.
LEMMA AdminsUnchanged == AdminsTyped /\ UNCHANGED admin => AdminsTyped'
  BY DEF AdminsTyped, AdminTyped, AdminRecord

\* A step that leaves the requests alone keeps their types.
LEMMA RequestsUnchanged == RequestsTyped /\ UNCHANGED req => RequestsTyped'
  BY DEF RequestsTyped, RequestTyped, RequestRecord

\* At the start nobody is under way and everyone acts at home.
LEMMA InitFacts == Init => TypeOK /\ ArchiveInv /\ OwnInv
  <1> SUFFICES ASSUME Init
               PROVE  TypeOK /\ ArchiveInv /\ OwnInv
    OBVIOUS
  <1>1. AdminsTyped
    BY RestIsTyped DEF Init, AdminsTyped, AdminTyped
  <1>2. RequestsTyped
    BY RestIsTyped DEF Init, RequestsTyped, RequestTyped
  <1>3. OthersTyped
    BY DEF Init, OthersTyped
  <1>4. \A r \in Requests : req[r].at = "idle"
    BY RestIsTyped DEF Init
  <1>5. ArchiveInv
    BY <1>4 DEF Init, ArchiveInv, ArchivesAreNoticed, NobodyIsLeftBehind, Stranded
  <1>6. \A u \in Users : current[u] = None \/ Has(u, current[u])
    BY ConstantFacts DEF Init, Has, Teams
  <1>7. OwnInv
    BY <1>4, <1>6 DEF OwnInv, SwitchesAreOwn, LeavesHaveSeen, LeaversActElsewhere,
                      CurrentTeamIsOwn
  <1>8. QED
    BY <1>1, <1>2, <1>3, <1>5, <1>7 DEF TypeOK
-------------------------------------------------------------------------------
(* Administrators *)

\* Steps that leave what a part of the invariant speaks of.
LEMMA OwnUnchanged ==
    OwnInv /\ UNCHANGED <<members, personal, current, req, detached, raced>> => OwnInv'
  BY DEF OwnInv, SwitchesAreOwn, LeavesHaveSeen, LeaversActElsewhere, CurrentTeamIsOwn, Has

\* ArchiveInv reads only these variables.
LEMMA ArchiveUnchanged ==
    /\ ArchiveInv
    /\ UNCHANGED <<archived, current, admin, req, overtaken, late, abandoned>>
    => ArchiveInv'
  BY DEF ArchiveInv, ArchivesAreNoticed, NobodyIsLeftBehind, Stranded, Moves

\* Loading the team: the administrator has read whether it is archived and written
\* nothing.
LEMMA LoadTeamStep ==
    ASSUME TypeOK, ArchiveInv, OwnInv, NEW a \in Admins, NEW t \in Shared, LoadTeam(a, t)
    PROVE  TypeOK' /\ ArchiveInv' /\ OwnInv'
  <1> DEFINE x == [NoAdmin EXCEPT !.at = IF t \in archived THEN "restore" ELSE "archive",
                                  !.team = t]
  <1>1. AdminTyped(x) /\ x.queue = {}
    BY DEF AdminTyped, AdminRecord, NoAdmin
  <1>2. admin' = [admin EXCEPT ![a] = x]
    BY DEF LoadTeam
  <1> HIDE DEF x
  <1>3. TypeOK'
    <2>1. AdminsTyped'
      BY <1>1, <1>2, AdminsStayTyped DEF TypeOK
    <2>2. RequestsTyped' /\ OthersTyped'
      BY RequestsUnchanged DEF LoadTeam, TypeOK, OthersTyped, histories
    <2>3. QED
      BY <2>1, <2>2 DEF TypeOK
  <1>4. \A b \in Admins : b # a => admin'[b] = admin[b]
    BY <1>2 DEF TypeOK, AdminsTyped
  <1>5. admin[a].queue = {} /\ admin[a].at = "idle"
    BY DEF LoadTeam, TypeOK, AdminsTyped, AdminTyped
  <1>6. ArchiveInv'
    <2>1. ArchivesAreNoticed'
      BY DEF ArchiveInv, ArchivesAreNoticed, LoadTeam, histories
    <2>2. ASSUME NEW u \in Users, NEW v \in Shared, Stranded(u, v)'
          PROVE  \E b \in Admins : Moves(b, u, v)'
      <3>1. PICK b \in Admins : Moves(b, u, v)
        BY <2>2 DEF ArchiveInv, NobodyIsLeftBehind, Stranded, LoadTeam, histories
      <3>2. b # a
        BY <1>5, <3>1 DEF Moves
      <3>3. Moves(b, u, v)'
        BY <1>4, <3>1, <3>2 DEF Moves
      <3>4. QED
        BY <3>3
    <2>3. QED
      BY <2>1, <2>2 DEF ArchiveInv, NobodyIsLeftBehind
  <1>7. QED
    BY <1>3, <1>6, OwnUnchanged DEF LoadTeam, histories

\* The archive is saved: whoever was about to switch to the team has been overtaken by it.
LEMMA SaveArchivedStep ==
    ASSUME TypeOK, ArchiveInv, OwnInv, NEW a \in Admins, SaveArchived(a)
    PROVE  TypeOK' /\ ArchiveInv' /\ OwnInv'
  <1> DEFINE x == [admin[a] EXCEPT !.at = "saved"]
             t == admin[a].team
  <1>1. AdminTyped(admin[a]) /\ admin[a].at = "archive"
    BY DEF TypeOK, AdminsTyped, SaveArchived
  <1>2. AdminTyped(x) /\ x.at = "saved" /\ x.team = t /\ x.queue = admin[a].queue
    BY <1>1 DEF AdminTyped, AdminRecord
  <1>3. admin[a].queue = {} /\ t \in Shared
    BY <1>1 DEF AdminTyped
  <1>4. admin' = [admin EXCEPT ![a] = x]
    BY DEF SaveArchived
  <1>5. /\ admin'[a] = x
        /\ \A b \in Admins : b # a => admin'[b] = admin[b]
    BY <1>4 DEF TypeOK, AdminsTyped
  <1>6. archived' = archived \cup {t}
    BY DEF SaveArchived
  <1> HIDE DEF x, t
  <1>7. TypeOK'
    <2>1. AdminsTyped'
      BY <1>2, <1>4, AdminsStayTyped DEF TypeOK
    <2>2. RequestsTyped'
      BY RequestsUnchanged DEF SaveArchived, TypeOK
    <2>3. OthersTyped'
      BY <1>3, <1>6 DEF SaveArchived, TypeOK, OthersTyped
    <2>4. QED
      BY <2>1, <2>2, <2>3 DEF TypeOK
  <1>8. ArchivesAreNoticed'
    BY <1>6 DEF ArchiveInv, ArchivesAreNoticed, SaveArchived, t
  <1>9. ASSUME NEW u \in Users, NEW v \in Shared, Stranded(u, v)'
        PROVE  \E b \in Admins : Moves(b, u, v)'
    <2>1. CASE v = t
      <3>1. Moves(a, u, v)'
        BY <1>2, <1>5, <2>1 DEF Moves
      <3>2. QED
        BY <3>1
    <2>2. CASE v # t
      <3>1. PICK b \in Admins : Moves(b, u, v)
        BY <1>6, <1>9, <2>2 DEF ArchiveInv, NobodyIsLeftBehind, Stranded, SaveArchived
      <3>2. b # a
        BY <2>2, <3>1 DEF Moves, t
      <3>3. Moves(b, u, v)'
        BY <1>5, <3>1, <3>2 DEF Moves
      <3>4. QED
        BY <3>3
    <2>3. QED
      BY <2>1, <2>2
  <1>10. ArchiveInv'
    BY <1>8, <1>9 DEF ArchiveInv, NobodyIsLeftBehind
  <1>11. QED
    BY <1>7, <1>10, OwnUnchanged DEF SaveArchived

\* A request that goes on with a queue, or ends without one.
LEMMA MovingStep ==
    ASSUME TypeOK, NEW a \in Admins, NEW queue \in SUBSET Users,
           admin[a].team \in Shared, Moving(a, queue)
    PROVE  /\ AdminsTyped'
           /\ \A b \in Admins : b # a => admin'[b] = admin[b]
           /\ admin'[a].queue = queue
           /\ queue # {} => admin'[a].team = admin[a].team
  <1> DEFINE x == IF queue = {} THEN NoAdmin
                  ELSE [admin[a] EXCEPT !.at = "moving", !.queue = queue]
  <1>1. AdminTyped(admin[a])
    BY DEF TypeOK, AdminsTyped
  <1>2. /\ AdminTyped(x) /\ x.queue = queue
        /\ queue # {} => x.team = admin[a].team
    BY <1>1, RestIsTyped DEF AdminTyped, AdminRecord
  <1>3. admin' = [admin EXCEPT ![a] = x]
    BY DEF Moving
  <1> HIDE DEF x
  <1>4. AdminsTyped'
    BY <1>2, <1>3, AdminsStayTyped DEF TypeOK
  <1>5. admin'[a] = x /\ \A b \in Admins : b # a => admin'[b] = admin[b]
    BY <1>3 DEF TypeOK, AdminsTyped
  <1>6. QED
    BY <1>2, <1>4, <1>5

\* The users to move are exactly those whose current team it is at this moment.
LEMMA FetchUsersStep ==
    ASSUME TypeOK, ArchiveInv, OwnInv, NEW a \in Admins, FetchUsers(a)
    PROVE  TypeOK' /\ ArchiveInv' /\ OwnInv'
  <1> DEFINE t == admin[a].team
             queue == ActingIn(t)
  <1>1. t \in Shared /\ queue \in SUBSET Users
    BY DEF FetchUsers, TypeOK, AdminsTyped, AdminTyped, ActingIn
  <1>2. Moving(a, queue)
    BY DEF FetchUsers
  <1>3. /\ AdminsTyped'
        /\ \A b \in Admins : b # a => admin'[b] = admin[b]
        /\ admin'[a].queue = queue
        /\ queue # {} => admin'[a].team = t
    BY <1>1, <1>2, MovingStep
  <1>4. late' = {p \in late : p[2] # t} /\ abandoned' = abandoned \ {t}
    BY DEF FetchUsers
  <1>5. \A u \in Users : current[u] = t => u \in queue
    BY DEF ActingIn
  <1> HIDE DEF t, queue
  <1>6. TypeOK'
    <2>1. RequestsTyped'
      BY RequestsUnchanged DEF FetchUsers, TypeOK
    <2>2. OthersTyped'
      BY <1>4 DEF FetchUsers, TypeOK, OthersTyped
    <2>3. QED
      BY <1>3, <2>1, <2>2 DEF TypeOK
  <1>7. ArchivesAreNoticed'
    BY DEF ArchiveInv, ArchivesAreNoticed, FetchUsers
  <1>8. ASSUME NEW u \in Users, NEW v \in Shared, Stranded(u, v)'
        PROVE  \E b \in Admins : Moves(b, u, v)'
    <2>1. current[u] = v /\ v \in archived
      BY <1>8 DEF Stranded, FetchUsers
    <2>2. CASE v = t
      <3>1. u \in queue
        BY <1>5, <2>1, <2>2
      <3>2. Moves(a, u, v)'
        BY <1>3, <2>2, <3>1 DEF Moves
      <3>3. QED
        BY <3>2
    <2>3. CASE v # t
      <3>1. <<u, v>> \notin late /\ v \notin abandoned
        BY <1>4, <1>8, <2>3 DEF Stranded
      <3>2. PICK b \in Admins : Moves(b, u, v)
        BY <2>1, <3>1 DEF ArchiveInv, NobodyIsLeftBehind, Stranded
      <3>3. b # a
        BY <2>3, <3>2 DEF Moves, t
      <3>4. Moves(b, u, v)'
        BY <1>3, <3>2, <3>3 DEF Moves
      <3>5. QED
        BY <3>4
    <2>4. QED
      BY <2>2, <2>3
  <1>9. QED
    BY <1>6, <1>7, <1>8, OwnUnchanged DEF FetchUsers, ArchiveInv, NobodyIsLeftBehind

\* What TypeOK says of a request at work.
LEMMA RequestFacts ==
    ASSUME TypeOK, NEW r \in Requests
    PROVE  /\ RequestTyped(req[r])
           /\ req[r].at \notin {"idle", "done"} => req[r].user \in Users /\ req[r].team \in Teams
           /\ req[r].at \in {"join", "leave", "detach"} => req[r].team \in Shared
  BY DEF TypeOK, RequestsTyped, RequestTyped

\* A user goes to a personal team.
LEMMA GoesHome ==
    ASSUME TypeOK, OwnInv, NEW u \in Users,
           current' = [current EXCEPT ![u] = Home],
           u \in personal', personal \subseteq personal',
           UNCHANGED <<members, req, detached, raced>>
    PROVE  /\ OwnInv'
           /\ current' \in [Users -> Teams \cup {None}]
  <1>1. /\ current'[u] = Home
        /\ \A v \in Users : v # u => current'[v] = current[v]
        /\ current' \in [Users -> Teams \cup {None}]
    BY ConstantFacts DEF TypeOK, OthersTyped
  <1>2. SwitchesAreOwn'
    BY DEF OwnInv, SwitchesAreOwn, Has
  <1>3. LeavesHaveSeen'
    BY <1>1, ConstantFacts, RequestFacts DEF OwnInv, LeavesHaveSeen
  <1>4. LeaversActElsewhere'
    BY <1>1, ConstantFacts, RequestFacts DEF OwnInv, LeaversActElsewhere
  <1>5. CurrentTeamIsOwn'
    BY <1>1 DEF OwnInv, CurrentTeamIsOwn, Has
  <1>6. QED
    BY <1>1, <1>2, <1>3, <1>4, <1>5 DEF OwnInv

\* One user who has a home is moved there, to a team that is never archived.
LEMMA MoveUserStep ==
    ASSUME TypeOK, ArchiveInv, OwnInv, NEW a \in Admins, NEW u \in Users, MoveUser(a, u)
    PROVE  TypeOK' /\ ArchiveInv' /\ OwnInv'
  <1> DEFINE queue == admin[a].queue \ {u}
  <1>1. AdminTyped(admin[a]) /\ admin[a].at = "moving"
    BY DEF TypeOK, AdminsTyped, MoveUser
  <1>2. admin[a].team \in Shared /\ queue \in SUBSET Users
    BY <1>1 DEF AdminTyped, AdminRecord
  <1>3. Moving(a, queue)
    BY DEF MoveUser
  <1>4. /\ AdminsTyped'
        /\ \A b \in Admins : b # a => admin'[b] = admin[b]
        /\ admin'[a].queue = queue
        /\ queue # {} => admin'[a].team = admin[a].team
    BY <1>2, <1>3, MovingStep
  <1>5. OwnInv' /\ current' \in [Users -> Teams \cup {None}]
    BY GoesHome DEF MoveUser, histories
  <1>6. \A v \in Users : v # u => current'[v] = current[v]
    BY DEF MoveUser, TypeOK, OthersTyped
  <1>7. current'[u] = Home
    BY DEF MoveUser, TypeOK, OthersTyped
  <1>8. \A v \in Users : v # u /\ v \in admin[a].queue => v \in queue
    OBVIOUS
  <1> HIDE DEF queue
  <1>9. TypeOK'
    <2>1. RequestsTyped'
      BY RequestsUnchanged DEF MoveUser, TypeOK
    <2>2. OthersTyped'
      BY <1>5 DEF MoveUser, TypeOK, OthersTyped, histories
    <2>3. QED
      BY <1>4, <2>1, <2>2 DEF TypeOK
  <1>10. ArchivesAreNoticed'
    BY DEF ArchiveInv, ArchivesAreNoticed, MoveUser, histories
  <1>11. ASSUME NEW v \in Users, NEW t \in Shared, Stranded(v, t)'
         PROVE  \E b \in Admins : Moves(b, v, t)'
    <2>1. v # u
      BY <1>7, <1>11, ConstantFacts DEF Stranded
    <2>2. Stranded(v, t)
      BY <1>6, <1>11, <2>1 DEF Stranded, MoveUser, histories
    <2>3. PICK b \in Admins : Moves(b, v, t)
      BY <2>2 DEF ArchiveInv, NobodyIsLeftBehind
    <2>4. CASE b = a
      <3>1. v \in queue /\ admin[a].team = t
        BY <1>1, <1>8, <2>1, <2>3, <2>4 DEF Moves
      <3>2. Moves(a, v, t)'
        BY <1>4, <3>1 DEF Moves
      <3>3. QED
        BY <3>2
    <2>5. CASE b # a
      <3>1. Moves(b, v, t)'
        BY <1>4, <2>3, <2>5 DEF Moves
      <3>2. QED
        BY <3>1
    <2>6. QED
      BY <2>4, <2>5
  <1>12. QED
    BY <1>5, <1>9, <1>10, <1>11 DEF ArchiveInv, NobodyIsLeftBehind

\* A request that ends without moving the rest of its queue.
LEMMA EndsStep ==
    ASSUME TypeOK, NEW a \in Admins, admin' = [admin EXCEPT ![a] = NoAdmin]
    PROVE  AdminsTyped' /\ \A b \in Admins : b # a => admin'[b] = admin[b]
  BY RestIsTyped, AdminsStayTyped DEF TypeOK, AdminsTyped

\* An archive that breaks off is recorded as abandoned, which the promise excepts.
LEMMA GiveUpStep ==
    ASSUME TypeOK, ArchiveInv, OwnInv, NEW a \in Admins, admin[a].at # "idle", GiveUp(a)
    PROVE  TypeOK' /\ ArchiveInv' /\ OwnInv'
  <1>1. AdminsTyped' /\ \A b \in Admins : b # a => admin'[b] = admin[b]
    BY EndsStep DEF GiveUp
  <1>2. admin[a].team \in Shared
    BY DEF TypeOK, AdminsTyped, AdminTyped
  <1>3. abandoned' = abandoned \cup {admin[a].team}
    BY DEF GiveUp
  <1>4. TypeOK'
    <2>1. RequestsTyped'
      BY RequestsUnchanged DEF GiveUp, TypeOK
    <2>2. OthersTyped'
      BY <1>2, <1>3 DEF GiveUp, TypeOK, OthersTyped
    <2>3. QED
      BY <1>1, <2>1, <2>2 DEF TypeOK
  <1>5. ArchivesAreNoticed'
    BY DEF ArchiveInv, ArchivesAreNoticed, GiveUp
  <1>6. ASSUME NEW u \in Users, NEW t \in Shared, Stranded(u, t)'
        PROVE  \E b \in Admins : Moves(b, u, t)'
    <2>1. Stranded(u, t) /\ t # admin[a].team
      BY <1>3, <1>6 DEF Stranded, GiveUp
    <2>2. PICK b \in Admins : Moves(b, u, t)
      BY <2>1 DEF ArchiveInv, NobodyIsLeftBehind
    <2>3. b # a
      BY <2>1, <2>2 DEF Moves
    <2>4. Moves(b, u, t)'
      BY <1>1, <2>2, <2>3 DEF Moves
    <2>5. QED
      BY <2>4
  <1>7. QED
    BY <1>4, <1>5, <1>6, OwnUnchanged DEF GiveUp, ArchiveInv, NobodyIsLeftBehind

\* A restored team is not archived: the promise says nothing of it any more.
LEMMA RestoreStep ==
    ASSUME TypeOK, ArchiveInv, OwnInv, NEW a \in Admins, Restore(a)
    PROVE  TypeOK' /\ ArchiveInv' /\ OwnInv'
  <1>1. AdminsTyped' /\ \A b \in Admins : b # a => admin'[b] = admin[b]
    BY EndsStep DEF Restore
  <1>2. admin[a].queue = {} /\ admin[a].at = "restore"
    BY DEF TypeOK, AdminsTyped, AdminTyped, Restore
  <1>3. archived' \subseteq archived
    BY DEF Restore
  <1>4. TypeOK'
    <2>1. RequestsTyped'
      BY RequestsUnchanged DEF Restore, TypeOK
    <2>2. OthersTyped'
      BY <1>3 DEF Restore, TypeOK, OthersTyped, histories
    <2>3. QED
      BY <1>1, <2>1, <2>2 DEF TypeOK
  <1>5. ArchivesAreNoticed'
    BY <1>3 DEF ArchiveInv, ArchivesAreNoticed, Restore, histories
  <1>6. ASSUME NEW u \in Users, NEW t \in Shared, Stranded(u, t)'
        PROVE  \E b \in Admins : Moves(b, u, t)'
    <2>1. Stranded(u, t)
      BY <1>3, <1>6 DEF Stranded, Restore, histories
    <2>2. PICK b \in Admins : Moves(b, u, t)
      BY <2>1 DEF ArchiveInv, NobodyIsLeftBehind
    <2>3. b # a
      BY <1>2, <2>2 DEF Moves
    <2>4. Moves(b, u, t)'
      BY <1>1, <2>2, <2>3 DEF Moves
    <2>5. QED
      BY <2>4
  <1>7. QED
    BY <1>4, <1>5, <1>6, OwnUnchanged DEF Restore, histories, ArchiveInv, NobodyIsLeftBehind

-------------------------------------------------------------------------------
(* Members *)

\* Who acts in an archived team is as before, or switched to it late.
LEMMA StrandedAsBefore ==
    ASSUME ArchiveInv, UNCHANGED <<archived, admin, abandoned>>,
           \A u \in Users, t \in Shared : Stranded(u, t)' => Stranded(u, t)
    PROVE  NobodyIsLeftBehind'
  <1>1. ASSUME NEW u \in Users, NEW t \in Shared, Stranded(u, t)'
        PROVE  \E b \in Admins : Moves(b, u, t)'
    <2>1. PICK b \in Admins : Moves(b, u, t)
      BY <1>1 DEF ArchiveInv, NobodyIsLeftBehind
    <2>2. Moves(b, u, t)'
      BY <2>1 DEF Moves
    <2>3. QED
      BY <2>2
  <1>2. QED
    BY <1>1 DEF NobodyIsLeftBehind

\* A request loads user and team; its checks hold at this moment.
LEMMA LoadStep ==
    ASSUME TypeOK, ArchiveInv, OwnInv, NEW r \in Requests, NEW u \in Users,
           NEW t \in Teams, NEW at \in {"switch", "join", "leave"}, Load(r, u, t, at),
           at # "switch" => t \in Shared,
           at = "switch" => Has(u, t),
           at # "leave" => t \notin archived
    PROVE  TypeOK' /\ ArchiveInv' /\ OwnInv'
  <1> DEFINE x == [at |-> at, user |-> u, team |-> t, loaded |-> current[u]]
  <1>1. RequestTyped(x)
    BY DEF RequestTyped, RequestRecord, TypeOK, OthersTyped
  <1>2. req' = [req EXCEPT ![r] = x]
    BY DEF Load
  <1>3. req'[r] = x /\ \A q \in Requests : q # r => req'[q] = req[q]
    BY <1>2 DEF TypeOK, RequestsTyped
  <1>4. x.at = at /\ x.user = u /\ x.team = t /\ x.loaded = current[u]
    OBVIOUS
  <1> HIDE DEF x
  <1>5. UNCHANGED <<archived, members, personal, current, admin, overtaken, late,
                    abandoned, detached, raced>>
    BY DEF Load, histories
  <1>6. TypeOK'
    <2>1. RequestsTyped'
      BY <1>1, <1>2, RequestsStayTyped DEF TypeOK
    <2>2. AdminsTyped'
      BY <1>5, AdminsUnchanged DEF TypeOK
    <2>3. OthersTyped'
      BY <1>5 DEF TypeOK, OthersTyped
    <2>4. QED
      BY <2>1, <2>2, <2>3 DEF TypeOK
  <1>7. ArchiveInv'
    <2>1. ArchivesAreNoticed'
      BY <1>3, <1>4, <1>5 DEF ArchiveInv, ArchivesAreNoticed
    <2>2. NobodyIsLeftBehind'
      BY <1>5, StrandedAsBefore DEF Stranded
    <2>3. QED
      BY <2>1, <2>2 DEF ArchiveInv
  <1>8. OwnInv'
    <2>1. SwitchesAreOwn'
      BY <1>3, <1>4, <1>5 DEF OwnInv, SwitchesAreOwn, Has
    <2>2. LeavesHaveSeen'
      BY <1>3, <1>4, <1>5 DEF OwnInv, LeavesHaveSeen
    <2>3. LeaversActElsewhere'
      BY <1>3, <1>4, <1>5 DEF OwnInv, LeaversActElsewhere
    <2>4. CurrentTeamIsOwn'
      BY <1>5 DEF OwnInv, CurrentTeamIsOwn, Has
    <2>5. QED
      BY <2>1, <2>2, <2>3, <2>4 DEF OwnInv
  <1>9. QED
    BY <1>6, <1>7, <1>8

\* A request that overlapped another about its user is remembered.
LEMMA RacedFacts ==
    ASSUME TypeOK, NEW r \in Requests, req[r].user \in Users, Raced(r)
    PROVE  /\ raced \subseteq raced' /\ raced' \subseteq Users
           /\ \A q \in Requests : q # r /\ req[q].user = req[r].user => req[q].user \in raced'
  BY DEF Raced, TypeOK, OthersTyped

\* A switch writes the team checked before; if it was archived meanwhile, the request was
\* overtaken.
LEMMA SwitchStep ==
    ASSUME TypeOK, ArchiveInv, OwnInv, NEW r \in Requests, Switch(r)
    PROVE  TypeOK' /\ ArchiveInv' /\ OwnInv'
  <1> DEFINE u == req[r].user
             t == req[r].team
             HasAfter(v, w) == IF w = Home THEN v \in personal' ELSE v \in members'[w]
  <1>1. /\ u \in Users /\ t \in Teams
        /\ req[r].at \in {"switch", "join"}
        /\ req[r].at = "join" => t \in Shared
    BY RequestFacts DEF Switch
  <1>2. current' = [current EXCEPT ![u] = IF req[r].loaded = t THEN @ ELSE t]
    BY DEF Switch, Written
  <1>3. /\ current'[u] = current[u] \/ current'[u] = t
        /\ \A v \in Users : v # u => current'[v] = current[v]
        /\ current' \in [Users -> Teams \cup {None}]
    BY <1>1, <1>2 DEF TypeOK, OthersTyped
  <1>4. IF req[r].at = "join"
        THEN /\ members' = [members EXCEPT ![t] = @ \cup {u}]
             /\ detached' = detached \ {<<u, t>>}
        ELSE UNCHANGED <<members, detached>>
    BY DEF Switch
  <1>5. /\ members' \in [Shared -> SUBSET Users]
        /\ \A v \in Shared : members[v] \subseteq members'[v]
        /\ req[r].at = "join" => u \in members'[t]
    BY <1>1, <1>4 DEF TypeOK, OthersTyped
  <1>6. /\ detached' \subseteq detached
        /\ \A v, w : <<v, w>> \in detached /\ <<v, w>> \notin detached' =>
                        v = u /\ w = t /\ req[r].at = "join"
    BY <1>4
  <1>7. late' = IF t \in archived /\ r \in overtaken THEN late \cup {<<u, t>>} ELSE late
    BY DEF Switch, Written
  <1>8. req' = [req EXCEPT ![r] = Done]
    BY DEF Switch
  <1>9. req'[r] = Done /\ \A q \in Requests : q # r => req'[q] = req[q]
    BY <1>8 DEF TypeOK, RequestsTyped
  <1>10. /\ raced \subseteq raced' /\ raced' \subseteq Users
         /\ \A q \in Requests : q # r /\ req[q].user = u => req[q].user \in raced'
    BY <1>1, RacedFacts DEF Switch
  <1>11. UNCHANGED <<archived, personal, admin, abandoned>> /\ overtaken' = overtaken \ {r}
    BY DEF Switch
  <1>12. r \in overtaken \/ t \notin archived
    BY <1>1 DEF ArchiveInv, ArchivesAreNoticed
  <1>13. SwitchesAreOwn /\ LeavesHaveSeen /\ LeaversActElsewhere /\ CurrentTeamIsOwn
    BY DEF OwnInv
  <1>14. req[r].at = "switch" => Has(u, t) \/ u \in raced \/ <<u, t>> \in detached
    BY <1>13 DEF SwitchesAreOwn
  <1>15. \A v, w : Has(v, w) /\ w \in Teams => HasAfter(v, w)
    BY <1>5, <1>11 DEF Has, Teams
  <1>16. req[r].at = "join" => HasAfter(u, t)
    BY <1>1, <1>5, ConstantFacts DEF Has
  <1>17. \A v, w : HasAfter(v, w) <=> IF w = Home THEN v \in personal' ELSE v \in members'[w]
    OBVIOUS
  <1> HIDE DEF u, t, HasAfter
  <1>18. TypeOK'
    <2>1. RequestsTyped'
      BY <1>8, RestIsTyped, RequestsStayTyped DEF TypeOK
    <2>2. AdminsTyped'
      BY <1>11, AdminsUnchanged DEF TypeOK
    <2>3. late' \subseteq Users \X Shared
      BY <1>1, <1>7 DEF TypeOK, OthersTyped
    <2>4. OthersTyped'
      BY <1>3, <1>5, <1>6, <1>10, <1>11, <2>3 DEF TypeOK, OthersTyped
    <2>5. QED
      BY <2>1, <2>2, <2>4 DEF TypeOK
  <1>19. ArchiveInv'
    <2>1. ArchivesAreNoticed'
      BY <1>9, <1>11, RestIsTyped DEF ArchiveInv, ArchivesAreNoticed
    <2>2. ASSUME NEW v \in Users, NEW w \in Shared, Stranded(v, w)'
          PROVE  Stranded(v, w)
      <3>1. /\ current'[v] = w /\ w \in archived
            /\ <<v, w>> \notin late' /\ w \notin abandoned
        BY <1>11, <2>2 DEF Stranded
      <3>2. v # u \/ w # t
        BY <1>7, <1>12, <3>1
      <3>3. current[v] = w
        BY <1>3, <3>1, <3>2
      <3>4. <<v, w>> \notin late
        BY <1>7, <3>1
      <3>5. QED
        BY <3>1, <3>3, <3>4 DEF Stranded
    <2>3. QED
      BY <1>11, <2>1, <2>2, StrandedAsBefore DEF ArchiveInv
  <1>20. SwitchesAreOwn'
    <2>1. ASSUME NEW q \in Requests, req'[q].at = "switch"
          PROVE  \/ HasAfter(req'[q].user, req'[q].team)
                 \/ req'[q].user \in raced'
                 \/ <<req'[q].user, req'[q].team>> \in detached'
      <3>1. q # r /\ req'[q] = req[q]
        BY <1>9, <2>1, RestIsTyped
      <3>2. req[q].team \in Teams
        BY <2>1, <3>1, RequestFacts
      <3>3. \/ Has(req[q].user, req[q].team)
            \/ req[q].user \in raced
            \/ <<req[q].user, req[q].team>> \in detached
        BY <1>13, <2>1, <3>1 DEF SwitchesAreOwn
      <3>4. CASE req[q].user = u
        BY <1>10, <3>1, <3>4
      <3>5. CASE req[q].user # u
        BY <1>6, <1>10, <1>15, <3>1, <3>2, <3>3, <3>5
      <3>6. QED
        BY <3>4, <3>5
    <2>2. QED
      BY <1>17, <2>1 DEF SwitchesAreOwn, Has
  <1>21. LeavesHaveSeen'
    BY <1>3, <1>9, <1>10, <1>13, RestIsTyped, RequestFacts DEF LeavesHaveSeen
  <1>22. LeaversActElsewhere'
    BY <1>3, <1>9, <1>10, <1>13, RestIsTyped, RequestFacts DEF LeaversActElsewhere
  <1>23. CurrentTeamIsOwn'
    <2>1. ASSUME NEW v \in Users, NEW c, c = current'[v], c # None
          PROVE  HasAfter(v, c) \/ v \in raced' \/ <<v, c>> \in detached'
      <3>1. c \in Teams
        BY <1>3, <2>1
      <3>2. CASE c = current[v]
        <4>1. Has(v, c) \/ v \in raced \/ <<v, c>> \in detached
          BY <1>13, <2>1, <3>2 DEF CurrentTeamIsOwn
        <4>2. QED
          BY <1>6, <1>10, <1>15, <1>16, <3>1, <4>1
      <3>3. CASE c # current[v]
        <4>1. v = u /\ c = t
          BY <1>3, <2>1, <3>3
        <4>2. QED
          BY <1>1, <1>6, <1>10, <1>14, <1>15, <1>16, <3>1, <4>1
      <3>4. QED
        BY <3>2, <3>3
    <2>2. QED
      BY <1>17, <2>1 DEF CurrentTeamIsOwn, Has
  <1>24. QED
    BY <1>18, <1>19, <1>20, <1>21, <1>22, <1>23 DEF OwnInv

\* removeUser(), first half: one who was loaded acting in the team acts in none.
LEMMA TakeAwayStep ==
    ASSUME TypeOK, ArchiveInv, OwnInv, NEW r \in Requests, TakeAway(r)
    PROVE  TypeOK' /\ ArchiveInv' /\ OwnInv'
  <1> DEFINE u == req[r].user
             t == req[r].team
             x == [req[r] EXCEPT !.at = "detach", !.loaded = None]
  <1>1. u \in Users /\ t \in Shared /\ req[r].at = "leave"
    BY RequestFacts DEF TakeAway
  <1>2. RequestTyped(x) /\ x.at = "detach" /\ x.user = u /\ x.team = t
    BY <1>1, RequestFacts DEF RequestTyped, RequestRecord
  <1>3. req' = [req EXCEPT ![r] = x]
    BY DEF TakeAway, TypeOK, RequestsTyped, RequestRecord
  <1>4. req'[r] = x /\ \A q \in Requests : q # r => req'[q] = req[q]
    BY <1>3 DEF TypeOK, RequestsTyped
  <1>5. current' = [current EXCEPT ![u] = IF req[r].loaded = t THEN None ELSE @]
    BY DEF TakeAway, Left
  <1>6. /\ current'[u] = IF req[r].loaded = t THEN None ELSE current[u]
        /\ \A v \in Users : current'[v] = None \/ current'[v] = current[v]
        /\ current' \in [Users -> Teams \cup {None}]
    BY <1>1, <1>5 DEF TypeOK, OthersTyped
  <1>7. raced \subseteq raced' /\ raced' \subseteq Users
    BY <1>1, RacedFacts DEF TakeAway
  <1>8. UNCHANGED <<archived, members, personal, admin, overtaken, late, abandoned, detached>>
    BY DEF TakeAway
  <1>9. SwitchesAreOwn /\ LeavesHaveSeen /\ LeaversActElsewhere /\ CurrentTeamIsOwn
    BY DEF OwnInv
  <1>10. current[u] = t => req[r].loaded = t \/ u \in raced
    BY <1>1, <1>9 DEF LeavesHaveSeen
  <1> HIDE DEF u, t, x
  <1>11. TypeOK'
    <2>1. RequestsTyped'
      BY <1>2, <1>3, RequestsStayTyped DEF TypeOK
    <2>2. AdminsTyped'
      BY <1>8, AdminsUnchanged DEF TypeOK
    <2>3. OthersTyped'
      BY <1>6, <1>7, <1>8 DEF TypeOK, OthersTyped
    <2>4. QED
      BY <2>1, <2>2, <2>3 DEF TypeOK
  <1>12. ArchiveInv'
    <2>1. ArchivesAreNoticed'
      BY <1>2, <1>4, <1>8 DEF ArchiveInv, ArchivesAreNoticed
    <2>2. NobodyIsLeftBehind'
      BY <1>6, <1>8, StrandedAsBefore, ConstantFacts DEF Stranded
    <2>3. QED
      BY <2>1, <2>2 DEF ArchiveInv
  <1>13. SwitchesAreOwn'
    BY <1>2, <1>4, <1>7, <1>8, <1>9 DEF SwitchesAreOwn, Has
  <1>14. LeavesHaveSeen'
    BY <1>2, <1>4, <1>6, <1>7, <1>9, RequestFacts, ConstantFacts DEF LeavesHaveSeen
  <1>15. LeaversActElsewhere'
    <2>1. current'[u] # t \/ u \in raced'
      BY <1>1, <1>6, <1>7, <1>10, ConstantFacts
    <2>2. QED
      BY <1>2, <1>4, <1>6, <1>7, <1>9, <2>1, RequestFacts, ConstantFacts
         DEF LeaversActElsewhere
  <1>16. CurrentTeamIsOwn'
    BY <1>6, <1>7, <1>8, <1>9 DEF CurrentTeamIsOwn, Has
  <1>17. QED
    BY <1>11, <1>12, <1>13, <1>14, <1>15, <1>16 DEF OwnInv

\* removeUser(), second half: the member acts elsewhere by now, or requests about them
\* overlapped.
LEMMA LeaveStep ==
    ASSUME TypeOK, ArchiveInv, OwnInv, NEW r \in Requests, Leave(r)
    PROVE  TypeOK' /\ ArchiveInv' /\ OwnInv'
  <1> DEFINE u == req[r].user
             t == req[r].team
  <1>1. u \in Users /\ t \in Shared /\ req[r].at = "detach"
    BY RequestFacts DEF Leave
  <1>2. members' = [members EXCEPT ![t] = @ \ {u}]
    BY DEF Leave
  <1>3. /\ members' \in [Shared -> SUBSET Users]
        /\ \A v \in Users, w \in Shared : v \in members[w] /\ v \notin members'[w] =>
                                              v = u /\ w = t
    BY <1>2 DEF TypeOK, OthersTyped
  <1>4. req' = [req EXCEPT ![r] = Done]
    BY DEF Leave
  <1>5. req'[r] = Done /\ \A q \in Requests : q # r => req'[q] = req[q]
    BY <1>4 DEF TypeOK, RequestsTyped
  <1>6. /\ raced \subseteq raced' /\ raced' \subseteq Users
        /\ \A q \in Requests : q # r /\ req[q].user = u => req[q].user \in raced'
    BY <1>1, RacedFacts DEF Leave
  <1>7. UNCHANGED <<archived, personal, current, admin, overtaken, late, abandoned, detached>>
    BY DEF Leave
  <1>8. SwitchesAreOwn /\ LeavesHaveSeen /\ LeaversActElsewhere /\ CurrentTeamIsOwn
    BY DEF OwnInv
  <1>9. current[u] # t \/ u \in raced'
    BY <1>1, <1>6, <1>8 DEF LeaversActElsewhere
  <1> HIDE DEF u, t
  <1>10. TypeOK'
    <2>1. RequestsTyped'
      BY <1>4, RestIsTyped, RequestsStayTyped DEF TypeOK
    <2>2. AdminsTyped'
      BY <1>7, AdminsUnchanged DEF TypeOK
    <2>3. OthersTyped'
      BY <1>3, <1>6, <1>7 DEF TypeOK, OthersTyped
    <2>4. QED
      BY <2>1, <2>2, <2>3 DEF TypeOK
  <1>11. ArchiveInv'
    <2>1. ArchivesAreNoticed'
      BY <1>5, <1>7, RestIsTyped DEF ArchiveInv, ArchivesAreNoticed
    <2>2. NobodyIsLeftBehind'
      BY <1>7, StrandedAsBefore DEF Stranded
    <2>3. QED
      BY <2>1, <2>2 DEF ArchiveInv
  <1>12. SwitchesAreOwn'
    <2>1. ASSUME NEW q \in Requests, req'[q].at = "switch"
          PROVE  \/ IF req'[q].team = Home THEN req'[q].user \in personal'
                                           ELSE req'[q].user \in members'[req'[q].team]
                 \/ req'[q].user \in raced'
                 \/ <<req'[q].user, req'[q].team>> \in detached'
      <3>1. q # r /\ req'[q] = req[q]
        BY <1>5, <2>1, RestIsTyped
      <3>2. req[q].user \in Users /\ req[q].team \in Teams
        BY <2>1, <3>1, RequestFacts
      <3>3. \/ Has(req[q].user, req[q].team)
            \/ req[q].user \in raced
            \/ <<req[q].user, req[q].team>> \in detached
        BY <1>8, <2>1, <3>1 DEF SwitchesAreOwn
      <3>4. CASE req[q].user = u
        BY <1>6, <3>1, <3>4
      <3>5. CASE req[q].user # u
        BY <1>3, <1>6, <1>7, <3>1, <3>2, <3>3, <3>5 DEF Has, Teams
      <3>6. QED
        BY <3>4, <3>5
    <2>2. QED
      BY <2>1 DEF SwitchesAreOwn, Has
  <1>13. LeavesHaveSeen'
    BY <1>5, <1>6, <1>7, <1>8, RestIsTyped DEF LeavesHaveSeen
  <1>14. LeaversActElsewhere'
    BY <1>5, <1>6, <1>7, <1>8, RestIsTyped DEF LeaversActElsewhere
  <1>15. CurrentTeamIsOwn'
    <2>1. ASSUME NEW v \in Users, NEW c, c = current[v], c # None
          PROVE  \/ IF c = Home THEN v \in personal' ELSE v \in members'[c]
                 \/ v \in raced'
                 \/ <<v, c>> \in detached'
      <3>1. c \in Teams
        BY <2>1 DEF TypeOK, OthersTyped
      <3>2. Has(v, c) \/ v \in raced \/ <<v, c>> \in detached
        BY <1>8, <2>1 DEF CurrentTeamIsOwn
      <3>3. QED
        BY <1>3, <1>6, <1>7, <1>9, <2>1, <3>1, <3>2 DEF Has, Teams
    <2>2. QED
      BY <1>7, <2>1 DEF CurrentTeamIsOwn, Has
  <1>16. QED
    BY <1>10, <1>11, <1>12, <1>13, <1>14, <1>15 DEF OwnInv

\* The service ends the membership alone, which is recorded as detached.
LEMMA DetachStep ==
    ASSUME TypeOK, ArchiveInv, OwnInv, NEW u \in Users, NEW t \in Shared, Detach(u, t)
    PROVE  TypeOK' /\ ArchiveInv' /\ OwnInv'
  <1>1. members' = [members EXCEPT ![t] = @ \ {u}] /\ detached' = detached \cup {<<u, t>>}
    BY DEF Detach
  <1>2. /\ members' \in [Shared -> SUBSET Users]
        /\ \A v \in Users, w \in Shared :
              v \in members[w] => v \in members'[w] \/ <<v, w>> \in detached'
    BY <1>1 DEF TypeOK, OthersTyped
  <1>3. UNCHANGED <<archived, personal, current, admin, req, overtaken, late, abandoned, raced>>
    BY DEF Detach
  <1>4. TypeOK'
    <2>1. RequestsTyped' /\ AdminsTyped'
      BY <1>3, RequestsUnchanged, AdminsUnchanged DEF TypeOK
    <2>2. OthersTyped'
      BY <1>1, <1>2, <1>3 DEF TypeOK, OthersTyped
    <2>3. QED
      BY <2>1, <2>2 DEF TypeOK
  <1>5. ArchiveInv'
    BY <1>3, ArchiveUnchanged
  <1>6. \A v \in Users, w \in Teams :
            Has(v, w) \/ v \in raced \/ <<v, w>> \in detached =>
                Has(v, w)' \/ v \in raced' \/ <<v, w>> \in detached'
    BY <1>1, <1>2, <1>3 DEF Has, Teams
  <1>7. SwitchesAreOwn'
    <2>1. ASSUME NEW q \in Requests, req[q].at = "switch"
          PROVE  \/ IF req[q].team = Home THEN req[q].user \in personal'
                                          ELSE req[q].user \in members'[req[q].team]
                 \/ req[q].user \in raced'
                 \/ <<req[q].user, req[q].team>> \in detached'
      <3>1. req[q].user \in Users /\ req[q].team \in Teams
        BY <2>1, RequestFacts
      <3>2. QED
        BY <1>6, <2>1, <3>1 DEF OwnInv, SwitchesAreOwn, Has
    <2>2. QED
      BY <1>3, <2>1 DEF SwitchesAreOwn, Has
  <1>8. LeavesHaveSeen' /\ LeaversActElsewhere'
    BY <1>3 DEF OwnInv, LeavesHaveSeen, LeaversActElsewhere
  <1>9. CurrentTeamIsOwn'
    <2>1. ASSUME NEW v \in Users, NEW c, c = current[v], c # None
          PROVE  \/ IF c = Home THEN v \in personal' ELSE v \in members'[c]
                 \/ v \in raced'
                 \/ <<v, c>> \in detached'
      <3>1. c \in Teams
        BY <2>1 DEF TypeOK, OthersTyped
      <3>2. QED
        BY <1>6, <2>1, <3>1 DEF OwnInv, CurrentTeamIsOwn, Has
    <2>2. QED
      BY <1>3, <2>1 DEF CurrentTeamIsOwn, Has
  <1>10. QED
    BY <1>4, <1>5, <1>7, <1>8, <1>9 DEF OwnInv

\* A home for one who had none: it is theirs, and they act in it.
LEMMA CreateTeamStep ==
    ASSUME TypeOK, ArchiveInv, OwnInv, NEW u \in Users, CreateTeam(u)
    PROVE  TypeOK' /\ ArchiveInv' /\ OwnInv'
  <1>1. UNCHANGED <<archived, members, admin, req, overtaken, late, abandoned, detached, raced>>
    BY DEF CreateTeam, histories
  <1>2. personal' = personal \cup {u} /\ current' = [current EXCEPT ![u] = Home]
    BY DEF CreateTeam
  <1>3. OwnInv' /\ current' \in [Users -> Teams \cup {None}]
    BY <1>1, <1>2, GoesHome
  <1>4. TypeOK'
    <2>1. RequestsTyped' /\ AdminsTyped'
      BY <1>1, RequestsUnchanged, AdminsUnchanged DEF TypeOK
    <2>2. OthersTyped'
      BY <1>1, <1>2, <1>3 DEF TypeOK, OthersTyped
    <2>3. QED
      BY <2>1, <2>2 DEF TypeOK
  <1>5. ArchivesAreNoticed'
    BY <1>1 DEF ArchiveInv, ArchivesAreNoticed
  <1>6. \A v \in Users : current'[v] = current[v] \/ current'[v] = Home
    BY <1>2 DEF TypeOK, OthersTyped
  <1>7. NobodyIsLeftBehind'
    BY <1>1, <1>6, StrandedAsBefore, ConstantFacts DEF Stranded
  <1>8. QED
    BY <1>3, <1>4, <1>5, <1>7 DEF ArchiveInv

-------------------------------------------------------------------------------
\* Every action keeps type and invariants: the lemmas above, one per action.
LEMMA NextStep ==
    ASSUME TypeOK, ArchiveInv, OwnInv, Next
    PROVE  TypeOK' /\ ArchiveInv' /\ OwnInv'
  <1>1. ASSUME NEW a \in Admins, AdminStep(a)
        PROVE  TypeOK' /\ ArchiveInv' /\ OwnInv'
    <2>1. CASE \E t \in Shared : LoadTeam(a, t)
      BY <2>1, LoadTeamStep
    <2>2. CASE SaveArchived(a)
      BY <2>2, SaveArchivedStep
    <2>3. CASE FetchUsers(a)
      BY <2>3, FetchUsersStep
    <2>4. CASE \E u \in Users : MoveUser(a, u)
      BY <2>4, MoveUserStep
    <2>5. CASE Raise(a) \/ Die(a)
      BY <2>5, GiveUpStep DEF Raise, Die
    <2>6. CASE Restore(a)
      BY <2>6, RestoreStep
    <2>7. QED
      BY <1>1, <2>1, <2>2, <2>3, <2>4, <2>5, <2>6 DEF AdminStep, ArchiveStep
  <1>2. ASSUME NEW r \in Requests, RequestStep(r)
        PROVE  TypeOK' /\ ArchiveInv' /\ OwnInv'
    <2>1. CASE \E u \in Users, t \in Teams : FindTeam(r, u, t)
      BY <2>1, LoadStep DEF FindTeam, Found
    <2>2. CASE \E u \in Users, t \in Shared : FindInvitation(r, u, t)
      BY <2>2, LoadStep, ConstantFacts DEF FindInvitation, Found
    <2>3. CASE \E u \in Users, t \in Shared : FindMember(r, u, t)
      BY <2>3, LoadStep, ConstantFacts DEF FindMember
    <2>4. CASE Switch(r)
      BY <2>4, SwitchStep
    <2>5. CASE TakeAway(r)
      BY <2>5, TakeAwayStep
    <2>6. CASE Leave(r)
      BY <2>6, LeaveStep
    <2>7. QED
      BY <1>2, <2>1, <2>2, <2>3, <2>4, <2>5, <2>6 DEF RequestStep
  <1>3. ASSUME NEW u \in Users, NEW t \in Shared, Detach(u, t)
        PROVE  TypeOK' /\ ArchiveInv' /\ OwnInv'
    BY <1>3, DetachStep
  <1>4. ASSUME NEW u \in Users, CreateTeam(u)
        PROVE  TypeOK' /\ ArchiveInv' /\ OwnInv'
    BY <1>4, CreateTeamStep
  <1>5. QED
    BY <1>1, <1>2, <1>3, <1>4 DEF Next

\* A stuttering step keeps type and invariants.
LEMMA StutterStep ==
    TypeOK /\ ArchiveInv /\ OwnInv /\ UNCHANGED vars => TypeOK' /\ ArchiveInv' /\ OwnInv'
  <1> SUFFICES ASSUME TypeOK, ArchiveInv, OwnInv, UNCHANGED vars
               PROVE  TypeOK' /\ ArchiveInv' /\ OwnInv'
    OBVIOUS
  <1>1. OthersTyped'
    BY DEF TypeOK, OthersTyped, vars, histories
  <1>2. RequestsTyped' /\ AdminsTyped'
    BY RequestsUnchanged, AdminsUnchanged DEF TypeOK, vars
  <1>3. QED
    BY <1>1, <1>2, OwnUnchanged, ArchiveUnchanged DEF TypeOK, vars, histories

\* Type and invariants hold throughout.
LEMMA Invariants == Spec => [](TypeOK /\ ArchiveInv /\ OwnInv)
  <1>1. TypeOK /\ ArchiveInv /\ OwnInv /\ [Next]_vars => TypeOK' /\ ArchiveInv' /\ OwnInv'
    BY NextStep, StutterStep
  <1>2. QED
    BY <1>1, InitFacts, PTL DEF Spec

\* Type correctness of teams, memberships, current teams and requests.
THEOREM TypeCorrect == Spec => []TypeOK
  BY Invariants, PTL

\* archive() 'no session is stranded': who acts in an archived team is about to be
\* moved, switched to it at the same moment, or was left behind by an archive that
\* broke, whatever the number of teams, users and requests.
THEOREM SessionsAreMoved == Spec => []NobodyIsLeftBehind
  <1>1. TypeOK /\ ArchiveInv /\ OwnInv => NobodyIsLeftBehind
    BY DEF ArchiveInv
  <1>2. QED
    BY <1>1, Invariants, PTL

\* Switches, invitations and removals leave a user in a team that is not theirs
\* only if two requests about the user overlapped, or the service removed the user.
THEOREM CurrentTeamsAreOwn == Spec => []CurrentTeamIsOwn
  <1>1. TypeOK /\ ArchiveInv /\ OwnInv => CurrentTeamIsOwn
    BY DEF OwnInv
  <1>2. QED
    BY <1>1, Invariants, PTL

-------------------------------------------------------------------------------
(***************************************************************************)
(* New teams made from old ones (TeamCopy), under an instance of their own:*)
(* what becomes of teams is the subject of this module.                    *)
(***************************************************************************)
CONSTANTS Workers, Tables, Cloned, RefTables, Guessed, Required, Declared, MaxId,
          MaxTeams, MaxWrites, Databases, FirstFree, Archives, Importer, Stranger

VARIABLES rows, next, teams, used, copy, writes, kept

Copy == INSTANCE TeamCopy

CopyOf == [step: {"idle", "saved", "copying"}, kind: {"clone", "import"}, team: Copy!TeamIds,
           of: SUBSET Copy!Rows, made: SUBSET [row: Copy!Rows, id: Copy!Ids],
           mine: SUBSET Copy!Rows]

CopyTypes ==
    /\ rows \subseteq Copy!Rows
    /\ next \in [Tables -> Nat]
    /\ teams \subseteq Copy!TeamIds
    /\ used \in Nat
    /\ copy \in [Workers -> CopyOf]

\* A key that a worker or a snapshot holds lies below the counter.
KeysAreTaken ==
    /\ \A x \in rows : x.id < next[x.table]
    /\ \A w \in Workers :
          /\ \A m \in copy[w].made : m.id < next[m.row.table]
          /\ \A y \in copy[w].mine : y.id < next[y.table]

\* No two rows, committed or about to be, have one key.
KeysAreUnique ==
    /\ \A x, y \in rows : Copy!SameKey(x, y) => x = y
    /\ \A w \in Workers : \A m \in copy[w].made :
          /\ \A x \in rows : ~(x.table = m.row.table /\ x.id = m.id)
          /\ \A v \in Workers : \A n \in copy[v].made :
                n.row.table = m.row.table /\ n.id = m.id => v = w /\ n = m

\* But for the excepted rows a reference is to a key that was taken before, and to
\* none of a copy that is not committed.
Settled(x) ==
    /\ x.ref < next[x.to]
    /\ \A w \in Workers : \A m \in copy[w].made : ~(x.to = m.row.table /\ x.ref = m.id)

ReferencesAreSettled ==
    \A x \in rows :
        <<x.table, x.id>> \notin kept /\ x.ref # None /\ x.to # None => Settled(x)

\* What a worker copies has unique keys, and is copied once; an import has no step
\* between its team and its transaction.
CopiesOnce ==
    \A w \in Workers :
        /\ copy[w].step # "copying" => copy[w].made = {} /\ copy[w].mine = {}
        /\ copy[w].step = "saved" => copy[w].kind = "clone"
        /\ \A x, y \in copy[w].of : Copy!SameKey(x, y) => x = y
        /\ \A m \in copy[w].made : m.row \in copy[w].of
        /\ \A m, n \in copy[w].made : m.row = n.row => m = n

\* The rows a new team had in the snapshot keep their team and the table they refer to,
\* and their keys go to no other row.
MineStayMine ==
    \A w \in Workers : \A y \in copy[w].mine :
        /\ copy[w].kind = "clone"
        /\ y.team = copy[w].team
        /\ \A x \in rows : Copy!SameKey(y, x) => x.team = y.team /\ x.to = y.to
        /\ \A v \in Workers : \A m \in copy[v].made : ~(y.table = m.row.table /\ y.id = m.id)

CopyInv ==
    /\ KeysAreTaken /\ KeysAreUnique /\ ReferencesAreSettled
    /\ CopiesOnce /\ MineStayMine /\ Copy!NoForeignReference

\* What the type says of one copy: its step, its team and the rows it reads and makes.
LEMMA CopyFacts ==
    ASSUME CopyTypes, NEW w \in Workers
    PROVE  /\ copy[w] \in CopyOf
           /\ copy[w].step \in {"idle", "saved", "copying"} /\ copy[w].team \in Copy!TeamIds
           /\ copy[w].of \subseteq Copy!Rows /\ copy[w].mine \subseteq Copy!Rows
           /\ \A m \in copy[w].made : m \in [row: Copy!Rows, id: Copy!Ids] /\ m.row \in Copy!Rows /\ m.id \in Copy!Ids
  BY DEF CopyTypes, CopyOf

\* What a worker that opens its snapshot holds is still a copy.
LEMMA SnapshotKept ==
    ASSUME NEW c \in CopyOf, NEW of \in SUBSET Copy!Rows, NEW mine \in SUBSET Copy!Rows
    PROVE  [c EXCEPT !.step = "copying", !.of = of, !.mine = mine] \in CopyOf
  BY DEF CopyOf

\* What the type says of one row: its table, key, team and reference.
LEMMA RowFacts ==
    ASSUME Copy!SchemaAssumption,
           NEW x \in Copy!Rows
    PROVE  /\ x.table \in Tables /\ x.id \in Copy!Ids /\ x.team \in Copy!TeamIds
           /\ x.ref \in Copy!Ids \cup {None} /\ x.user \in {Importer, Stranger, None}
           /\ x.to \in Tables \cup {None} /\ Guessed[x.table] \in Tables \cup {None}
           /\ None \notin Tables /\ None \notin Copy!Ids
  BY DEF Copy!SchemaAssumption, Copy!Rows

\* What the second pass may write into a reference.
LEMMA NewRefCases ==
    ASSUME Copy!SchemaAssumption,
           CopyTypes, NEW w \in Workers, NEW x \in Copy!Rows
    PROVE  LET c == copy[w]
               r == Copy!NewRef(c, x)
           IN  /\ r \in Copy!Ids \cup {None}
               /\ \/ r = None
                  \/ x.ref # None /\ Copy!Rewrites(c, x)
                     /\ \E m \in c.made : /\ m.row.table = Copy!Mapped(c, x)
                                          /\ m.row.id = x.ref /\ r = m.id
                  \/ ~Copy!Rewrites(c, x) /\ r = x.ref
  <1> DEFINE c == copy[w]
             mapped == {m \in c.made : m.row.table = Copy!Mapped(c, x) /\ m.row.id = x.ref}
  <1>1. CASE x.ref = None \/ ~Copy!Rewrites(c, x)
    <2>1. Copy!NewRef(c, x) = x.ref
      BY <1>1 DEF Copy!NewRef
    <2>2. QED
      BY <1>1, <2>1, RowFacts
  <1>2. CASE x.ref # None /\ Copy!Rewrites(c, x) /\ mapped = {}
    BY <1>2 DEF Copy!NewRef
  <1>3. CASE x.ref # None /\ Copy!Rewrites(c, x) /\ mapped # {}
    <2>1. PICK m \in mapped : m = CHOOSE n \in mapped : TRUE
      BY <1>3
    <2>2. Copy!NewRef(c, x) = m.id
      BY <1>3, <2>1 DEF Copy!NewRef
    <2>3. QED
      BY <1>3, <2>2, CopyFacts
  <1>4. QED
    BY <1>1, <1>2, <1>3

\* A committed row keeps its place; only the reference of a row of the new team may
\* change, and only to a row of the copy or to none.
LEMMA PatchedRow ==
    ASSUME Copy!SchemaAssumption,
           CopyTypes, MineStayMine, NEW w \in Workers, NEW x \in rows
    PROVE  LET z == Copy!Patched(copy[w], x)
           IN  /\ z \in Copy!Rows
               /\ Copy!SameKey(z, x) /\ z.team = x.team /\ z.to = x.to
               /\ \/ z = x
                  \/ /\ x.team = copy[w].team
                     /\ \/ z.ref = None \/ z.to = None
                        \/ \E m \in copy[w].made : z.to = m.row.table /\ z.ref = m.id
  <1> DEFINE c == copy[w]
             z == Copy!Patched(c, x)
  <1>1. x \in Copy!Rows
    BY DEF CopyTypes
  <1>2. CASE z = x
    BY <1>1, <1>2 DEF Copy!SameKey
  <1>3. CASE z # x
    <2>1. \E y \in c.mine : Copy!SameKey(y, x)
      BY <1>3 DEF Copy!Patched
    <2>2. PICK y \in c.mine : Copy!SameKey(y, x) /\ y = CHOOSE v \in c.mine : Copy!SameKey(v, x)
      BY <2>1
    <2>3. z = [x EXCEPT !.ref = Copy!NewRef(c, y)]
      BY <1>3, <2>2 DEF Copy!Patched
    <2>4. y \in Copy!Rows /\ x.team = c.team /\ c.kind = "clone" /\ x.to = y.to
      BY <2>2, CopyFacts DEF MineStayMine
    <2>5. PICK r \in Copy!Ids \cup {None} : r = Copy!NewRef(c, y)
      BY <2>4, NewRefCases
    <2>6. z \in Copy!Rows /\ z.ref = r /\ Copy!SameKey(z, x) /\ z.team = x.team /\ z.to = x.to
      BY <1>1, <2>3, <2>5 DEF Copy!Rows, Copy!SameKey
    <2>7. Copy!Mapped(c, y) = x.to /\ (Copy!Rewrites(c, y) <=> x.to # None)
      BY <2>4 DEF Copy!Mapped, Copy!Rewrites
    <2>8. r = None \/ x.to = None \/ \E m \in c.made : m.row.table = x.to /\ r = m.id
      BY <2>4, <2>5, <2>7, NewRefCases
    <2>9. QED
      BY <2>4, <2>6, <2>8
  <1>4. QED
    BY <1>2, <1>3

\* A copied row has its new key and the new team.
LEMMA CopiedRow ==
    ASSUME Copy!SchemaAssumption,
           CopyTypes, NEW w \in Workers, NEW n \in copy[w].made
    PROVE  LET z == Copy!NewRow(copy[w], n)
           IN  /\ z \in Copy!Rows
               /\ z.table = n.row.table /\ z.id = n.id /\ z.team = copy[w].team
               /\ z.to = n.row.to
               /\ z.ref = Copy!NewRef(copy[w], n.row) /\ z.user = Copy!NewUser(copy[w], n.row)
  <1>1. n.row \in Copy!Rows /\ n.id \in Copy!Ids /\ copy[w].team \in Copy!TeamIds
    BY CopyFacts
  <1>2. PICK r \in Copy!Ids \cup {None} : r = Copy!NewRef(copy[w], n.row)
    BY <1>1, NewRefCases
  <1>3. PICK u \in {Importer, Stranger, None} : u = Copy!NewUser(copy[w], n.row)
    BY <1>1, RowFacts DEF Copy!NewUser
  <1>4. Copy!NewRow(copy[w], n) = [table |-> n.row.table, id |-> n.id, team |-> copy[w].team,
                              to |-> n.row.to, ref |-> r, user |-> u]
    BY <1>2, <1>3 DEF Copy!NewRow
  <1>5. Copy!NewRow(copy[w], n) \in Copy!Rows
    BY <1>1, <1>4, RowFacts DEF Copy!Rows
  <1>6. QED
    BY <1>2, <1>3, <1>4, <1>5

\* The reference of a copied row is none, or the key of a row of its copy, unless the
\* import leads it astray.
LEMMA CopiedReference ==
    ASSUME Copy!SchemaAssumption,
           CopyTypes, NEW w \in Workers, NEW n \in copy[w].made,
           copy[w].of = {m.row : m \in copy[w].made}
    PROVE  LET r == Copy!NewRef(copy[w], n.row)
           IN  \/ r = None \/ n.row.to = None
               \/ \E m \in copy[w].made : n.row.to = m.row.table /\ r = m.id
               \/ Copy!Astray(copy[w], n.row)
  <1> DEFINE c == copy[w]
             r == Copy!NewRef(c, n.row)
  <1>1. SUFFICES ASSUME r # None, n.row.to # None, ~Copy!Astray(c, n.row)
                 PROVE  \E m \in c.made : n.row.to = m.row.table /\ r = m.id
    OBVIOUS
  <1>2. n.row \in Copy!Rows /\ c.kind \in {"clone", "import"}
    BY CopyFacts DEF CopyTypes, CopyOf
  <1>3. n.row.ref # None
    BY <1>1 DEF Copy!NewRef
  <1>4. Copy!Mapped(c, n.row) = n.row.to /\ Copy!Rewrites(c, n.row)
    <2>1. CASE c.kind = "clone"
      BY <1>1, <2>1 DEF Copy!Mapped, Copy!Rewrites
    <2>2. CASE c.kind = "import"
      BY <1>1, <1>3, <2>2 DEF Copy!Astray, Copy!Rewrites
    <2>3. QED
      BY <1>2, <2>1, <2>2
  <1>5. QED
    BY <1>1, <1>2, <1>4, NewRefCases

\* What a commit makes of the table.
LEMMA CommittedRows ==
    ASSUME CopyTypes, MineStayMine, NEW w \in Workers, Copy!Commit(w), NEW z \in rows'
    PROVE  \/ \E x \in rows : z = Copy!Patched(copy[w], x)
           \/ \E n \in copy[w].made : z = Copy!NewRow(copy[w], n)
  BY DEF Copy!Commit

\* A starting database satisfies type and invariant, by the assumption on it.
LEMMA CopyInit ==
    ASSUME Copy!BoundsAreNat, Copy!SchemaAssumption, Copy!StartAssumption
    PROVE  Copy!Init => CopyTypes /\ CopyInv
  <1> SUFFICES ASSUME Copy!Init
               PROVE  CopyTypes /\ CopyInv
    OBVIOUS
  <1>1. Copy!Source \in Copy!TeamIds
    BY DEF Copy!BoundsAreNat, Copy!Source, Copy!TeamIds
  <1>2. teams \subseteq Copy!TeamIds
    BY <1>1 DEF Copy!StartAssumption, Copy!Init, Copy!Rows
  <1>3. used \in Nat
    <2>1. 1 \in Int /\ MaxTeams \in Int
      BY DEF Copy!BoundsAreNat
    <2>2. IsFiniteSet(1..MaxTeams)
      BY <2>1, FS_Interval, Zenon
    <2>3. teams \subseteq 1..MaxTeams
      BY <1>2 DEF Copy!TeamIds
    <2>4. Cardinality(teams) \in Nat
      BY <2>2, <2>3, FS_Subset, FS_CardinalityType
    <2>5. Copy!Cardinality(teams) = Cardinality(teams)
      BY DEF Copy!Cardinality, Cardinality
    <2>6. QED
      BY <2>4, <2>5 DEF Copy!Init
  <1>4. Copy!Idle \in CopyOf
    BY <1>1 DEF Copy!Idle, CopyOf
  <1>5. next \in [Tables -> Nat]
    BY DEF Copy!StartAssumption, Copy!BoundsAreNat, Copy!Init
  <1>6. CopyTypes
    BY <1>2, <1>3, <1>4, <1>5 DEF Copy!StartAssumption, Copy!Init, CopyTypes
  <1>7. \A w \in Workers : copy[w].made = {} /\ copy[w].mine = {} /\ copy[w].of = {}
                           /\ copy[w].step = "idle"
    BY DEF Copy!Init, Copy!Idle
  <1>8. KeysAreTaken /\ ReferencesAreSettled
    BY <1>7 DEF Copy!StartAssumption, Copy!SchemaAssumption, Copy!Init, KeysAreTaken,
       ReferencesAreSettled, Settled, Copy!Rows
  <1>9. KeysAreUnique /\ CopiesOnce /\ MineStayMine /\ Copy!NoForeignReference
    BY <1>7 DEF Copy!StartAssumption, Copy!Init, KeysAreUnique, CopiesOnce, MineStayMine,
       Copy!NoForeignReference
  <1>10. QED
    BY <1>6, <1>8, <1>9 DEF CopyInv

\* Every step keeps the types.
LEMMA CopyTypesStep ==
    ASSUME Copy!BoundsAreNat, Copy!SchemaAssumption, Copy!StartAssumption
    PROVE  CopyTypes /\ CopyInv /\ [Copy!Next]_(Copy!vars) => CopyTypes'
  <1> SUFFICES ASSUME CopyTypes, CopyInv, [Copy!Next]_(Copy!vars)
               PROVE  CopyTypes'
    OBVIOUS
  <1>1. CASE UNCHANGED Copy!vars
    BY <1>1 DEF Copy!vars, CopyTypes
  <1>2. ASSUME NEW t \in Tables, NEW team \in Copy!TeamIds, NEW ref \in Copy!Ids \cup {None},
               NEW to \in Tables \cup {None}, Copy!AddRow(t, team, to, ref)
        PROVE  CopyTypes'
    <2>1. [table |-> t, id |-> next[t], team |-> team, to |-> to, ref |-> ref, user |-> None]
             \in Copy!Rows
      BY <1>2 DEF Copy!AddRow, Copy!Rows
    <2>2. QED
      BY <1>2, <2>1 DEF Copy!AddRow, Copy!Write, CopyTypes
  <1>3. ASSUME NEW x \in rows, Copy!DeleteRow(x)
        PROVE  CopyTypes'
    BY <1>3 DEF Copy!DeleteRow, Copy!Write, CopyTypes
  <1>4. ASSUME Copy!TakeTeam
        PROVE  used + 1 \in Copy!TeamIds /\ used' \in Nat
    BY <1>4 DEF Copy!BoundsAreNat, Copy!TakeTeam, Copy!TeamIds, CopyTypes
  <1>5. ASSUME NEW w \in Workers, Copy!BeginClone(w)
        PROVE  CopyTypes'
    <2>1. [Copy!Idle EXCEPT !.step = "saved", !.team = used + 1] \in CopyOf
      BY <1>4, <1>5 DEF Copy!BeginClone, Copy!Idle, CopyOf
    <2>2. QED
      BY <1>4, <1>5, <2>1 DEF Copy!BeginClone, CopyTypes
  <1>6. ASSUME NEW w \in Workers, Copy!OpenSnapshot(w)
        PROVE  CopyTypes'
    <2> DEFINE of == {x \in Copy!OfTeam(Copy!Source) : x.table \in Cloned}
               mine == {x \in Copy!OfTeam(copy[w].team) : x.table \in Cloned}
               c == [copy[w] EXCEPT !.step = "copying", !.of = of, !.mine = mine]
    <2>1. of \subseteq Copy!Rows /\ mine \subseteq Copy!Rows
      BY DEF Copy!OfTeam, CopyTypes
    <2>2. copy' = [copy EXCEPT ![w] = c]
      <3>1. copy' = [copy EXCEPT ![w].step = "copying", ![w].of = of, ![w].mine = mine]
        BY <1>6 DEF Copy!OpenSnapshot
      <3> HIDE DEF of, mine
      <3>2. copy \in [Workers -> CopyOf]
        BY DEF CopyTypes
      <3>3. QED
        BY <3>1, <3>2
    <2> HIDE DEF of, mine
    <2>3. copy[w] \in CopyOf
      BY CopyFacts
    <2>4. c \in CopyOf
      BY <2>1, <2>3, SnapshotKept
    <2> HIDE DEF c
    <2>5. UNCHANGED <<rows, next, teams, used>>
      BY <1>6 DEF Copy!OpenSnapshot
    <2>6. QED
      BY <2>2, <2>4, <2>5 DEF CopyTypes
  <1>7. ASSUME NEW w \in Workers, NEW archive \in Archives, Copy!BeginImport(w, archive)
        PROVE  CopyTypes'
    <2>1. [Copy!Idle EXCEPT !.step = "copying", !.kind = "import", !.team = used + 1,
                       !.of = archive] \in CopyOf
      BY <1>4, <1>7 DEF Copy!StartAssumption, Copy!BeginImport, Copy!Idle, CopyOf
    <2>2. QED
      BY <1>4, <1>7, <2>1 DEF Copy!BeginImport, CopyTypes
  <1>8. ASSUME NEW w \in Workers, NEW x \in copy[w].of, Copy!InsertRow(w, x)
        PROVE  CopyTypes'
    <2>1. x \in Copy!Rows /\ x.table \in Tables
      BY CopyFacts, RowFacts
    <2>2. [row |-> x, id |-> next[x.table]] \in [row: Copy!Rows, id: Copy!Ids]
      BY <1>8, <2>1 DEF Copy!InsertRow
    <2>3. [copy[w] EXCEPT !.made = @ \cup {[row |-> x, id |-> next[x.table]]}] \in CopyOf
      BY <2>2, CopyFacts DEF CopyOf
    <2>4. copy' = [copy EXCEPT ![w] =
                      [copy[w] EXCEPT !.made = @ \cup {[row |-> x, id |-> next[x.table]]}]]
      BY <1>8 DEF Copy!InsertRow
    <2>5. next' \in [Tables -> Nat]
      BY <1>8, <2>1 DEF Copy!InsertRow, CopyTypes
    <2>6. QED
      BY <1>8, <2>3, <2>4, <2>5 DEF Copy!InsertRow, CopyTypes
  <1>9. ASSUME NEW w \in Workers, Copy!Commit(w)
        PROVE  CopyTypes'
    <2>1. \A z \in rows' : z \in Copy!Rows
      BY <1>9, CommittedRows, PatchedRow, CopiedRow DEF CopyInv
    <2>2. Copy!Idle \in CopyOf
      BY DEF Copy!BoundsAreNat, Copy!Idle, CopyOf, Copy!Source, Copy!TeamIds
    <2>3. teams' \subseteq Copy!TeamIds /\ UNCHANGED <<next, used>> /\ copy' = [copy EXCEPT ![w] = Copy!Idle]
      BY <1>9, CopyFacts DEF Copy!Commit, CopyTypes
    <2>4. QED
      BY <2>1, <2>2, <2>3 DEF CopyTypes
  <1>10. ASSUME NEW w \in Workers, Copy!Fail(w)
         PROVE  CopyTypes'
    <2>1. Copy!Idle \in CopyOf
      BY DEF Copy!BoundsAreNat, Copy!Idle, CopyOf, Copy!Source, Copy!TeamIds
    <2>2. QED
      BY <1>10, <2>1 DEF Copy!Fail, CopyTypes
  <1>11. QED
    BY <1>1, <1>2, <1>3, <1>5, <1>6, <1>7, <1>8, <1>9, <1>10 DEF Copy!Next

\* A write of another user.
LEMMA AddRowKeeps ==
    ASSUME Copy!SchemaAssumption,
           CopyTypes, CopyInv, NEW t \in Tables, NEW team \in Copy!TeamIds,
           NEW to \in Tables \cup {None}, NEW ref \in Copy!Ids \cup {None},
           Copy!AddRow(t, team, to, ref)
    PROVE  CopyInv'
  <1> DEFINE z == [table |-> t, id |-> next[t], team |-> team, to |-> to, ref |-> ref,
                    user |-> None]
  <1>1. /\ rows' = rows \cup {z} /\ next' = [next EXCEPT ![t] = @ + 1]
        /\ copy' = copy /\ kept' = kept
        /\ z.table = t /\ z.id = next[t] /\ z.team = team /\ z.to = to /\ z.ref = ref
        /\ z \in Copy!Rows
    BY DEF Copy!AddRow, Copy!Write, Copy!Rows
  <1>2. /\ next'[t] = next[t] + 1 /\ \A u \in Tables : next'[u] \in Nat /\ next'[u] >= next[u]
        /\ \A u \in Tables : next[u] \in Nat
    BY <1>1 DEF CopyTypes
  <1>3. \A x \in rows : x.table \in Tables /\ x.id \in Copy!Ids /\ x.id < next[x.table]
    BY RowFacts DEF CopyTypes, CopyInv, KeysAreTaken
  <1>4. \A w \in Workers : \A m \in copy[w].made :
           m.row.table \in Tables /\ m.id \in Nat /\ m.id < next[m.row.table]
    BY CopyFacts, RowFacts DEF CopyInv, KeysAreTaken, Copy!Ids
  <1>5. \A w \in Workers : \A y \in copy[w].mine :
           y.table \in Tables /\ y.id \in Nat /\ y.id < next[y.table]
    BY CopyFacts, RowFacts DEF CopyInv, KeysAreTaken, Copy!Ids
  <1>6. ref = None \/ \E y \in rows : y.team = team /\ to = y.table /\ ref = y.id
    BY DEF Copy!AddRow, Copy!OfTeam
  <1> HIDE DEF z
  <1>7. KeysAreTaken'
    BY <1>1, <1>2, <1>3, <1>4, <1>5 DEF KeysAreTaken, Copy!Ids
  <1>8. KeysAreUnique'
    BY <1>1, <1>2, <1>3, <1>4 DEF CopyInv, KeysAreUnique, Copy!SameKey, Copy!Ids
  <1>9. ReferencesAreSettled'
    <2> SUFFICES ASSUME NEW x \in rows', <<x.table, x.id>> \notin kept', x.ref # None,
                        x.to # None
                 PROVE  /\ x.ref < next'[x.to]
                        /\ \A w \in Workers : \A m \in copy'[w].made :
                              ~(x.to = m.row.table /\ x.ref = m.id)
      BY DEF ReferencesAreSettled, Settled
    <2>1. CASE x \in rows
      <3>1. /\ x.ref < next[x.to]
            /\ \A w \in Workers : \A m \in copy[w].made : ~(x.to = m.row.table /\ x.ref = m.id)
        BY <1>1, <2>1 DEF CopyInv, ReferencesAreSettled, Settled
      <3>2. x.to \in Tables /\ x.ref \in Nat
        BY <2>1, RowFacts DEF CopyTypes, Copy!Ids
      <3>3. QED
        BY <1>1, <1>2, <3>1, <3>2
    <2>2. CASE x = z
      <3>1. PICK y \in rows : y.team = team /\ to = y.table /\ ref = y.id
        BY <1>1, <1>6, <2>2
      <3>2. \A w \in Workers : \A m \in copy[w].made : ~(y.table = m.row.table /\ y.id = m.id)
        BY <3>1 DEF CopyInv, KeysAreUnique
      <3>3. QED
        BY <1>1, <1>2, <1>3, <2>2, <3>1, <3>2 DEF Copy!Ids
    <2>3. QED
      BY <1>1, <2>1, <2>2
  <1>10. CopiesOnce' /\ MineStayMine'
    BY <1>1, <1>2, <1>3, <1>5 DEF CopyInv, CopiesOnce, MineStayMine, Copy!SameKey, Copy!Ids
  <1>11. Copy!NoForeignReference'
    <2> SUFFICES ASSUME NEW x \in rows', NEW y \in rows', Copy!Refers(x, y),
                        <<x.table, x.id>> \notin kept
                 PROVE  x.team = y.team
      BY <1>1 DEF Copy!NoForeignReference
    <2>1. CASE x \in rows /\ y \in rows
      BY <2>1 DEF CopyInv, Copy!NoForeignReference
    <2>2. CASE x = z /\ y \in rows
      <3>1. PICK v \in rows : v.team = team /\ to = v.table /\ ref = v.id
        BY <1>1, <1>3, <1>6, <2>2 DEF Copy!SchemaAssumption, Copy!Refers
      <3>2. v = y
        BY <1>1, <2>2, <3>1 DEF Copy!Refers, CopyInv, KeysAreUnique, Copy!SameKey
      <3>3. QED
        BY <1>1, <2>2, <3>1, <3>2
    <2>3. CASE x \in rows /\ y = z
      <3>1. x.ref # None /\ x.ref = next[t] /\ x.to = t /\ x.to # None
        BY <1>1, <1>2, <2>3 DEF Copy!SchemaAssumption, Copy!Refers, Copy!Rows
      <3>2. x.ref < next[t]
        BY <1>1, <2>3, <3>1 DEF CopyInv, ReferencesAreSettled, Settled
      <3>3. QED
        BY <1>2, <3>1, <3>2
    <2>4. CASE x = z /\ y = z
      BY <2>4
    <2>5. QED
      BY <1>1, <2>1, <2>2, <2>3, <2>4
  <1>12. QED
    BY <1>7, <1>8, <1>9, <1>10, <1>11 DEF CopyInv

\* Without a row the keys of the others are as unique as before, and nobody's own rows
\* change team.
LEMMA DeleteRowKeeps ==
    ASSUME CopyInv, NEW x \in rows, Copy!DeleteRow(x)
    PROVE  CopyInv'
  <1>1. rows' = rows \ {x} /\ UNCHANGED <<next, copy, kept>>
    BY DEF Copy!DeleteRow, Copy!Write
  <1>2. QED
    BY <1>1 DEF CopyInv, KeysAreTaken, KeysAreUnique, ReferencesAreSettled,
       Settled, CopiesOnce, MineStayMine, Copy!NoForeignReference

\* A worker that begins, or gives up, has made nothing yet.
LEMMA FreshCopyKeeps ==
    ASSUME CopyTypes, CopyInv, NEW w \in Workers, NEW c, copy' = [copy EXCEPT ![w] = c],
           UNCHANGED <<rows, next, kept>>,
           c.made = {}, c.mine = {}, c.step = "saved" => c.kind = "clone",
           \A x, y \in c.of : Copy!SameKey(x, y) => x = y
    PROVE  CopyInv'
  <1>1. copy'[w] = c /\ \A v \in Workers \ {w} : copy'[v] = copy[v]
    BY DEF CopyTypes
  <1>2. KeysAreTaken' /\ ReferencesAreSettled' /\ MineStayMine' /\ Copy!NoForeignReference'
    BY <1>1 DEF CopyInv, KeysAreTaken, ReferencesAreSettled, Settled, MineStayMine,
       Copy!NoForeignReference
  <1>3. KeysAreUnique' /\ CopiesOnce'
    BY <1>1 DEF CopyInv, KeysAreUnique, CopiesOnce
  <1>4. QED
    BY <1>2, <1>3 DEF CopyInv

\* A snapshot is a set of committed rows with unique keys, of which nothing has been
\* copied yet.
LEMMA OpenSnapshotKeeps ==
    ASSUME CopyTypes, CopyInv, NEW w \in Workers, Copy!OpenSnapshot(w)
    PROVE  CopyInv'
  <1>1. /\ \A v \in Workers \ {w} : copy'[v] = copy[v]
        /\ copy'[w].step = "copying" /\ copy'[w].made = copy[w].made
        /\ copy'[w].kind = copy[w].kind /\ copy'[w].team = copy[w].team
        /\ copy'[w].of = {x \in Copy!OfTeam(Copy!Source) : x.table \in Cloned}
        /\ copy'[w].mine = {x \in Copy!OfTeam(copy[w].team) : x.table \in Cloned}
        /\ UNCHANGED <<rows, next, kept>>
    BY DEF Copy!OpenSnapshot, CopyTypes, CopyOf
  <1>2. copy[w].made = {} /\ copy[w].kind = "clone"
    BY DEF CopyInv, CopiesOnce, Copy!OpenSnapshot
  <1>3. copy'[w].of \subseteq rows /\ copy'[w].mine \subseteq Copy!OfTeam(copy[w].team)
    BY <1>1 DEF Copy!OfTeam
  <1>4. \A v \in Workers : copy'[v].made = copy[v].made
    BY <1>1
  <1>5. KeysAreTaken' /\ ReferencesAreSettled' /\ Copy!NoForeignReference'
    BY <1>1, <1>3, <1>4 DEF CopyInv, KeysAreTaken, ReferencesAreSettled, Settled,
       Copy!NoForeignReference, Copy!OfTeam
  <1>6. KeysAreUnique'
    BY <1>1, <1>4 DEF CopyInv, KeysAreUnique
  <1>7. CopiesOnce'
    BY <1>1, <1>2, <1>3 DEF CopyInv, CopiesOnce, KeysAreUnique
  <1>8. MineStayMine'
    <2> SUFFICES ASSUME NEW v \in Workers, NEW y \in copy'[v].mine
                 PROVE  /\ copy'[v].kind = "clone"
                        /\ y.team = copy'[v].team
                        /\ \A x \in rows : Copy!SameKey(y, x) => x.team = y.team /\ x.to = y.to
                        /\ \A u \in Workers : \A m \in copy[u].made :
                              ~(y.table = m.row.table /\ y.id = m.id)
      BY <1>1, <1>4 DEF MineStayMine
    <2>1. CASE v = w
      BY <1>1, <1>2, <1>3, <2>1 DEF Copy!OfTeam, CopyInv, KeysAreUnique
    <2>2. CASE v # w
      BY <1>1, <2>2 DEF CopyInv, MineStayMine
    <2>3. QED
      BY <2>1, <2>2
  <1>9. QED
    BY <1>5, <1>6, <1>7, <1>8 DEF CopyInv

\* A copied row takes the next key, which no other row has, and enters the map of keys
\* once.
LEMMA InsertRowKeeps ==
    ASSUME Copy!SchemaAssumption,
           CopyTypes, CopyInv, NEW w \in Workers, NEW x \in copy[w].of, Copy!InsertRow(w, x)
    PROVE  CopyInv'
  <1> DEFINE n == [row |-> x, id |-> next[x.table]]
             t == x.table
  <1>1. /\ copy[w].step = "copying" /\ \A m \in copy[w].made : m.row # x
        /\ copy'[w].step = "copying" /\ copy'[w].kind = copy[w].kind
        /\ copy'[w].team = copy[w].team /\ copy'[w].of = copy[w].of
        /\ copy'[w].mine = copy[w].mine /\ copy'[w].made = copy[w].made \cup {n}
        /\ \A v \in Workers \ {w} : copy'[v] = copy[v]
        /\ next' = [next EXCEPT ![t] = @ + 1] /\ UNCHANGED <<rows, kept>>
    BY DEF Copy!InsertRow, CopyTypes, CopyOf
  <1>2. t \in Tables /\ n.row = x /\ n.row.table = t /\ n.id = next[t] /\ next[t] \in Nat
    BY CopyFacts, RowFacts DEF CopyTypes
  <1>3. /\ next'[t] = next[t] + 1 /\ \A u \in Tables : next'[u] \in Nat /\ next'[u] >= next[u]
        /\ \A u \in Tables : next[u] \in Nat
    BY <1>1, <1>2 DEF CopyTypes
  <1>4. \A y \in rows : y.table \in Tables /\ y.id \in Nat /\ y.id < next[y.table]
    BY RowFacts DEF CopyTypes, CopyInv, KeysAreTaken, Copy!Ids
  <1>5. \A v \in Workers : \A m \in copy[v].made :
           m.row.table \in Tables /\ m.id \in Nat /\ m.id < next[m.row.table]
    BY CopyFacts, RowFacts DEF CopyInv, KeysAreTaken, Copy!Ids
  <1>6. \A v \in Workers : \A y \in copy[v].mine :
           y.table \in Tables /\ y.id \in Nat /\ y.id < next[y.table]
    BY CopyFacts, RowFacts DEF CopyInv, KeysAreTaken, Copy!Ids
  <1>7. \A v \in Workers : /\ copy'[v].mine = copy[v].mine /\ copy'[v].kind = copy[v].kind
                           /\ copy'[v].team = copy[v].team /\ copy'[v].of = copy[v].of
                           /\ copy'[v].step = copy[v].step
    BY <1>1
  <1>8. \A v \in Workers : \A m \in copy'[v].made : m \in copy[v].made \/ (v = w /\ m = n)
    <2> HIDE DEF n
    <2>1. ASSUME NEW m \in copy'[w].made
          PROVE  m \in copy[w].made \/ m = n
      BY <1>1
    <2>2. QED
      BY <1>1, <2>1
  <1> HIDE DEF n, t
  <1>9. KeysAreTaken'
    BY <1>1, <1>2, <1>3, <1>4, <1>5, <1>6, <1>7, <1>8 DEF KeysAreTaken
  <1>10. KeysAreUnique'
    <2>1. \A v \in Workers : \A m \in copy'[v].made : \A y \in rows :
             ~(y.table = m.row.table /\ y.id = m.id)
      BY <1>2, <1>4, <1>8 DEF CopyInv, KeysAreUnique
    <2>2. ASSUME NEW u \in Workers, NEW v \in Workers,
                 NEW m \in copy'[u].made, NEW k \in copy'[v].made,
                 k.row.table = m.row.table, k.id = m.id
          PROVE  u = v /\ m = k
      <3>1. CASE m \in copy[u].made /\ k \in copy[v].made
        BY <2>2, <3>1 DEF CopyInv, KeysAreUnique
      <3>2. CASE m \in copy[u].made /\ v = w /\ k = n
        BY <1>2, <1>5, <2>2, <3>2
      <3>3. CASE u = w /\ m = n /\ k \in copy[v].made
        BY <1>2, <1>5, <2>2, <3>3
      <3>4. QED
        BY <1>8, <3>1, <3>2, <3>3
    <2>3. QED
      BY <1>1, <2>1, <2>2 DEF CopyInv, KeysAreUnique
  <1>11. ReferencesAreSettled'
    <2> SUFFICES ASSUME NEW y \in rows, <<y.table, y.id>> \notin kept, y.ref # None,
                        y.to # None
                 PROVE  /\ y.ref < next'[y.to]
                        /\ \A v \in Workers : \A m \in copy'[v].made :
                              ~(y.to = m.row.table /\ y.ref = m.id)
      BY <1>1 DEF ReferencesAreSettled, Settled
    <2>1. /\ y.ref < next[y.to]
          /\ \A v \in Workers : \A m \in copy[v].made : ~(y.to = m.row.table /\ y.ref = m.id)
      BY DEF CopyInv, ReferencesAreSettled, Settled
    <2>2. y.to \in Tables /\ y.ref \in Nat
      BY RowFacts DEF CopyTypes, Copy!Ids
    <2>3. QED
      BY <1>2, <1>3, <1>8, <2>1, <2>2
  <1>12. CopiesOnce'
    BY <1>1, <1>2, <1>7, <1>8 DEF CopyInv, CopiesOnce
  <1>13. MineStayMine'
    BY <1>1, <1>2, <1>6, <1>7, <1>8 DEF CopyInv, MineStayMine
  <1>14. Copy!NoForeignReference'
    BY <1>1 DEF CopyInv, Copy!NoForeignReference
  <1>15. QED
    BY <1>9, <1>10, <1>11, <1>12, <1>13, <1>14 DEF CopyInv

\* Every committed row, what it refers to, and whether the commit made it.
LEMMA CommitRows ==
    ASSUME Copy!SchemaAssumption,
           CopyTypes, CopyInv, NEW w \in Workers, Copy!Commit(w), NEW z \in rows'
    PROVE  /\ z \in Copy!Rows
           /\ \/ \E x \in rows :
                    /\ z = Copy!Patched(copy[w], x) /\ Copy!SameKey(z, x) /\ z.team = x.team
                    /\ z.to = x.to
                    /\ \/ z.ref = x.ref \/ z.ref = None \/ z.to = None
                       \/ /\ z.team = copy[w].team
                          /\ \E m \in copy[w].made : z.to = m.row.table /\ z.ref = m.id
              \/ \E n \in copy[w].made :
                    /\ z = Copy!NewRow(copy[w], n)
                    /\ z.table = n.row.table /\ z.id = n.id /\ z.team = copy[w].team
                    /\ \/ z.ref = None \/ z.to = None
                       \/ \E m \in copy[w].made : z.to = m.row.table /\ z.ref = m.id
                       \/ <<z.table, z.id>> \in kept'
  <1>1. CASE \E x \in rows : z = Copy!Patched(copy[w], x)
    <2>1. PICK x \in rows : z = Copy!Patched(copy[w], x)
      BY <1>1
    <2>2. QED
      BY <2>1, PatchedRow DEF CopyInv
  <1>2. CASE \E n \in copy[w].made : z = Copy!NewRow(copy[w], n)
    <2>1. PICK n \in copy[w].made : z = Copy!NewRow(copy[w], n)
      BY <1>2
    <2>2. /\ z \in Copy!Rows
          /\ z.table = n.row.table /\ z.id = n.id /\ z.team = copy[w].team
          /\ z.to = n.row.to /\ z.ref = Copy!NewRef(copy[w], n.row)
      BY <2>1, CopiedRow
    <2>3. \/ z.ref = None \/ z.to = None
          \/ \E m \in copy[w].made : z.to = m.row.table /\ z.ref = m.id
          \/ Copy!Astray(copy[w], n.row)
      <3>1. copy[w].of = {m.row : m \in copy[w].made}
        BY DEF Copy!Commit
      <3>2. QED
        BY <2>2, <3>1, CopiedReference
    <2>4. ASSUME Copy!Astray(copy[w], n.row)
          PROVE  <<z.table, z.id>> \in kept'
      <3>1. kept' = kept \cup {<<m.row.table, m.id>> :
                                 m \in {k \in copy[w].made : Copy!Astray(copy[w], k.row)}}
        BY DEF Copy!Commit
      <3>2. QED
        BY <2>2, <2>4, <3>1
    <2>5. QED
      BY <2>1, <2>2, <2>3, <2>4
  <1>3. QED
    BY <1>1, <1>2, CommittedRows DEF CopyInv

\* The committed rows by their keys: those there were keep key, team and the table they
\* refer to, the others are the copies.
LEMMA CommitKeys ==
    ASSUME Copy!SchemaAssumption,
           CopyTypes, CopyInv, NEW w \in Workers, Copy!Commit(w), NEW z \in rows'
    PROVE  \/ \E x \in rows : /\ z = Copy!Patched(copy[w], x) /\ z.table = x.table /\ z.id = x.id
                              /\ z.team = x.team /\ z.to = x.to
           \/ \E n \in copy[w].made : /\ z = Copy!NewRow(copy[w], n) /\ z.table = n.row.table
                                      /\ z.id = n.id /\ z.team = copy[w].team
  <1>1. CASE \E x \in rows : z = Copy!Patched(copy[w], x)
    BY <1>1, PatchedRow DEF CopyInv, Copy!SameKey
  <1>2. CASE \E n \in copy[w].made : z = Copy!NewRow(copy[w], n)
    BY <1>2, CopiedRow
  <1>3. QED
    BY <1>1, <1>2, CommittedRows DEF CopyInv

\* The copies become rows of the new team under keys no row has; the second pass rewrites
\* only its own.
LEMMA CommitKeeps ==
    ASSUME Copy!SchemaAssumption,
           CopyTypes, CopyInv, NEW w \in Workers, Copy!Commit(w)
    PROVE  CopyInv'
  <1> DEFINE c == copy[w]
  <1>1. /\ UNCHANGED next /\ kept \subseteq kept'
        /\ \A v \in Workers \ {w} : copy'[v] = copy[v]
        /\ copy'[w].made = {} /\ copy'[w].mine = {} /\ copy'[w].of = {}
        /\ copy'[w].step = "idle"
    BY DEF Copy!Commit, CopyTypes, Copy!Idle
  <1>2. \A x \in rows : x \in Copy!Rows /\ x.id < next[x.table]
    BY DEF CopyTypes, CopyInv, KeysAreTaken
  <1>3. \A v \in Workers : \A m \in copy'[v].made : v # w /\ m \in copy[v].made
    BY <1>1
  <1>4. \A v \in Workers : \A y \in copy'[v].mine : v # w /\ y \in copy[v].mine
    BY <1>1
  <1>5. \A m \in c.made : m.id < next[m.row.table] /\ m.id \in Nat /\ m.row.table \in Tables
    BY CopyFacts, RowFacts DEF CopyInv, KeysAreTaken, Copy!Ids
  <1>6. KeysAreTaken'
    <2>1. \A z \in rows' : z.id < next[z.table]
      BY <1>2, <1>5, CommitKeys
    <2>2. QED
      BY <1>1, <1>3, <1>4, <2>1 DEF CopyInv, KeysAreTaken
  <1>7. \A x \in rows, n \in c.made : ~(x.table = n.row.table /\ x.id = n.id)
    BY DEF CopyInv, KeysAreUnique
  <1>8. \A m, n \in c.made : m.row.table = n.row.table /\ m.id = n.id => m = n
    BY DEF CopyInv, KeysAreUnique
  <1>9. \A v \in Workers, m \in c.made : \A n \in copy'[v].made :
           ~(m.row.table = n.row.table /\ m.id = n.id)
    BY <1>3 DEF CopyInv, KeysAreUnique
  <1>10. KeysAreUnique'
    <2>1. ASSUME NEW y \in rows', NEW z \in rows', Copy!SameKey(y, z)
          PROVE  y = z
      <3>1. CASE \E x \in rows : /\ y = Copy!Patched(copy[w], x) /\ y.table = x.table
                                /\ y.id = x.id
        BY <1>7, <2>1, <3>1, CommitKeys DEF Copy!SameKey, CopyInv, KeysAreUnique
      <3>2. CASE \E n \in c.made : /\ y = Copy!NewRow(c, n) /\ y.table = n.row.table
                                  /\ y.id = n.id
        BY <1>7, <1>8, <2>1, <3>2, CommitKeys DEF Copy!SameKey
      <3>3. QED
        BY <3>1, <3>2, CommitKeys
    <2>2. ASSUME NEW v \in Workers, NEW m \in copy'[v].made, NEW z \in rows'
          PROVE  ~(z.table = m.row.table /\ z.id = m.id)
      BY <1>3, <1>9, <2>2, CommitKeys DEF CopyInv, KeysAreUnique
    <2>3. QED
      BY <1>3, <2>1, <2>2 DEF CopyInv, KeysAreUnique
  <1>11. ReferencesAreSettled'
    <2> SUFFICES ASSUME NEW z \in rows', <<z.table, z.id>> \notin kept', z.ref # None,
                        z.to # None
                 PROVE  /\ z.ref < next[z.to]
                        /\ \A v \in Workers : \A m \in copy'[v].made :
                              ~(z.to = m.row.table /\ z.ref = m.id)
      BY <1>1 DEF ReferencesAreSettled, Settled
    <2>1. ASSUME NEW x \in rows, Copy!SameKey(z, x), z.to = x.to, z.ref = x.ref
          PROVE  /\ z.ref < next[z.to]
                 /\ \A v \in Workers : \A m \in copy'[v].made :
                       ~(z.to = m.row.table /\ z.ref = m.id)
      BY <1>1, <1>3, <2>1 DEF Copy!SameKey, CopyInv, ReferencesAreSettled, Settled
    <2>2. ASSUME NEW m \in c.made, z.to = m.row.table, z.ref = m.id
          PROVE  /\ z.ref < next[z.to]
                 /\ \A v \in Workers : \A n \in copy'[v].made :
                       ~(z.to = n.row.table /\ z.ref = n.id)
      BY <1>5, <1>9, <2>2
    <2>3. QED
      BY <2>1, <2>2, CommitRows
  <1>12. CopiesOnce'
    BY <1>1 DEF CopyInv, CopiesOnce
  <1>13. MineStayMine'
    <2> SUFFICES ASSUME NEW v \in Workers, NEW y \in copy'[v].mine
                 PROVE  /\ copy'[v].kind = "clone" /\ y.team = copy'[v].team
                        /\ \A z \in rows' : Copy!SameKey(y, z) => z.team = y.team /\ z.to = y.to
                        /\ \A u \in Workers : \A m \in copy'[u].made :
                              ~(y.table = m.row.table /\ y.id = m.id)
      BY DEF MineStayMine
    <2>1. /\ copy'[v] = copy[v] /\ y \in copy[v].mine
      BY <1>1, <1>4
    <2>2. /\ copy[v].kind = "clone" /\ y.team = copy[v].team
          /\ \A x \in rows : Copy!SameKey(y, x) => x.team = y.team /\ x.to = y.to
          /\ \A u \in Workers : \A m \in copy[u].made : ~(y.table = m.row.table /\ y.id = m.id)
      BY <2>1 DEF CopyInv, MineStayMine
    <2>3. \A z \in rows' : Copy!SameKey(y, z) => z.team = y.team /\ z.to = y.to
      <3> SUFFICES ASSUME NEW z \in rows', Copy!SameKey(y, z)
                   PROVE  z.team = y.team /\ z.to = y.to
        OBVIOUS
      <3>1. CASE \E x \in rows : /\ z.table = x.table /\ z.id = x.id
                                /\ z.team = x.team /\ z.to = x.to
        BY <2>2, <3>1 DEF Copy!SameKey
      <3>2. CASE \E n \in c.made : z.table = n.row.table /\ z.id = n.id
        BY <2>2, <3>2 DEF Copy!SameKey
      <3>3. QED
        BY <3>1, <3>2, CommitKeys
    <2>4. QED
      BY <1>3, <2>1, <2>2, <2>3
  <1>14. Copy!NoForeignReference'
    <2> SUFFICES ASSUME NEW x \in rows', NEW y \in rows', Copy!Refers(x, y),
                        <<x.table, x.id>> \notin kept'
                 PROVE  x.team = y.team
      BY DEF Copy!NoForeignReference
    <2>1. /\ y \in Copy!Rows /\ x.ref # None /\ x.to # None
          /\ x.to = y.table /\ x.ref = y.id
      <3>1. y \in Copy!Rows
        BY CommitRows
      <3>2. y.id # None /\ y.table # None
        BY <3>1, RowFacts
      <3>3. QED
        BY <3>1, <3>2 DEF Copy!Refers
    <2>2. CASE \E m \in c.made : x.to = m.row.table /\ x.ref = m.id /\ x.team = c.team
      <3>1. PICK m \in c.made : x.to = m.row.table /\ x.ref = m.id /\ x.team = c.team
        BY <2>2
      <3>2. y.table = m.row.table /\ y.id = m.id
        BY <2>1, <3>1
      <3>3. CASE \E u \in rows : Copy!SameKey(y, u)
        BY <1>7, <3>2, <3>3 DEF Copy!SameKey
      <3>4. CASE \E n \in c.made : y.table = n.row.table /\ y.id = n.id /\ y.team = c.team
        BY <3>1, <3>4
      <3>5. QED
        BY <3>3, <3>4, CommitRows
    <2>3. CASE \E v \in rows : /\ Copy!SameKey(x, v) /\ x.team = v.team /\ x.to = v.to
                              /\ x.ref = v.ref
      <3>1. PICK v \in rows : /\ Copy!SameKey(x, v) /\ x.team = v.team /\ x.to = v.to
                             /\ x.ref = v.ref
        BY <2>3
      <3>2. CASE \E u \in rows : Copy!SameKey(y, u) /\ y.team = u.team
        <4>1. PICK u \in rows : Copy!SameKey(y, u) /\ y.team = u.team
          BY <3>2
        <4>2. Copy!Refers(v, u) /\ <<v.table, v.id>> \notin kept
          BY <1>1, <2>1, <3>1, <4>1 DEF Copy!SameKey, Copy!Refers
        <4>3. QED
          BY <3>1, <4>1, <4>2 DEF CopyInv, Copy!NoForeignReference
      <3>3. CASE \E n \in c.made : y.table = n.row.table /\ y.id = n.id
        <4>1. PICK n \in c.made : y.table = n.row.table /\ y.id = n.id
          BY <3>3
        <4>2. /\ v.ref # None /\ v.to # None /\ <<v.table, v.id>> \notin kept
              /\ v.to = n.row.table /\ v.ref = n.id
          BY <1>1, <2>1, <3>1, <4>1 DEF Copy!SameKey
        <4>3. QED
          BY <4>2 DEF CopyInv, ReferencesAreSettled, Settled
      <3>4. QED
        BY <3>2, <3>3, CommitKeys DEF Copy!SameKey
    <2>4. QED
      BY <2>1, <2>2, <2>3, CommitRows
  <1>15. QED
    BY <1>6, <1>10, <1>11, <1>12, <1>13, <1>14 DEF CopyInv

\* Every step keeps the invariant: the lemmas above, and the steps that touch neither rows
\* nor keys.
LEMMA CopyStep ==
    ASSUME Copy!SchemaAssumption, Copy!StartAssumption
    PROVE  CopyTypes /\ CopyInv /\ [Copy!Next]_(Copy!vars) => CopyInv'
  <1> SUFFICES ASSUME CopyTypes, CopyInv, [Copy!Next]_(Copy!vars)
               PROVE  CopyInv'
    OBVIOUS
  <1>1. CASE UNCHANGED Copy!vars
    BY <1>1 DEF Copy!vars, CopyInv, KeysAreTaken, KeysAreUnique, ReferencesAreSettled,
       Settled, CopiesOnce, MineStayMine, Copy!NoForeignReference
  <1>2. ASSUME NEW w \in Workers, Copy!BeginClone(w)
        PROVE  CopyInv'
    <2> DEFINE c == [Copy!Idle EXCEPT !.step = "saved", !.team = used + 1]
    <2>1. /\ c.made = {} /\ c.mine = {} /\ c.of = {} /\ c.kind = "clone"
          /\ copy' = [copy EXCEPT ![w] = c]
      BY <1>2 DEF Copy!BeginClone, Copy!Idle
    <2> HIDE DEF c
    <2>2. UNCHANGED <<rows, next, kept>>
      BY <1>2 DEF Copy!BeginClone
    <2>3. QED
      BY <2>1, <2>2, FreshCopyKeeps
  <1>3. ASSUME NEW w \in Workers, Copy!Fail(w)
        PROVE  CopyInv'
    <2>1. /\ Copy!Idle.made = {} /\ Copy!Idle.mine = {} /\ Copy!Idle.of = {} /\ Copy!Idle.kind = "clone"
          /\ copy' = [copy EXCEPT ![w] = Copy!Idle]
      BY <1>3 DEF Copy!Fail, Copy!Idle
    <2>2. UNCHANGED <<rows, next, kept>>
      BY <1>3 DEF Copy!Fail
    <2>3. QED
      BY <2>1, <2>2, FreshCopyKeeps
  <1>4. ASSUME NEW w \in Workers, NEW archive \in Archives, Copy!BeginImport(w, archive)
        PROVE  CopyInv'
    <2> DEFINE c == [Copy!Idle EXCEPT !.step = "copying", !.kind = "import", !.team = used + 1,
                                 !.of = archive]
    <2>1. /\ c.made = {} /\ c.mine = {} /\ c.of = archive /\ c.step = "copying"
          /\ copy' = [copy EXCEPT ![w] = c]
      BY <1>4 DEF Copy!BeginImport, Copy!Idle
    <2>2. \A x, y \in archive : Copy!SameKey(x, y) => x = y
      BY DEF Copy!StartAssumption
    <2> HIDE DEF c
    <2>3. UNCHANGED <<rows, next, kept>>
      BY <1>4 DEF Copy!BeginImport
    <2>4. QED
      BY <2>1, <2>2, <2>3, FreshCopyKeeps
  <1>5. QED
    BY <1>1, <1>2, <1>3, <1>4, AddRowKeeps, DeleteRowKeeps, OpenSnapshotKeeps,
       InsertRowKeeps, CommitKeeps DEF Copy!Next

\* Type and invariant hold throughout.
LEMMA CopyInvariant ==
    ASSUME Copy!BoundsAreNat, Copy!SchemaAssumption, Copy!StartAssumption
    PROVE  Copy!Spec => [](CopyTypes /\ CopyInv)
  BY CopyInit, CopyTypesStep, CopyStep, PTL DEF Copy!Spec

\* Whoever copies and writes meanwhile, no row refers to a row of another team, but for
\* the rows whose reference an import led astray.
THEOREM CopyStaysInTeam ==
    ASSUME Copy!BoundsAreNat, Copy!SchemaAssumption, Copy!StartAssumption
    PROVE  Copy!Spec => []Copy!NoForeignReference
  <1>1. CopyInv => Copy!NoForeignReference
    BY DEF CopyInv
  <1>2. QED
    BY <1>1, CopyInvariant, PTL

\* A commit changes the rows of the new team only.
THEOREM CopyTouchesItsTeam ==
    ASSUME Copy!BoundsAreNat, Copy!SchemaAssumption, Copy!StartAssumption
    PROVE  Copy!Spec => Copy!OthersUntouched
  <1>1. ASSUME CopyTypes, CopyInv, NEW w \in Workers, Copy!Commit(w)
        PROVE  {x \in rows' : x.team # copy[w].team} = {x \in rows : x.team # copy[w].team}
    <2>1. ASSUME NEW x \in rows, x.team # copy[w].team
          PROVE  Copy!Patched(copy[w], x) = x
      BY <1>1, <2>1, PatchedRow DEF CopyInv
    <2>2. \A x \in rows : x.team # copy[w].team => x \in rows'
      BY <1>1, <2>1 DEF Copy!Commit
    <2>3. ASSUME NEW z \in rows', z.team # copy[w].team
          PROVE  z \in rows
      <3>1. PICK x \in rows : z = Copy!Patched(copy[w], x) /\ z.team = x.team
        BY <1>1, <2>3, CommitKeys
      <3>2. QED
        BY <2>1, <2>3, <3>1
    <2>4. QED
      BY <2>2, <2>3
  <1>2. CopyTypes /\ CopyInv /\ [Copy!Next]_(Copy!vars) =>
           [\A w \in Workers : Copy!Commit(w) =>
              {x \in rows' : x.team # copy[w].team} = {x \in rows : x.team # copy[w].team}]_(Copy!vars)
    BY <1>1
  <1>3. QED
    BY <1>2, CopyInvariant, PTL DEF Copy!Spec, Copy!OthersUntouched

\* The map from the copied rows to the copies.
Copies(c) == [x \in c.of |-> Copy!NewRow(c, CHOOSE m \in c.made : m.row = x)]

\* A commit makes one new row for each row of the snapshot, the map of keys being the
\* bijection.
LEMMA CopiesAreExact ==
    ASSUME Copy!SchemaAssumption,
           CopyTypes, CopyInv, NEW w \in Workers, Copy!Commit(w)
    PROVE  LET c == copy[w]
               new == {x \in rows' : x.team = c.team /\ ~\E y \in rows : Copy!SameKey(y, x)}
           IN  \E f \in [c.of -> new] :
                  /\ \A x, y \in c.of : f[x] = f[y] => x = y
                  /\ new = {f[x] : x \in c.of}
                  /\ \A x \in c.of :
                        /\ f[x].table = x.table
                        /\ f[x].to = x.to
                        /\ f[x].user = Copy!NewUser(c, x)
                        /\ Copy!RefIsMapped(c, f, x)
  <1> DEFINE c == copy[w]
             new == {x \in rows' : x.team = c.team /\ ~\E y \in rows : Copy!SameKey(y, x)}
             f == Copies(c)
  <1>1. /\ c.of = {m.row : m \in c.made}
        /\ rows' = {Copy!Patched(c, x) : x \in rows} \cup {Copy!NewRow(c, m) : m \in c.made}
    BY DEF Copy!Commit
  <1>2. \A m, n \in c.made : m.row = n.row => m = n
    BY DEF CopyInv, CopiesOnce
  <1>3. \A m, n \in c.made : m.row.table = n.row.table /\ m.id = n.id => m = n
    BY DEF CopyInv, KeysAreUnique
  <1>4. \A m \in c.made : f[m.row] = Copy!NewRow(c, m)
    <2> TAKE m \in c.made
    <2>1. m = CHOOSE n \in c.made : n.row = m.row
      BY <1>2
    <2>2. QED
      BY <1>1, <2>1 DEF Copies
  <1>5. \A m \in c.made : /\ Copy!NewRow(c, m).table = m.row.table /\ Copy!NewRow(c, m).id = m.id
                          /\ Copy!NewRow(c, m).team = c.team
                          /\ Copy!NewRow(c, m).to = m.row.to
                          /\ Copy!NewRow(c, m).user = Copy!NewUser(c, m.row)
                          /\ Copy!NewRow(c, m).ref = Copy!NewRef(c, m.row)
    BY CopiedRow
  <1>6. \A m \in c.made : Copy!NewRow(c, m) \in new
    BY <1>1, <1>5 DEF CopyInv, KeysAreUnique, Copy!SameKey
  <1>7. ASSUME NEW z \in new
        PROVE  \E m \in c.made : z = Copy!NewRow(c, m)
    <2>1. \A x \in rows : Copy!SameKey(x, Copy!Patched(c, x))
      BY PatchedRow DEF CopyInv, Copy!SameKey
    <2>2. QED
      BY <1>1, <1>7, <2>1
  <1> HIDE DEF f
  <1>8. f \in [c.of -> new]
    <2>1. DOMAIN f = c.of /\ f = [x \in c.of |-> f[x]]
      BY DEF f, Copies
    <2>2. \A x \in c.of : f[x] \in new
      BY <1>1, <1>4, <1>6
    <2>3. QED
      BY <2>1, <2>2
  <1>9. ASSUME NEW x \in c.of, NEW y \in c.of, f[x] = f[y]
        PROVE  x = y
    <2>1. PICK m \in c.made, n \in c.made : m.row = x /\ n.row = y
      BY <1>1
    <2>2. Copy!NewRow(c, m) = Copy!NewRow(c, n)
      BY <1>4, <1>9, <2>1
    <2>3. m = n
      BY <1>3, <1>5, <2>2
    <2>4. QED
      BY <2>1, <2>3
  <1>10. new = {f[x] : x \in c.of}
    <2>1. \A z \in new : \E x \in c.of : z = f[x]
      BY <1>1, <1>4, <1>7
    <2>2. \A x \in c.of : f[x] \in new
      BY <1>1, <1>4, <1>6
    <2>3. QED
      BY <2>1, <2>2
  <1>11. ASSUME NEW x \in c.of
         PROVE  /\ f[x].table = x.table /\ f[x].to = x.to
                /\ f[x].user = Copy!NewUser(c, x)
                /\ Copy!RefIsMapped(c, f, x)
    <2>1. PICK n \in c.made : n.row = x
      BY <1>1
    <2>2. /\ f[x].table = x.table /\ f[x].to = x.to /\ f[x].user = Copy!NewUser(c, x)
          /\ f[x].ref = Copy!NewRef(c, x)
      BY <1>4, <1>5, <2>1
    <2>3. x \in Copy!Rows /\ c.kind \in {"clone", "import"}
      BY CopyFacts DEF CopyTypes, CopyOf
    <2> DEFINE target == {y \in c.of : Copy!Refers(x, y)}
               guessed == {y \in c.of : y.table = Guessed[x.table]}
               r == Copy!NewRef(c, x)
    <2>4. ASSUME x.ref # None, x.to # None, ~Copy!Astray(c, x)
          PROVE  IF target = {} THEN r = None ELSE \A y \in target : r = f[y].id
      <3>1. Copy!Mapped(c, x) = x.to /\ Copy!Rewrites(c, x)
        <4>1. CASE c.kind = "clone"
          BY <2>4, <4>1 DEF Copy!Mapped, Copy!Rewrites
        <4>2. CASE c.kind = "import"
          BY <1>1, <2>4, <4>2 DEF Copy!Astray, Copy!Rewrites
        <4>3. QED
          BY <2>3, <4>1, <4>2
      <3> DEFINE mapped == {m \in c.made : m.row.table = Copy!Mapped(c, x) /\ m.row.id = x.ref}
      <3>2. r = IF mapped # {} THEN (CHOOSE m \in mapped : TRUE).id ELSE None
        BY <2>4, <3>1 DEF Copy!NewRef
      <3>3. CASE target = {}
        <4>1. mapped = {}
          BY <1>1, <3>1, <3>3 DEF Copy!Refers
        <4>2. QED
          BY <3>2, <3>3, <4>1
      <3>4. ASSUME NEW y \in target
            PROVE  r = f[y].id
        <4>1. PICK m \in c.made : m.row = y
          BY <1>1
        <4>2. \A k \in mapped : Copy!SameKey(k.row, y) /\ k.row \in c.of
          BY <1>1, <3>1, <3>4 DEF Copy!Refers, Copy!SameKey
        <4>3. \A k \in mapped : k.row = y
          BY <3>4, <4>2 DEF CopyInv, CopiesOnce
        <4>4. mapped = {m}
          BY <1>2, <3>1, <3>4, <4>1, <4>3 DEF Copy!Refers
        <4>5. r = m.id
          BY <3>2, <4>4
        <4>6. QED
          BY <1>4, <1>5, <4>1, <4>5
      <3>5. QED
        BY <3>3, <3>4
    <2>5. ASSUME x.ref # None, x.to = None \/ Copy!Astray(c, x)
          PROVE  IF c.kind = "clone" \/ guessed = {} THEN r = x.ref
                 ELSE r = None \/ \E y \in guessed : y.id = x.ref /\ r = f[y].id
      <3>1. CASE c.kind = "clone" \/ guessed = {}
        <4>1. ~Copy!Rewrites(c, x)
          BY <1>1, <2>3, <2>5, <3>1 DEF Copy!Rewrites, Copy!Mapped, Copy!Astray
        <4>2. QED
          BY <3>1, <4>1 DEF Copy!NewRef
      <3>2. CASE c.kind = "import" /\ guessed # {}
        <4>1. Copy!Mapped(c, x) = Guessed[x.table] /\ Copy!Rewrites(c, x)
          BY <1>1, <3>2 DEF Copy!Rewrites, Copy!Mapped
        <4>2. \/ r = None
              \/ \E m \in c.made : m.row.table = Guessed[x.table] /\ m.row.id = x.ref /\ r = m.id
          BY <2>3, <4>1, NewRefCases
        <4>3. \A m \in c.made : m.row \in c.of /\ f[m.row].id = m.id
          BY <1>1, <1>4, <1>5
        <4>4. QED
          BY <3>2, <4>2, <4>3
      <3>3. QED
        BY <2>3, <3>1, <3>2
    <2>6. x.ref = None => r = None
      BY DEF Copy!NewRef
    <2>7. Copy!RefIsMapped(c, f, x)
      <3> HIDE DEF r
      <3>1. f[x].ref = r
        BY <2>2 DEF r
      <3>2. QED
        BY <2>4, <2>5, <2>6, <3>1 DEF Copy!RefIsMapped
    <2>8. QED
      BY <2>2, <2>7
  <1>12. QED
    BY <1>8, <1>9, <1>10, <1>11

\* A copy is exact: every row once, references as before, and nothing else; the
\* references an import leads astray are left alone, lost, or taken for rows of the table
\* that is guessed.
THEOREM CopiesExactly ==
    ASSUME Copy!BoundsAreNat, Copy!SchemaAssumption, Copy!StartAssumption
    PROVE  Copy!Spec => Copy!CopyIsExact
  <1>1. CopyTypes /\ CopyInv /\ [Copy!Next]_(Copy!vars) =>
           [\A w \in Workers :
              LET c == copy[w]
                  new == {x \in rows' : x.team = c.team /\ ~\E y \in rows : Copy!SameKey(y,
                  x)}
              IN  Copy!Commit(w) =>
                  \E f \in [c.of -> new] :
                     /\ \A x, y \in c.of : f[x] = f[y] => x = y
                     /\ new = {f[x] : x \in c.of}
                     /\ \A x \in c.of :
                           /\ f[x].table = x.table
                           /\ f[x].to = x.to
                           /\ f[x].user = Copy!NewUser(c, x)
                           /\ Copy!RefIsMapped(c, f, x)]_(Copy!vars)
    BY CopiesAreExact
  <1>2. QED
    BY <1>1, CopyInvariant, PTL DEF Copy!Spec, Copy!CopyIsExact
=================================================================================
