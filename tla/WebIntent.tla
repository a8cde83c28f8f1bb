------------------------------- MODULE WebIntent -------------------------------
(***************************************************************************)
(* Web intent of one team: visits, engagements that raise the score of     *)
(* their visit under a row lock and are recorded once per deduplication    *)
(* key, and the consent of a visitor, which its visits show.  What a       *)
(* transaction writes is seen at its commit; until then it holds its locks.*)
(***************************************************************************)
EXTENDS Integers

CONSTANTS
    Visitors,   \* the keys of visitors
    MaxVisits,  \* bound on the primary keys of visits
    First,      \* the visits 1..First exist at the start
    Requests,   \* requests, each runs once
    Keys,       \* deduplication keys
    None,       \* no key, no visitor
    Points,     \* what the scorer gives for an event
    Cap,        \* the highest score (100 in the code)
    Warm,       \* the scores from which a visit is warm and hot (25 and 50)
    Hot

ASSUME BoundsAreNats == MaxVisits \in Nat /\ First \in 0..MaxVisits
ASSUME PointsAreNats == Points \subseteq Nat
ASSUME LevelsAreOrdered == Cap \in Nat /\ Warm \in Nat /\ Hot \in Nat /\ 0 < Warm /\ Warm <= Hot
ASSUME NoneIsNone == None \notin Keys \cup Visitors

Visits == 1..MaxVisits
Answers == {"granted", "denied", "withdrawn"}

VARIABLES
    visits,     \* the table crm_web_intent_visits
    lastVisit,  \* the last primary key of it that was given out
    engagements, \* engagements[r]: the row of crm_web_intent_engagements that
                \* request r committed, or NoEngagement
    consents,   \* consents[u]: the consent row of visitor u, for one purpose
    req,        \* req[r]: how far request r has got
    announced,  \* the engagements whose EngagementRecorded was dispatched
    total,      \* history: total[v]: all points committed for visit v
    covered,    \* history: the visits that were there at the last consent of
                \* their visitor
    raced       \* history: the visitors whose consent was written by a request
                \* that had read an older one

histories == <<total, covered, raced>>
vars == <<visits, lastVisit, engagements, consents, req, announced, histories>>

NoVisit == [visitor |-> None, consent |-> "unknown", score |-> 0, level |-> "unknown"]
NoEngagement == [visit |-> 0, key |-> None, points |-> 0]

\* A request at the start: engagement is what it inserts, score the score it read
\* under the lock, read the consent it read, status the one it sets.
NoRequest == [at |-> "idle", visitor |-> None, engagement |-> NoEngagement, score |-> 0,
              read |-> "unknown", status |-> "unknown"]

Init ==
    /\ visits \in [Visits -> {NoVisit} \cup {[NoVisit EXCEPT !.visitor = u] : u \in Visitors}]
    /\ \A v \in Visits : visits[v] = NoVisit <=> v > First
    /\ lastVisit = First
    /\ engagements = [r \in Requests |-> NoEngagement]
    /\ consents = [u \in Visitors |-> "unknown"]
    /\ req = [r \in Requests |-> NoRequest]
    /\ announced = {}
    /\ total = [v \in Visits |-> 0]
    /\ covered = {}
    /\ raced = {}

\* Request r is over, with an answer or an error.
End(r) == req' = [req EXCEPT ![r] = [NoRequest EXCEPT !.at = "done"]]

-------------------------------------------------------------------------------
(* Visits *)

\* RecordVisit; a request that calls itself denied is refused.  The stored consent
\* is not looked at.
RecordVisit(r, u, status) ==
    /\ req[r].at = "idle"
    /\ lastVisit < MaxVisits
    /\ status # "denied"
    /\ lastVisit' = lastVisit + 1
    /\ visits' = [visits EXCEPT ![lastVisit + 1] =
                     [NoVisit EXCEPT !.visitor = u, !.consent = status]]
    /\ End(r)
    /\ UNCHANGED <<engagements, consents, announced, histories>>

-------------------------------------------------------------------------------
(* Engagements *)

Recorded(k) == k # None /\ \E q \in Requests : engagements[q].key = k

\* The visit is loaded and the key looked up before the transaction; what is there
\* already is the answer.
Find(r, v, k, n) ==
    /\ req[r].at = "idle"
    /\ visits[v] # NoVisit
    /\ IF Recorded(k)
       THEN End(r)
       ELSE req' = [req EXCEPT ![r].at = "insert", ![r].score = visits[v].score,
                               ![r].engagement = [visit |-> v, key |-> k, points |-> n]]
    /\ UNCHANGED <<visits, lastVisit, engagements, consents, announced, histories>>

InTransaction == {r \in Requests : req[r].at \in {"lock", "write"}}

\* Mutant of KeyIsFree: the key has no unique index.
KeyIsAnyones(k) == TRUE

\* The unique index on the key: free, once no transaction holds it.
KeyIsFree(k) == ~Recorded(k) /\ \A q \in InTransaction : k = None \/ req[q].engagement.key # k

\* Mutant of Insert: the event is dispatched in the transaction.
InsertAndAnnounce(r) ==
    /\ req[r].at = "insert"
    /\ KeyIsFree(req[r].engagement.key)
    /\ req' = [req EXCEPT ![r].at = "lock"]
    /\ announced' = announced \cup {r}
    /\ UNCHANGED <<visits, lastVisit, engagements, consents, histories>>

Insert(r) ==
    /\ req[r].at = "insert"
    /\ KeyIsFree(req[r].engagement.key)
    /\ req' = [req EXCEPT ![r].at = "lock"]
    /\ UNCHANGED <<visits, lastVisit, engagements, consents, announced, histories>>

\* The insertion meets a row committed after the lookup.
InsertFails(r) ==
    /\ req[r].at = "insert"
    /\ Recorded(req[r].engagement.key)
    /\ End(r)
    /\ UNCHANGED <<visits, lastVisit, engagements, consents, announced, histories>>

\* The visits locked by a transaction.
Locked == {req[q].engagement.visit : q \in {p \in Requests : req[p].at = "write"}}

\* Mutant of LockVisit: the visit as it was loaded, without the lock.
UseLoadedVisit(r) ==
    /\ req[r].at = "lock"
    /\ req' = [req EXCEPT ![r].at = "write"]
    /\ UNCHANGED <<visits, lastVisit, engagements, consents, announced, histories>>

\* lockForUpdate()
LockVisit(r) ==
    LET v == req[r].engagement.visit IN
    /\ req[r].at = "lock"
    /\ v \notin Locked
    /\ req' = [req EXCEPT ![r].at = "write", ![r].score = visits[v].score]
    /\ UNCHANGED <<visits, lastVisit, engagements, consents, announced, histories>>

Scored(score, n) == IF score + n <= Cap THEN score + n ELSE Cap

Level(score) == IF score >= Hot THEN "hot"
                ELSE IF score >= Warm THEN "warm"
                ELSE IF score > 0 THEN "cool" ELSE "unknown"

\* The new score and level, the signal, and the commit.
CommitEngagement(r) ==
    LET e == req[r].engagement
        score == Scored(req[r].score, e.points)
    IN
    /\ req[r].at = "write"
    /\ visits' = [visits EXCEPT ![e.visit].score = score, ![e.visit].level = Level(score)]
    /\ engagements' = [engagements EXCEPT ![r] = e]
    /\ total' = [total EXCEPT ![e.visit] = @ + e.points]
    /\ req' = [req EXCEPT ![r].at = "announce"]
    /\ UNCHANGED <<lastVisit, consents, announced, covered, raced>>

\* DB::afterCommit()
Announce(r) ==
    /\ req[r].at = "announce"
    /\ announced' = announced \cup {r}
    /\ End(r)
    /\ UNCHANGED <<visits, lastVisit, engagements, consents, histories>>

\* The process dies or the database fails; its transaction is rolled back.
Die(r) ==
    /\ req[r].at \in {"insert", "lock", "write", "announce", "consent"}
    /\ End(r)
    /\ UNCHANGED <<visits, lastVisit, engagements, consents, announced, histories>>

-------------------------------------------------------------------------------
(* Consent *)

\* updateOrCreate() reads the row, without a lock.
ReadConsent(r, u, status) ==
    /\ req[r].at = "idle"
    /\ req' = [req EXCEPT ![r] = [NoRequest EXCEPT !.at = "consent", !.visitor = u,
                                                   !.read = consents[u], !.status = status]]
    /\ UNCHANGED <<visits, lastVisit, engagements, consents, announced, histories>>

OfVisitor(u) == {v \in Visits : visits[v].visitor = u}

\* Mutant of Shown: only visits that know nothing yet learn the consent.
ShownToNew(v, status) ==
    [visits[v] EXCEPT !.consent = IF @ = "unknown" THEN status ELSE @]

Shown(v, status) == [visits[v] EXCEPT !.consent = status]

\* The status is written if it differs from the one that was read, the visits of
\* the visitor are updated, and the transaction commits.
CommitConsent(r) ==
    LET u == req[r].visitor
        status == req[r].status
    IN
    /\ req[r].at = "consent"
    /\ OfVisitor(u) \cap Locked = {}
    /\ consents' = [consents EXCEPT ![u] = IF status = req[r].read THEN @ ELSE status]
    /\ visits' = [v \in Visits |-> IF v \in OfVisitor(u) THEN Shown(v, status) ELSE visits[v]]
    /\ covered' = covered \cup OfVisitor(u)
    /\ raced' = IF req[r].read # consents[u] THEN raced \cup {u} ELSE raced
    /\ End(r)
    /\ UNCHANGED <<lastVisit, engagements, announced, total>>

-------------------------------------------------------------------------------
Next ==
    \E r \in Requests :
        \/ \E u \in Visitors, s \in Answers \cup {"unknown"} : RecordVisit(r, u, s)
        \/ \E v \in Visits, k \in Keys \cup {None}, n \in Points : Find(r, v, k, n)
        \/ Insert(r)
        \/ InsertFails(r)
        \/ LockVisit(r)
        \/ CommitEngagement(r)
        \/ Announce(r)
        \/ Die(r)
        \/ \E u \in Visitors, s \in Answers : ReadConsent(r, u, s)
        \/ CommitConsent(r)

Spec == Init /\ [][Next]_vars

-------------------------------------------------------------------------------
Engagement == [visit: Visits, key: Keys \cup {None}, points: Nat]

Visit == [visitor: Visitors \cup {None}, consent: Answers \cup {"unknown"}, score: Nat,
          level: {"unknown", "cool", "warm", "hot"}]

Request == [at: {"idle", "insert", "lock", "write", "announce", "consent", "done"},
            visitor: Visitors \cup {None}, engagement: Engagement \cup {NoEngagement},
            score: Nat, read: Answers \cup {"unknown"}, status: Answers \cup {"unknown"}]

RequestTyped(x) ==
    /\ x \in Request
    /\ x.at \in {"insert", "lock", "write", "announce"} => x.engagement \in Engagement
    /\ x.at = "consent" => x.visitor \in Visitors /\ x.status \in Answers

RequestsTyped == req \in [Requests -> Request] /\ \A r \in Requests : RequestTyped(req[r])

TablesTyped ==
    /\ visits \in [Visits -> Visit]
    /\ lastVisit \in 0..MaxVisits
    /\ engagements \in [Requests -> Engagement \cup {NoEngagement}]
    /\ consents \in [Visitors -> Answers \cup {"unknown"}]
    /\ announced \subseteq Requests
    /\ total \in [Visits -> Nat]
    /\ covered \subseteq Visits
    /\ raced \subseteq Visitors

\* Every variable has its type, and a request at work knows what it writes.
TypeOK == TablesTyped /\ RequestsTyped

\* No point is lost and none is counted twice, whatever engagements race on a
\* visit and whichever of them die: the score is the capped total of what was
\* committed, and the level that of the score.
ScoreIsCappedTotal ==
    \A v \in Visits : /\ visits[v].score = (IF total[v] <= Cap THEN total[v] ELSE Cap)
                      /\ visits[v].level = Level(visits[v].score)

\* A client that retries under one key counts once, although its attempts look for
\* the key before their transactions.
OneEngagementPerKey ==
    \A q, r \in Requests : q # r /\ engagements[q].key # None => engagements[q].key # engagements[r].key

\* Listeners hear of committed engagements only.
AnnouncedIsCommitted == \A r \in announced : engagements[r] # NoEngagement

\* The lookup, the insertion, the lock, the commit and the event of an engagement
\* implement one entry in a book of scores: all at once, and once per key.
Book == INSTANCE ScoreBook WITH Subjects <- Visits, NoEntry <- NoEngagement,
            score <- [v \in Visits |-> visits[v].score], entries <- engagements
ImplementsScoreBook == Book!Spec

\* What a visitor last chose is what its visits show, unless two choices raced.
VisitsShowConsent ==
    \A v \in covered : visits[v].visitor \notin raced =>
        visits[v].consent = consents[visits[v].visitor]
===============================================================================
