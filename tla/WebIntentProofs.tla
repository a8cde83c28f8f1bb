---------------------------- MODULE WebIntentProofs ----------------------------
(***************************************************************************)
(* Proofs about WebIntent, for any visitors, visits, requests, keys and    *)
(* scores, and about scheduled posts (SocialPosts), for any posts,         *)
(* platforms and runs.                                                     *)
(***************************************************************************)
EXTENDS WebIntent, Sequences, FiniteSetTheorems, WellFoundedInduction, TLAPS

\* Visits get their rows in the order of their keys, and engagements are of visits
\* that have one.
VisitsExist ==
    /\ \A v \in Visits : v > lastVisit => visits[v] = NoVisit
    /\ \A r \in Requests :
          req[r].at \in {"insert", "lock", "write"} => req[r].engagement.visit <= lastVisit

\* A request that holds the lock has read the score that is in the table.
ScoreIsFresh ==
    \A r \in Requests :
        req[r].at = "write" => req[r].score = visits[req[r].engagement.visit].score

\* A visit is locked by one request.
LocksExclude ==
    \A q, r \in Requests :
        q # r /\ req[q].at = "write" /\ req[r].at = "write" =>
            req[q].engagement.visit # req[r].engagement.visit

ScoreInv == VisitsExist /\ ScoreIsFresh /\ LocksExclude /\ ScoreIsCappedTotal

\* A key in a transaction is in no row and in no other transaction.
KeysAreHeld ==
    \A r \in InTransaction :
        req[r].engagement.key # None =>
            /\ \A q \in Requests : engagements[q].key # req[r].engagement.key
            /\ \A q \in InTransaction :
                  q # r => req[q].engagement.key # req[r].engagement.key

\* The event is announced after the commit.
CommitsPrecede ==
    \A r \in Requests : req[r].at = "announce" => engagements[r] # NoEngagement

KeyInv == KeysAreHeld /\ OneEngagementPerKey /\ CommitsPrecede /\ AnnouncedIsCommitted

\* A consent has covered visits that exist.
ConsentInv == (\A v \in covered : v <= lastVisit) /\ VisitsShowConsent

IntentInv == ScoreInv /\ KeyInv /\ ConsentInv

\* What the proofs need to know of the constants.
LEMMA ConstantFacts ==
    /\ MaxVisits \in Nat /\ First \in 0..MaxVisits /\ Points \subseteq Nat
    /\ Cap \in Nat /\ Warm \in Nat /\ Hot \in Nat /\ 0 < Warm /\ Warm <= Hot
    /\ None \notin Keys /\ None \notin Visitors
  BY BoundsAreNats, PointsAreNats, LevelsAreOrdered, NoneIsNone

\* A level is one of the four, and the level of no score is 'unknown'.
LEMMA LevelFacts == Level(0) = "unknown" /\ \A n \in Nat : Level(n) \in {"unknown", "cool", "warm", "hot"}
  BY ConstantFacts DEF Level

\* Capping after every addition caps the sum: a capped total plus n, capped, is the total
\* plus n, capped.
LEMMA ScoredFacts ==
    ASSUME NEW n \in Nat, NEW t \in Nat
    PROVE  /\ Scored(t, n) \in Nat
           /\ Scored(IF t <= Cap THEN t ELSE Cap, n) = IF t + n <= Cap THEN t + n ELSE Cap
  BY ConstantFacts DEF Scored

\* The records of rest: no visit, no engagement, no request.
LEMMA RestIsTyped ==
    /\ NoVisit \in Visit /\ NoVisit.visitor = None /\ NoVisit.score = 0
    /\ NoVisit.level = "unknown"
    /\ NoEngagement.key = None /\ NoEngagement.visit = 0
    /\ NoEngagement \notin Engagement
    /\ RequestTyped(NoRequest) /\ NoRequest.at = "idle"
  BY DEF Visit, NoVisit, NoEngagement, Engagement, Visits, RequestTyped, Request, NoRequest

\* A request that is done is typed.
LEMMA DoneIsTyped ==
    LET x == [NoRequest EXCEPT !.at = "done"] IN RequestTyped(x) /\ x.at = "done"
  BY DEF RequestTyped, Request, NoRequest, NoEngagement

\* What the type says of one request: its engagement is one from the insertion to the
\* announcement.
LEMMA RequestFacts ==
    ASSUME TypeOK, NEW r \in Requests
    PROVE  /\ RequestTyped(req[r]) /\ req[r] \in Request
           /\ req[r].at \in {"insert", "lock", "write", "announce"} =>
                  /\ req[r].engagement \in Engagement
                  /\ req[r].engagement.visit \in Visits
                  /\ req[r].engagement.points \in Nat
                  /\ req[r].engagement.key \in Keys \cup {None}
           /\ req[r].at = "consent" => req[r].visitor \in Visitors /\ req[r].status \in Answers
  BY DEF TypeOK, RequestsTyped, RequestTyped, Engagement

\* Replacing one request by a typed one keeps all typed and the others as they were.
LEMMA RequestReplaced ==
    ASSUME TypeOK, NEW r \in Requests, NEW x, RequestTyped(x), req' = [req EXCEPT ![r] = x]
    PROVE  /\ RequestsTyped'
           /\ req'[r] = x
           /\ \A q \in Requests : q # r => req'[q] = req[q]
  <1>1. req'[r] = x /\ \A q \in Requests : q # r => req'[q] = req[q]
    BY DEF TypeOK, RequestsTyped
  <1>2. x \in Request /\ \A q \in Requests : RequestTyped(req[q])
    BY DEF TypeOK, RequestsTyped, RequestTyped
  <1>3. \A q \in Requests : RequestTyped(req'[q])
    BY <1>1, <1>2
  <1>4. req' \in [Requests -> Request]
    BY <1>2 DEF TypeOK, RequestsTyped
  <1>5. QED
    BY <1>1, <1>3, <1>4 DEF RequestsTyped, RequestTyped, Request, Engagement, Visits

\* Nobody has visited, engaged or consented at the start.
LEMMA InitFacts == Init => TypeOK /\ IntentInv
  <1> SUFFICES ASSUME Init
               PROVE  TypeOK /\ IntentInv
    OBVIOUS
  <1>1. RequestsTyped /\ \A r \in Requests : req[r].at = "idle"
    BY RestIsTyped DEF Init, RequestsTyped, RequestTyped
  <1>2. \A v \in Visits : /\ visits[v] \in Visit
                          /\ visits[v].score = 0 /\ visits[v].level = "unknown"
    <2>1. \A u \in Visitors : LET x == [NoVisit EXCEPT !.visitor = u] IN
                                  x \in Visit /\ x.score = 0 /\ x.level = "unknown"
      BY DEF Visit, NoVisit
    <2>2. \A v \in Visits :
              visits[v] \in {NoVisit} \cup {[NoVisit EXCEPT !.visitor = u] : u \in Visitors}
      BY DEF Init
    <2>3. QED
      BY <2>1, <2>2, RestIsTyped
  <1>3. TablesTyped
    <2>1. visits \in [Visits -> Visit]
      BY <1>2 DEF Init
    <2>2. QED
      BY <2>1, ConstantFacts DEF Init, TablesTyped
  <1>4. ScoreInv
    <2>1. ScoreIsCappedTotal
      BY <1>2, LevelFacts, ConstantFacts DEF Init, ScoreIsCappedTotal
    <2>2. VisitsExist /\ ScoreIsFresh /\ LocksExclude
      BY <1>1 DEF Init, VisitsExist, ScoreIsFresh, LocksExclude
    <2>3. QED
      BY <2>1, <2>2 DEF ScoreInv
  <1>5. KeyInv
    BY <1>1, RestIsTyped DEF Init, KeyInv, KeysAreHeld, InTransaction, OneEngagementPerKey,
                             CommitsPrecede, AnnouncedIsCommitted
  <1>6. ConsentInv
    BY DEF Init, ConsentInv, VisitsShowConsent
  <1>7. QED
    BY <1>1, <1>3, <1>4, <1>5, <1>6 DEF TypeOK, IntentInv

\* A step that writes no table but the announcements, and leaves request r in a state
\* that holds what the invariant asks of it.
LEMMA RequestOnly ==
    ASSUME TypeOK, IntentInv, NEW r \in Requests, NEW x, RequestTyped(x),
           req' = [req EXCEPT ![r] = x],
           UNCHANGED <<visits, lastVisit, engagements, consents, histories>>,
           announced' \subseteq Requests,
           \A q \in announced' : engagements[q] # NoEngagement,
           x.at \in {"insert", "lock", "write"} => x.engagement.visit <= lastVisit,
           x.at = "write" =>
               /\ x.score = visits[x.engagement.visit].score
               /\ \A q \in Requests : q # r /\ req[q].at = "write" =>
                                          req[q].engagement.visit # x.engagement.visit,
           x.at \in {"lock", "write"} /\ x.engagement.key # None =>
               /\ \A q \in Requests : engagements[q].key # x.engagement.key
               /\ \A q \in InTransaction : q # r => req[q].engagement.key # x.engagement.key,
           x.at # "announce"
    PROVE  TypeOK' /\ IntentInv'
  <1>1. /\ RequestsTyped'
        /\ req'[r] = x
        /\ \A q \in Requests : q # r => req'[q] = req[q]
    BY RequestReplaced
  <1>2. TypeOK'
    BY <1>1 DEF TypeOK, TablesTyped, histories
  <1>3. ScoreInv'
    <2>1. VisitsExist'
      BY <1>1 DEF IntentInv, ScoreInv, VisitsExist
    <2>2. ScoreIsFresh'
      BY <1>1 DEF IntentInv, ScoreInv, ScoreIsFresh
    <2>3. LocksExclude'
      BY <1>1 DEF IntentInv, ScoreInv, LocksExclude
    <2>4. ScoreIsCappedTotal'
      BY DEF IntentInv, ScoreInv, ScoreIsCappedTotal, histories
    <2>5. QED
      BY <2>1, <2>2, <2>3, <2>4 DEF ScoreInv
  <1>4. KeyInv'
    <2>1. KeysAreHeld'
      BY <1>1 DEF IntentInv, KeyInv, KeysAreHeld, InTransaction
    <2>2. OneEngagementPerKey'
      BY DEF IntentInv, KeyInv, OneEngagementPerKey
    <2>3. CommitsPrecede' /\ AnnouncedIsCommitted'
      BY <1>1 DEF IntentInv, KeyInv, CommitsPrecede, AnnouncedIsCommitted
    <2>4. QED
      BY <2>1, <2>2, <2>3 DEF KeyInv
  <1>5. ConsentInv'
    BY DEF IntentInv, ConsentInv, VisitsShowConsent, histories
  <1>6. QED
    BY <1>2, <1>3, <1>4, <1>5 DEF IntentInv

-------------------------------------------------------------------------------
(* Requests that write no table *)

\* A request that ends, having announced nothing that is not recorded, holds no key and no
\* lock.
LEMMA EndStep ==
    ASSUME TypeOK, IntentInv, NEW r \in Requests, End(r),
           UNCHANGED <<visits, lastVisit, engagements, consents, histories>>,
           announced' \subseteq Requests,
           \A q \in announced' : engagements[q] # NoEngagement
    PROVE  TypeOK' /\ IntentInv'
  <1> DEFINE x == [NoRequest EXCEPT !.at = "done"]
  <1>1. RequestTyped(x) /\ x.at = "done"
    BY DoneIsTyped
  <1>2. req' = [req EXCEPT ![r] = x]
    BY DEF End
  <1> HIDE DEF x
  <1>3. QED
    BY <1>1, <1>2, RequestOnly

\* No step but Announce touches the announcements.
LEMMA AnnouncedKept ==
    ASSUME TypeOK, IntentInv, UNCHANGED announced
    PROVE  announced' \subseteq Requests /\ \A q \in announced' : engagements[q] # NoEngagement
  BY DEF TypeOK, TablesTyped, IntentInv, KeyInv, AnnouncedIsCommitted

\* An engagement begins outside every lock, for a visit that exists.
LEMMA FindStep ==
    ASSUME TypeOK, IntentInv, NEW r \in Requests, NEW v \in Visits, NEW k \in Keys \cup {None},
           NEW n \in Points, Find(r, v, k, n)
    PROVE  TypeOK' /\ IntentInv'
  <1>1. CASE Recorded(k)
    BY <1>1, EndStep, AnnouncedKept DEF Find
  <1>2. CASE ~Recorded(k)
    <2> DEFINE e == [visit |-> v, key |-> k, points |-> n]
               x == [req[r] EXCEPT !.at = "insert", !.score = visits[v].score, !.engagement = e]
    <2>1. req' = [req EXCEPT ![r] = x]
      BY <1>2 DEF Find, TypeOK, RequestsTyped, Request
    <2>2. e \in Engagement /\ e.visit = v
      BY ConstantFacts DEF Engagement
    <2> HIDE DEF e
    <2>3. req[r] \in Request /\ visits[v].score \in Nat
      BY RequestFacts DEF TypeOK, TablesTyped, Visit
    <2>4. RequestTyped(x) /\ x.at = "insert" /\ x.engagement = e
      BY <2>2, <2>3 DEF RequestTyped, Request
    <2>5. v <= lastVisit
      BY DEF Find, IntentInv, ScoreInv, VisitsExist, TypeOK, TablesTyped, Visits
    <2> HIDE DEF x
    <2>6. QED
      BY <2>1, <2>2, <2>4, <2>5, RequestOnly, AnnouncedKept DEF Find
  <1>3. QED
    BY <1>1, <1>2

\* A key is inserted only if no transaction holds it and none recorded it.
LEMMA InsertStep ==
    ASSUME TypeOK, IntentInv, NEW r \in Requests, Insert(r)
    PROVE  TypeOK' /\ IntentInv'
  <1> DEFINE x == [req[r] EXCEPT !.at = "lock"]
             e == req[r].engagement
  <1>1. req' = [req EXCEPT ![r] = x]
    BY DEF Insert
  <1>2. req[r] \in Request /\ e \in Engagement /\ req[r].at = "insert"
    BY RequestFacts DEF Insert
  <1>3. RequestTyped(x) /\ x.at = "lock" /\ x.engagement = e
    BY <1>2 DEF RequestTyped, Request
  <1>4. e.visit <= lastVisit
    BY <1>2 DEF IntentInv, ScoreInv, VisitsExist
  <1>5. e.key # None =>
            /\ \A q \in Requests : engagements[q].key # e.key
            /\ \A q \in InTransaction : req[q].engagement.key # e.key
    BY DEF Insert, KeyIsFree, Recorded
  <1> HIDE DEF x, e
  <1>6. QED
    BY <1>1, <1>3, <1>4, <1>5, RequestOnly, AnnouncedKept DEF Insert

\* Under the lock the request reads the present score of the visit.
LEMMA LockVisitStep ==
    ASSUME TypeOK, IntentInv, NEW r \in Requests, LockVisit(r)
    PROVE  TypeOK' /\ IntentInv'
  <1> DEFINE e == req[r].engagement
             x == [req[r] EXCEPT !.at = "write", !.score = visits[e.visit].score]
  <1>1. req' = [req EXCEPT ![r] = x]
    BY DEF LockVisit, TypeOK, RequestsTyped, Request
  <1>2. req[r] \in Request /\ e \in Engagement /\ e.visit \in Visits /\ req[r].at = "lock"
    BY RequestFacts DEF LockVisit
  <1>3. visits[e.visit].score \in Nat
    BY <1>2 DEF TypeOK, TablesTyped, Visit
  <1>4. /\ RequestTyped(x) /\ x.at = "write" /\ x.engagement = e
        /\ x.score = visits[e.visit].score
    BY <1>2, <1>3 DEF RequestTyped, Request
  <1>5. e.visit <= lastVisit
    BY <1>2 DEF IntentInv, ScoreInv, VisitsExist
  <1>6. \A q \in Requests : req[q].at = "write" => req[q].engagement.visit # e.visit
    BY DEF LockVisit, Locked
  <1>7. e.key # None =>
            /\ \A q \in Requests : engagements[q].key # e.key
            /\ \A q \in InTransaction : q # r => req[q].engagement.key # e.key
    BY <1>2 DEF IntentInv, KeyInv, KeysAreHeld, InTransaction
  <1> HIDE DEF x, e
  <1>8. QED
    BY <1>1, <1>4, <1>5, <1>6, <1>7, RequestOnly, AnnouncedKept DEF LockVisit

\* A consent reads the state it follows and changes nothing.
LEMMA ReadConsentStep ==
    ASSUME TypeOK, IntentInv, NEW r \in Requests, NEW u \in Visitors, NEW s \in Answers,
           ReadConsent(r, u, s)
    PROVE  TypeOK' /\ IntentInv'
  <1> DEFINE x == [NoRequest EXCEPT !.at = "consent", !.visitor = u, !.read = consents[u],
                                    !.status = s]
  <1>1. req' = [req EXCEPT ![r] = x]
    BY DEF ReadConsent
  <1>2. consents[u] \in Answers \cup {"unknown"}
    BY DEF TypeOK, TablesTyped
  <1>3. RequestTyped(x) /\ x.at = "consent"
    BY <1>2 DEF RequestTyped, Request, NoRequest
  <1> HIDE DEF x
  <1>4. QED
    BY <1>1, <1>3, RequestOnly, AnnouncedKept DEF ReadConsent

\* Only a committed engagement is announced.
LEMMA AnnounceStep ==
    ASSUME TypeOK, IntentInv, NEW r \in Requests, Announce(r)
    PROVE  TypeOK' /\ IntentInv'
  <1>1. announced' \subseteq Requests /\ \A q \in announced' : engagements[q] # NoEngagement
    BY DEF Announce, TypeOK, TablesTyped, IntentInv, KeyInv, CommitsPrecede, AnnouncedIsCommitted
  <1>2. QED
    BY <1>1, EndStep DEF Announce

-------------------------------------------------------------------------------
(* Requests that write *)

\* A visit takes a new id, with its visitor and the consent of the request.
LEMMA RecordVisitStep ==
    ASSUME TypeOK, IntentInv, NEW r \in Requests, NEW u \in Visitors,
           NEW s \in Answers \cup {"unknown"}, RecordVisit(r, u, s)
    PROVE  TypeOK' /\ IntentInv'
  <1> DEFINE new == lastVisit + 1
             row == [NoVisit EXCEPT !.visitor = u, !.consent = s]
             x == [NoRequest EXCEPT !.at = "done"]
  <1>1. new \in Visits /\ lastVisit' = new /\ new > lastVisit
    BY ConstantFacts DEF RecordVisit, TypeOK, TablesTyped, Visits
  <1>2. row \in Visit /\ row.score = 0 /\ row.level = "unknown"
    BY DEF Visit, NoVisit
  <1>3. visits' = [visits EXCEPT ![new] = row]
    BY DEF RecordVisit
  <1>4. /\ visits'[new] = row
        /\ \A v \in Visits : v # new => visits'[v] = visits[v]
        /\ visits' \in [Visits -> Visit]
    BY <1>1, <1>2, <1>3 DEF TypeOK, TablesTyped
  <1>5. req' = [req EXCEPT ![r] = x] /\ RequestTyped(x) /\ x.at = "done"
    BY DoneIsTyped DEF RecordVisit, End
  <1> HIDE DEF x, row
  <1>6. /\ RequestsTyped' /\ req'[r] = x
        /\ \A q \in Requests : q # r => req'[q] = req[q]
    BY <1>5, RequestReplaced
  <1>7. UNCHANGED <<engagements, consents, announced, total, covered, raced>>
    BY DEF RecordVisit, histories
  <1>8. TypeOK'
    BY <1>1, <1>4, <1>6, <1>7 DEF TypeOK, TablesTyped, Visits
  <1>9. visits[new].score = 0 /\ visits[new].level = "unknown"
    BY <1>1, RestIsTyped DEF IntentInv, ScoreInv, VisitsExist
  <1>10. lastVisit \in Nat /\ Visits \subseteq Nat
    BY ConstantFacts DEF TypeOK, TablesTyped, Visits
  <1>11. \A q \in Requests : req[q].at \in {"insert", "lock", "write"} =>
             /\ req[q].engagement.visit \in Visits
             /\ req[q].engagement.visit <= lastVisit
             /\ req[q].engagement.visit # new
    BY <1>1, <1>10, RequestFacts DEF IntentInv, ScoreInv, VisitsExist
  <1>12. ScoreInv'
    <2>1. VisitsExist'
      <3>1. \A v \in Visits : v > new => v > lastVisit /\ v # new
        BY <1>10
      <3>2. \A q \in Requests : req[q].at \in {"insert", "lock", "write"} =>
                req[q].engagement.visit <= new
        <4>1. \A n \in Visits : n <= lastVisit => n <= new
          BY <1>10
        <4>2. QED
          BY <1>11, <4>1
      <3>3. QED
        BY <1>1, <1>4, <1>5, <1>6, <3>1, <3>2 DEF IntentInv, ScoreInv, VisitsExist
    <2>2. ScoreIsFresh'
      BY <1>4, <1>5, <1>6, <1>11 DEF IntentInv, ScoreInv, ScoreIsFresh
    <2>3. LocksExclude'
      BY <1>5, <1>6 DEF IntentInv, ScoreInv, LocksExclude
    <2>4. ScoreIsCappedTotal'
      <3>1. \A v \in Visits : visits'[v].score = visits[v].score /\ visits'[v].level = visits[v].level
        BY <1>2, <1>4, <1>9
      <3>2. QED
        BY <1>7, <3>1 DEF IntentInv, ScoreInv, ScoreIsCappedTotal
    <2>5. QED
      BY <2>1, <2>2, <2>3, <2>4 DEF ScoreInv
  <1>13. KeyInv'
    BY <1>5, <1>6, <1>7 DEF IntentInv, KeyInv, KeysAreHeld, InTransaction, OneEngagementPerKey,
                            CommitsPrecede, AnnouncedIsCommitted
  <1>14. ConsentInv'
    <2>1. \A v \in covered : v \in Visits /\ v <= lastVisit /\ v # new /\ v <= new
      BY <1>1, <1>10 DEF IntentInv, ConsentInv, TypeOK, TablesTyped
    <2>2. QED
      BY <1>1, <1>4, <1>7, <2>1 DEF IntentInv, ConsentInv, VisitsShowConsent
  <1>15. QED
    BY <1>8, <1>12, <1>13, <1>14 DEF IntentInv

\* The commit adds the points to the score read under the lock, which is still the present
\* one.
LEMMA CommitEngagementStep ==
    ASSUME TypeOK, IntentInv, NEW r \in Requests, CommitEngagement(r)
    PROVE  TypeOK' /\ IntentInv'
  <1> DEFINE e == req[r].engagement
             v == e.visit
             score == Scored(req[r].score, e.points)
             row == [visits[v] EXCEPT !.score = score, !.level = Level(score)]
             x == [req[r] EXCEPT !.at = "announce"]
  <1>1. /\ req[r].at = "write" /\ req[r] \in Request /\ e \in Engagement
        /\ v \in Visits /\ e.points \in Nat
    BY RequestFacts DEF CommitEngagement
  <1>2. visits' = [visits EXCEPT ![v] = row]
    BY <1>1 DEF CommitEngagement, TypeOK, TablesTyped, Visit
  <1>3. visits[v] \in Visit /\ total[v] \in Nat
    BY <1>1 DEF TypeOK, TablesTyped
  <1>4. req[r].score = visits[v].score
    BY <1>1 DEF IntentInv, ScoreInv, ScoreIsFresh
  <1>5. visits[v].score = IF total[v] <= Cap THEN total[v] ELSE Cap
    BY <1>1 DEF IntentInv, ScoreInv, ScoreIsCappedTotal
  <1>6. score = IF total[v] + e.points <= Cap THEN total[v] + e.points ELSE Cap
    <2>1. Scored(IF total[v] <= Cap THEN total[v] ELSE Cap, e.points)
              = IF total[v] + e.points <= Cap THEN total[v] + e.points ELSE Cap
      BY <1>1, <1>3, ScoredFacts
    <2>2. score = Scored(IF total[v] <= Cap THEN total[v] ELSE Cap, e.points)
      BY <1>4, <1>5
    <2>3. QED
      BY <2>1, <2>2
  <1>7. score \in Nat
    BY <1>1, <1>3, <1>6, ConstantFacts
  <1> HIDE DEF score
  <1>8. row \in Visit /\ row.score = score /\ row.level = Level(score)
        /\ row.visitor = visits[v].visitor /\ row.consent = visits[v].consent
    BY <1>3, <1>7, LevelFacts DEF Visit
  <1>9. RequestTyped(x) /\ x.at = "announce"
    BY <1>1 DEF RequestTyped, Request
  <1>10. req' = [req EXCEPT ![r] = x]
    BY DEF CommitEngagement
  <1>11. /\ total' = [total EXCEPT ![v] = @ + e.points]
         /\ engagements' = [engagements EXCEPT ![r] = e]
         /\ UNCHANGED <<lastVisit, consents, announced, covered, raced>>
    BY DEF CommitEngagement
  <1> HIDE DEF row, x
  <1>12. /\ visits'[v] = row /\ \A w \in Visits : w # v => visits'[w] = visits[w]
         /\ visits' \in [Visits -> Visit]
    BY <1>1, <1>2, <1>8 DEF TypeOK, TablesTyped
  <1>13. /\ total'[v] = total[v] + e.points /\ \A w \in Visits : w # v => total'[w] = total[w]
         /\ total' \in [Visits -> Nat]
    BY <1>1, <1>3, <1>11 DEF TypeOK, TablesTyped
  <1>14. /\ engagements'[r] = e /\ \A q \in Requests : q # r => engagements'[q] = engagements[q]
         /\ engagements' \in [Requests -> Engagement \cup {NoEngagement}]
    BY <1>1, <1>11 DEF TypeOK, TablesTyped
  <1>15. /\ RequestsTyped' /\ req'[r] = x
         /\ \A q \in Requests : q # r => req'[q] = req[q]
    BY <1>9, <1>10, RequestReplaced
  <1>16. v <= lastVisit
    BY <1>1 DEF IntentInv, ScoreInv, VisitsExist
  <1>17. \A q \in Requests : q # r /\ req[q].at = "write" => req[q].engagement.visit # v
    BY <1>1 DEF IntentInv, ScoreInv, LocksExclude
  <1>18. e.key # None =>
             /\ \A q \in Requests : engagements[q].key # e.key
             /\ \A q \in InTransaction : q # r => req[q].engagement.key # e.key
    BY <1>1 DEF IntentInv, KeyInv, KeysAreHeld, InTransaction
  <1>19. e # NoEngagement
    BY <1>1, RestIsTyped
  <1> HIDE DEF e, v
  <1>20. TypeOK'
    BY <1>11, <1>12, <1>13, <1>14, <1>15 DEF TypeOK, TablesTyped
  <1>21. ScoreInv'
    <2>1. VisitsExist'
      <3>1. \A w \in Visits : w > lastVisit => w # v
        BY <1>16, ConstantFacts DEF TypeOK, TablesTyped, Visits
      <3>2. QED
        BY <1>9, <1>11, <1>12, <1>15, <3>1 DEF IntentInv, ScoreInv, VisitsExist
    <2>2. ScoreIsFresh'
      BY <1>9, <1>12, <1>15, <1>17, RequestFacts DEF IntentInv, ScoreInv, ScoreIsFresh
    <2>3. LocksExclude'
      BY <1>9, <1>15 DEF IntentInv, ScoreInv, LocksExclude
    <2>4. ScoreIsCappedTotal'
      <3>1. /\ visits'[v].score = IF total'[v] <= Cap THEN total'[v] ELSE Cap
            /\ visits'[v].level = Level(visits'[v].score)
        BY <1>6, <1>8, <1>12, <1>13
      <3>2. QED
        BY <1>12, <1>13, <3>1 DEF IntentInv, ScoreInv, ScoreIsCappedTotal
    <2>5. QED
      BY <2>1, <2>2, <2>3, <2>4 DEF ScoreInv
  <1>22. KeyInv'
    <2>1. InTransaction' = InTransaction \ {r}
      BY <1>9, <1>15 DEF InTransaction
    <2>2. KeysAreHeld'
      <3>1. \A q \in InTransaction : q # r /\ req[q].engagement.key # None =>
                /\ e.key # req[q].engagement.key
                /\ \A p \in Requests : engagements[p].key # req[q].engagement.key
                /\ \A p \in InTransaction : p # q => req[p].engagement.key # req[q].engagement.key
        BY <1>18 DEF IntentInv, KeyInv, KeysAreHeld
      <3>2. \A q \in InTransaction : q # r => req'[q] = req[q]
        BY <1>15 DEF InTransaction
      <3>3. QED
        BY <1>14, <2>1, <3>1, <3>2 DEF KeysAreHeld
    <2>3. OneEngagementPerKey'
      BY <1>14, <1>18 DEF IntentInv, KeyInv, OneEngagementPerKey
    <2>4. CommitsPrecede'
      BY <1>14, <1>15, <1>19 DEF IntentInv, KeyInv, CommitsPrecede
    <2>5. AnnouncedIsCommitted'
      BY <1>11, <1>14, <1>19 DEF IntentInv, KeyInv, AnnouncedIsCommitted, TypeOK, TablesTyped
    <2>6. QED
      BY <2>2, <2>3, <2>4, <2>5 DEF KeyInv
  <1>23. ConsentInv'
    <2>1. \A w \in Visits : visits'[w].visitor = visits[w].visitor
                            /\ visits'[w].consent = visits[w].consent
      BY <1>8, <1>12
    <2>2. QED
      BY <1>11, <2>1 DEF IntentInv, ConsentInv, VisitsShowConsent, TypeOK, TablesTyped
  <1>24. QED
    BY <1>20, <1>21, <1>22, <1>23 DEF IntentInv

\* The commit of a consent writes it to the visits of its visitor.
LEMMA CommitConsentStep ==
    ASSUME TypeOK, IntentInv, NEW r \in Requests, CommitConsent(r)
    PROVE  TypeOK' /\ IntentInv'
  <1> DEFINE u == req[r].visitor
             status == req[r].status
             x == [NoRequest EXCEPT !.at = "done"]
  <1>1. req[r].at = "consent" /\ u \in Visitors /\ status \in Answers
    BY RequestFacts DEF CommitConsent
  <1>2. req' = [req EXCEPT ![r] = x] /\ RequestTyped(x) /\ x.at = "done"
    BY DoneIsTyped DEF CommitConsent, End
  <1>3. visits' = [v \in Visits |-> IF v \in OfVisitor(u) THEN Shown(v, status) ELSE visits[v]]
    BY DEF CommitConsent
  <1>4. /\ consents' = [consents EXCEPT ![u] = IF status = req[r].read THEN @ ELSE status]
        /\ covered' = covered \cup OfVisitor(u)
        /\ raced' = IF req[r].read # consents[u] THEN raced \cup {u} ELSE raced
        /\ UNCHANGED <<lastVisit, engagements, announced, total>>
    BY DEF CommitConsent
  <1> HIDE DEF u, status, x
  <1>5. \A v \in Visits : LET row == Shown(v, status) IN
            /\ row \in Visit /\ row.visitor = visits[v].visitor /\ row.score = visits[v].score
            /\ row.level = visits[v].level /\ row.consent = status
    BY <1>1 DEF Shown, TypeOK, TablesTyped, Visit
  <1>6. \A v \in Visits :
            /\ visits'[v] \in Visit
            /\ visits'[v].visitor = visits[v].visitor /\ visits'[v].score = visits[v].score
            /\ visits'[v].level = visits[v].level
            /\ visits[v].visitor = u => visits'[v].consent = status
            /\ visits[v].visitor # u => visits'[v] = visits[v]
    BY <1>3, <1>5 DEF OfVisitor, TypeOK, TablesTyped
  <1>7. /\ RequestsTyped' /\ req'[r] = x
        /\ \A q \in Requests : q # r => req'[q] = req[q]
    BY <1>2, RequestReplaced
  <1>8. /\ consents' \in [Visitors -> Answers \cup {"unknown"}]
        /\ \A w \in Visitors : w # u => consents'[w] = consents[w]
        /\ consents'[u] = status \/ u \in raced'
    BY <1>1, <1>4 DEF TypeOK, TablesTyped
  <1>9. raced \subseteq raced' /\ raced' \subseteq Visitors /\ OfVisitor(u) \subseteq Visits
    BY <1>1, <1>4 DEF OfVisitor, TypeOK, TablesTyped
  <1>10. TypeOK'
    <2>1. visits' \in [Visits -> Visit]
      BY <1>3, <1>6
    <2>2. QED
      BY <1>4, <1>7, <1>8, <1>9, <2>1 DEF TypeOK, TablesTyped
  <1>11. \A v \in Visits : v > lastVisit => visits[v] = NoVisit /\ visits[v].visitor # u
    BY <1>1, RestIsTyped, ConstantFacts DEF IntentInv, ScoreInv, VisitsExist
  <1>12. ScoreInv'
    <2>1. VisitsExist'
      BY <1>2, <1>4, <1>6, <1>7, <1>11 DEF IntentInv, ScoreInv, VisitsExist
    <2>2. ScoreIsFresh'
      BY <1>2, <1>6, <1>7, RequestFacts DEF IntentInv, ScoreInv, ScoreIsFresh
    <2>3. LocksExclude'
      BY <1>2, <1>7 DEF IntentInv, ScoreInv, LocksExclude
    <2>4. ScoreIsCappedTotal'
      BY <1>4, <1>6 DEF IntentInv, ScoreInv, ScoreIsCappedTotal
    <2>5. QED
      BY <2>1, <2>2, <2>3, <2>4 DEF ScoreInv
  <1>13. KeyInv'
    BY <1>2, <1>4, <1>7 DEF IntentInv, KeyInv, KeysAreHeld, InTransaction, OneEngagementPerKey,
                            CommitsPrecede, AnnouncedIsCommitted
  <1>14. ConsentInv'
    <2>1. \A v \in covered' : v \in Visits /\ v <= lastVisit
      <3>1. \A v \in OfVisitor(u) : v \in Visits /\ ~(v > lastVisit)
        BY <1>11 DEF OfVisitor
      <3>2. \A v \in Visits : ~(v > lastVisit) => v <= lastVisit
        BY ConstantFacts DEF TypeOK, TablesTyped, Visits
      <3>3. QED
        BY <1>4, <3>1, <3>2 DEF IntentInv, ConsentInv, TypeOK, TablesTyped
    <2>2. ASSUME NEW v \in covered', visits'[v].visitor \notin raced'
          PROVE  visits'[v].consent = consents'[visits'[v].visitor]
      <3>1. v \in Visits
        BY <2>1
      <3>2. CASE visits[v].visitor = u
        BY <1>6, <1>8, <2>2, <3>1, <3>2
      <3>3. CASE visits[v].visitor # u
        <4>1. v \in covered /\ visits'[v] = visits[v] /\ visits[v].visitor \notin raced
          BY <1>4, <1>6, <1>9, <2>2, <3>1, <3>3 DEF OfVisitor
        <4>2. visits[v].consent = consents[visits[v].visitor]
          BY <4>1 DEF IntentInv, ConsentInv, VisitsShowConsent
        <4>3. consents'[visits[v].visitor] = consents[visits[v].visitor]
          BY <1>4, <3>3 DEF TypeOK, TablesTyped
        <4>4. QED
          BY <4>1, <4>2, <4>3
      <3>4. QED
        BY <3>2, <3>3
    <2>3. QED
      BY <1>4, <2>1, <2>2 DEF ConsentInv, VisitsShowConsent
  <1>15. QED
    BY <1>10, <1>12, <1>13, <1>14 DEF IntentInv

-------------------------------------------------------------------------------
\* Every action keeps type and invariant: the lemmas above, one per action.
LEMMA NextStep ==
    ASSUME TypeOK, IntentInv, Next
    PROVE  TypeOK' /\ IntentInv'
  <1> PICK r \in Requests :
        \/ \E u \in Visitors, s \in Answers \cup {"unknown"} : RecordVisit(r, u, s)
        \/ \E v \in Visits, k \in Keys \cup {None}, n \in Points : Find(r, v, k, n)
        \/ Insert(r)
        \/ InsertFails(r)
        \/ LockVisit(r)
        \/ CommitEngagement(r)
        \/ Announce(r)
        \/ Die(r)
        \/ \E u \in Visitors, s \in Answers : ReadConsent(r, u, s)
        \/ CommitConsent(r)
    BY DEF Next
  <1>1. CASE \E u \in Visitors, s \in Answers \cup {"unknown"} : RecordVisit(r, u, s)
    BY <1>1, RecordVisitStep
  <1>2. CASE \E v \in Visits, k \in Keys \cup {None}, n \in Points : Find(r, v, k, n)
    BY <1>2, FindStep
  <1>3. CASE Insert(r)
    BY <1>3, InsertStep
  <1>4. CASE InsertFails(r) \/ Die(r)
    BY <1>4, EndStep, AnnouncedKept DEF InsertFails, Die
  <1>5. CASE LockVisit(r)
    BY <1>5, LockVisitStep
  <1>6. CASE CommitEngagement(r)
    BY <1>6, CommitEngagementStep
  <1>7. CASE Announce(r)
    BY <1>7, AnnounceStep
  <1>8. CASE \E u \in Visitors, s \in Answers : ReadConsent(r, u, s)
    BY <1>8, ReadConsentStep
  <1>9. CASE CommitConsent(r)
    BY <1>9, CommitConsentStep
  <1>10. QED
    BY <1>1, <1>2, <1>3, <1>4, <1>5, <1>6, <1>7, <1>8, <1>9

\* A stuttering step keeps type and invariant.
LEMMA StutterStep ==
    TypeOK /\ IntentInv /\ UNCHANGED vars => TypeOK' /\ IntentInv'
  <1> SUFFICES ASSUME TypeOK, IntentInv, UNCHANGED vars
               PROVE  TypeOK' /\ IntentInv'
    OBVIOUS
  <1>1. TypeOK'
    BY DEF TypeOK, TablesTyped, RequestsTyped, RequestTyped, Request, vars, histories
  <1>2. ScoreInv'
    BY DEF IntentInv, ScoreInv, VisitsExist, ScoreIsFresh, LocksExclude, ScoreIsCappedTotal,
           vars, histories
  <1>3. KeyInv'
    BY DEF IntentInv, KeyInv, KeysAreHeld, InTransaction, OneEngagementPerKey,
           CommitsPrecede, AnnouncedIsCommitted, vars, histories
  <1>4. ConsentInv'
    BY DEF IntentInv, ConsentInv, VisitsShowConsent, vars, histories
  <1>5. QED
    BY <1>1, <1>2, <1>3, <1>4 DEF IntentInv

\* Type and invariant hold throughout.
LEMMA Invariants == Spec => [](TypeOK /\ IntentInv)
  <1>1. TypeOK /\ IntentInv /\ [Next]_vars => TypeOK' /\ IntentInv'
    BY NextStep, StutterStep
  <1>2. QED
    BY <1>1, InitFacts, PTL DEF Spec

\* Type correctness of visits, engagements, consents and requests.
THEOREM TypeCorrect == Spec => []TypeOK
  BY Invariants, PTL

\* RecordEngagement adds under the row lock: no point is lost and none counted
\* twice, whatever engagements race on a visit and whichever of them die.
THEOREM ScoresAreCappedTotals == Spec => []ScoreIsCappedTotal
  <1>1. TypeOK /\ IntentInv => ScoreIsCappedTotal
    BY DEF IntentInv, ScoreInv
  <1>2. QED
    BY <1>1, Invariants, PTL

\* The unique index makes up for the lookup that RecordEngagement does before its
\* transaction: a key is recorded once.
THEOREM KeysCountOnce == Spec => []OneEngagementPerKey
  <1>1. TypeOK /\ IntentInv => OneEngagementPerKey
    BY DEF IntentInv, KeyInv
  <1>2. QED
    BY <1>1, Invariants, PTL

\* DB::afterCommit(): listeners hear of committed engagements only.
THEOREM AnnouncementsAreCommitted == Spec => []AnnouncedIsCommitted
  <1>1. TypeOK /\ IntentInv => AnnouncedIsCommitted
    BY DEF IntentInv, KeyInv
  <1>2. QED
    BY <1>1, Invariants, PTL

\* SetConsent: visits show what their visitor last chose, unless two choices raced.
THEOREM ConsentIsShown == Spec => []VisitsShowConsent
  <1>1. TypeOK /\ IntentInv => VisitsShowConsent
    BY DEF IntentInv, ConsentInv
  <1>2. QED
    BY <1>1, Invariants, PTL

-------------------------------------------------------------------------------
(* The book of scores *)

\* A request that has not committed has no engagement yet, and the one it is about to
\* record has points of the scorer.
PendingInv ==
    \A r \in Requests :
        /\ req[r].at \in {"idle", "insert", "lock", "write"} => engagements[r] = NoEngagement
        /\ req[r].at \in {"insert", "lock", "write"} => req[r].engagement.points \in Points

\* A step that ends request r, or moves it on with the engagement it has.
LEMMA PendingKept ==
    ASSUME TypeOK, PendingInv, NEW r \in Requests, NEW x, req' = [req EXCEPT ![r] = x],
           UNCHANGED engagements,
           x.at \in {"idle", "insert", "lock", "write"} => engagements[r] = NoEngagement,
           x.at \in {"insert", "lock", "write"} => x.engagement.points \in Points
    PROVE  PendingInv'
  BY DEF PendingInv, TypeOK, RequestsTyped

\* A request commits once: every step keeps the uncommitted ones without engagement.
LEMMA PendingStep == TypeOK /\ PendingInv /\ [Next]_vars => PendingInv'
  <1> SUFFICES ASSUME TypeOK, PendingInv, [Next]_vars
               PROVE  PendingInv'
    OBVIOUS
  <1> DEFINE done == [NoRequest EXCEPT !.at = "done"]
  <1>0. done.at = "done"
    BY DoneIsTyped
  <1> HIDE DEF done
  <1>1. ASSUME NEW r \in Requests, End(r), UNCHANGED engagements
        PROVE  PendingInv'
    <2>1. req' = [req EXCEPT ![r] = done]
      BY <1>1 DEF End, done
    <2>2. QED
      BY <1>0, <1>1, <2>1, PendingKept
  <1>2. CASE UNCHANGED vars
    BY <1>2 DEF vars, PendingInv
  <1>3. ASSUME NEW r \in Requests,
               \/ \E u \in Visitors, s \in Answers \cup {"unknown"} : RecordVisit(r, u, s)
               \/ InsertFails(r) \/ Announce(r) \/ Die(r) \/ CommitConsent(r)
        PROVE  PendingInv'
    BY <1>1, <1>3 DEF RecordVisit, InsertFails, Announce, Die, CommitConsent
  <1>4. ASSUME NEW r \in Requests, NEW v \in Visits, NEW k \in Keys \cup {None},
               NEW n \in Points, Find(r, v, k, n)
        PROVE  PendingInv'
    <2>1. CASE Recorded(k)
      BY <1>1, <1>4, <2>1 DEF Find
    <2>2. CASE ~Recorded(k)
      <3> DEFINE x == [req[r] EXCEPT !.at = "insert", !.score = visits[v].score,
                                     !.engagement = [visit |-> v, key |-> k, points |-> n]]
      <3>1. req' = [req EXCEPT ![r] = x] /\ UNCHANGED engagements
        BY <1>4, <2>2 DEF Find, TypeOK, RequestsTyped, Request
      <3>2. x.at = "insert" /\ x.engagement.points = n
        BY RequestFacts DEF Request
      <3>3. engagements[r] = NoEngagement
        BY <1>4 DEF Find, PendingInv
      <3> HIDE DEF x
      <3>4. QED
        BY <3>1, <3>2, <3>3, PendingKept
    <2>3. QED
      BY <2>1, <2>2
  <1>5. ASSUME NEW r \in Requests, Insert(r)
        PROVE  PendingInv'
    <2> DEFINE x == [req[r] EXCEPT !.at = "lock"]
    <2>1. req' = [req EXCEPT ![r] = x] /\ UNCHANGED engagements
      BY <1>5 DEF Insert
    <2>2. x.engagement = req[r].engagement
      BY RequestFacts DEF Request
    <2>3. engagements[r] = NoEngagement /\ req[r].engagement.points \in Points
      BY <1>5 DEF Insert, PendingInv
    <2> HIDE DEF x
    <2>4. QED
      BY <2>1, <2>2, <2>3, PendingKept
  <1>6. ASSUME NEW r \in Requests, LockVisit(r)
        PROVE  PendingInv'
    <2> DEFINE x == [req[r] EXCEPT !.at = "write",
                                   !.score = visits[req[r].engagement.visit].score]
    <2>1. req' = [req EXCEPT ![r] = x] /\ UNCHANGED engagements
      BY <1>6 DEF LockVisit, TypeOK, RequestsTyped, Request
    <2>2. x.engagement = req[r].engagement
      BY RequestFacts DEF Request
    <2>3. engagements[r] = NoEngagement /\ req[r].engagement.points \in Points
      BY <1>6 DEF LockVisit, PendingInv
    <2> HIDE DEF x
    <2>4. QED
      BY <2>1, <2>2, <2>3, PendingKept
  <1>7. ASSUME NEW r \in Requests, CommitEngagement(r)
        PROVE  PendingInv'
    <2>1. /\ req'[r].at = "announce"
          /\ \A q \in Requests : q # r => req'[q] = req[q] /\ engagements'[q] = engagements[q]
      BY <1>7, RequestFacts DEF CommitEngagement, TypeOK, TablesTyped, RequestsTyped, Request
    <2>2. QED
      BY <2>1 DEF PendingInv
  <1>8. ASSUME NEW r \in Requests, NEW u \in Visitors, NEW s \in Answers, ReadConsent(r, u, s)
        PROVE  PendingInv'
    <2> DEFINE x == [NoRequest EXCEPT !.at = "consent", !.visitor = u, !.read = consents[u],
                                      !.status = s]
    <2>1. req' = [req EXCEPT ![r] = x] /\ UNCHANGED engagements
      BY <1>8 DEF ReadConsent
    <2>2. x.at = "consent"
      BY DEF NoRequest
    <2> HIDE DEF x
    <2>3. QED
      BY <2>1, <2>2, PendingKept
  <1>9. QED
    BY <1>2, <1>3, <1>4, <1>5, <1>6, <1>7, <1>8 DEF Next

scores == [v \in Visits |-> visits[v].score]

\* A step that leaves the scores, the engagements and the announcements is not seen in the
\* book.
LEMMA BookUnseen ==
    ASSUME \A v \in Visits : visits'[v].score = visits[v].score,
           UNCHANGED <<engagements, announced>>
    PROVE  UNCHANGED <<scores, engagements, announced>>
  BY DEF scores

\* The commit is the entry, the event the announcement; nothing else is seen in the book.
LEMMA StepIsBooked ==
    TypeOK /\ IntentInv /\ PendingInv /\ [Next]_vars
        => [Book!Next]_<<scores, engagements, announced>>
  <1> DEFINE Seen == [Book!Next]_<<scores, engagements, announced>>
  <1> SUFFICES ASSUME TypeOK, IntentInv, PendingInv, [Next]_vars
               PROVE  Seen
    OBVIOUS
  <1>1. CASE UNCHANGED vars
    BY <1>1 DEF vars, scores
  <1>2. ASSUME NEW r \in Requests, NEW u \in Visitors,
               NEW s \in Answers \cup {"unknown"}, RecordVisit(r, u, s)
        PROVE  Seen
    <2> DEFINE new == lastVisit + 1
    <2>1. new \in Visits /\ new > lastVisit
      BY <1>2, ConstantFacts DEF RecordVisit, TypeOK, TablesTyped, Visits
    <2>2. visits[new].score = 0
      BY <2>1, RestIsTyped DEF IntentInv, ScoreInv, VisitsExist
    <2>3. /\ visits' = [visits EXCEPT ![new] = [NoVisit EXCEPT !.visitor = u, !.consent = s]]
          /\ UNCHANGED <<engagements, announced>>
      BY <1>2 DEF RecordVisit
    <2> HIDE DEF new
    <2>4. \A v \in Visits : visits'[v].score = visits[v].score
      BY <2>1, <2>2, <2>3 DEF NoVisit, TypeOK, TablesTyped
    <2>5. QED
      BY <2>3, <2>4, BookUnseen
  <1>3. ASSUME NEW r \in Requests,
               \/ \E v \in Visits, k \in Keys \cup {None}, n \in Points : Find(r, v, k, n)
               \/ Insert(r) \/ InsertFails(r) \/ LockVisit(r) \/ Die(r)
               \/ \E u \in Visitors, s \in Answers : ReadConsent(r, u, s)
        PROVE  Seen
    <2>1. UNCHANGED <<visits, engagements, announced>>
      BY <1>3 DEF Find, Insert, InsertFails, LockVisit, Die, ReadConsent
    <2>2. QED
      BY <2>1, BookUnseen
  <1>4. ASSUME NEW r \in Requests, CommitEngagement(r)
        PROVE  Seen
    <2>0. PICK e \in Engagement : e = req[r].engagement
      BY <1>4, RequestFacts DEF CommitEngagement
    <2>1. /\ req[r].at = "write" /\ e \in Engagement /\ e.visit \in Visits
          /\ e.points \in Points /\ engagements[r] = NoEngagement
          /\ req[r].score = visits[e.visit].score
      BY <1>4, <2>0, RequestFacts
         DEF CommitEngagement, PendingInv, IntentInv, ScoreInv, ScoreIsFresh
    <2>2. e \in Book!Entry
      BY <2>1 DEF Engagement, Book!Entry
    <2>3. e.key # None => \A q \in Requests : engagements[q].key # e.key
      BY <2>0, <2>1 DEF IntentInv, KeyInv, KeysAreHeld, InTransaction
    <2>4. /\ engagements' = [engagements EXCEPT ![r] = e] /\ UNCHANGED announced
          /\ visits' = [visits EXCEPT ![e.visit].score = Scored(req[r].score, e.points),
                                      ![e.visit].level = Level(Scored(req[r].score, e.points))]
      BY <1>4, <2>0 DEF CommitEngagement
    <2>5. Scored(req[r].score, e.points) = Book!Capped(scores[e.visit] + e.points)
      BY <2>1 DEF Scored, Book!Capped, scores
    <2>6. \A v \in Visits :
              visits'[v].score = IF v = e.visit THEN Scored(req[r].score, e.points)
                                                ELSE visits[v].score
      BY <2>1, <2>4 DEF TypeOK, TablesTyped, Visit
    <2>7. scores' = [scores EXCEPT ![e.visit] = Book!Capped(@ + e.points)]
      BY <2>1, <2>5, <2>6 DEF scores
    <2>8. Book!Enter(r, e)
      <3>1. [v \in Visits |-> visits[v].score]'
                = [[v \in Visits |-> visits[v].score] EXCEPT ![e.visit] = Book!Capped(@ + e.points)]
        BY <2>7 DEF scores
      <3>2. QED
        BY <2>1, <2>3, <2>4, <3>1 DEF Book!Enter
    <2>9. QED
      BY <2>2, <2>8 DEF Book!Next
  <1>5. ASSUME NEW r \in Requests, Announce(r)
        PROVE  Seen
    <2>1. /\ engagements[r] # NoEngagement /\ announced' = announced \cup {r}
          /\ UNCHANGED <<visits, engagements>>
      BY <1>5 DEF Announce, IntentInv, KeyInv, CommitsPrecede
    <2>2. UNCHANGED scores
      BY <2>1 DEF scores
    <2>3. Book!Announce(r)
      BY <2>1, <2>2 DEF Book!Announce, scores
    <2>4. QED
      BY <2>3 DEF Book!Next
  <1>6. ASSUME NEW r \in Requests, CommitConsent(r)
        PROVE  Seen
    <2>1. /\ visits' = [v \in Visits |-> IF v \in OfVisitor(req[r].visitor)
                                         THEN Shown(v, req[r].status) ELSE visits[v]]
          /\ UNCHANGED <<engagements, announced>>
      BY <1>6 DEF CommitConsent
    <2>2. \A v \in Visits : visits'[v].score = visits[v].score
      BY <2>1 DEF Shown, TypeOK, TablesTyped, Visit
    <2>3. QED
      BY <2>1, <2>2, BookUnseen
  <1>7. QED
    BY <1>1, <1>2, <1>3, <1>4, <1>5, <1>6 DEF Next

\* RecordEngagement implements the book of scores: a lookup outside the transaction, the unique
\* index, the row lock, the commit and the event after it are seen as one entry, then its
\* announcement, whatever other requests and deaths come between them.
THEOREM EngagementsImplementBook == Spec => ImplementsScoreBook
  <1>1. Init => PendingInv
    BY DEF Init, PendingInv, NoRequest
  <1>2. Init => Book!Init
    <2> SUFFICES ASSUME Init
                 PROVE  Book!Init
      OBVIOUS
    <2>1. \A v \in Visits : visits[v].score = 0
      <3>1. \A u \in Visitors : [NoVisit EXCEPT !.visitor = u].score = 0
        BY DEF NoVisit
      <3>2. \A v \in Visits :
                visits[v] \in {NoVisit} \cup {[NoVisit EXCEPT !.visitor = u] : u \in Visitors}
        BY DEF Init
      <3>3. QED
        BY <3>1, <3>2, RestIsTyped
    <2>2. QED
      BY <2>1 DEF Init, Book!Init
  <1>3. [Book!Next]_<<scores, engagements, announced>> =>
            [Book!Next]_<<[v \in Visits |-> visits[v].score], engagements, announced>>
    BY DEF scores
  <1>4. QED
    BY <1>1, <1>2, <1>3, PendingStep, StepIsBooked, Invariants, PTL
       DEF Spec, ImplementsScoreBook, Book!Spec

-------------------------------------------------------------------------------
(***************************************************************************)
(* Scheduled social posts (SocialPosts), under an instance of their own:   *)
(* like a visit, a post is recorded by requests and runs that overlap.     *)
(***************************************************************************)
CONSTANTS Posts, Platforms, Lists, WithId, ByButton, Zernio, Setups, Retries, Runs,
          MaxMishaps, MaxCauses

VARIABLES mode, missing, rows, run, editor, mishaps, sent, answered, lapsed, causes, byHand

Social == INSTANCE SocialPosts

Ids == Platforms \cup {Zernio}

RunStates == [at: Social!Places \cup WithId, queue: SUBSET Posts, post: Posts \cup {0},
              todo: Seq(Platforms), ok: BOOLEAN,
              ids: UNION {[P -> SUBSET Ids] : P \in SUBSET Posts},
              status: {"scheduled", "published"}, was: {"scheduled", "published"},
              unsaved: BOOLEAN]

\* Run x has post p in hand.
InHand(x, p) == x.at \notin {"idle", "next"} /\ x.post = p

\* The posts run x has fetched and not settled.
HeldIn(x) == x.queue \cup (IF x.at \in {"idle", "next"} THEN {} ELSE {x.post})

\* Run x may yet send p on f.
MaySend(x, p, f) ==
    \/ p \in x.queue /\ f \in Social!Range(rows[p].platforms)
    \/ /\ InHand(x, p)
       /\ x.at \in WithId \cup {"platforms", "zernio"}
       /\ f \in Social!Range(x.todo)

\* Run x has p in hand and saved it as published: at its end it will leave the status alone.
Marked(x, p) == InHand(x, p) /\ x.was = "published"

\* A run knows the ids of the posts it holds, the one in hand is not queued any more,
\* and no platform is left twice.
SoundRun(x) ==
    /\ x \in RunStates
    /\ x.ids \in [HeldIn(x) -> SUBSET Ids]
    /\ x.at = "idle" => x.queue = {}
    /\ x.at = "next" => x.queue # {}
    /\ x.at \notin {"idle", "next"} => x.post \in Posts /\ x.post \notin x.queue
    /\ Social!IsInjective(x.todo)

SocialTypes ==
    /\ mode \in {"fallback", "preferred", "zernio"}
    /\ rows \in [Posts -> Social!Post]
    /\ run \in [Runs -> RunStates] /\ \A r \in Runs : SoundRun(run[r])
    /\ editor \in [post: Posts \cup {0}, status: Social!Statuses]
    /\ editor # Social!NoEdit => editor.post \in Posts
    /\ mishaps \in Nat
    /\ sent \in [Posts -> [Platforms -> Nat]]
    /\ answered \in [Posts -> SUBSET Platforms]
    /\ lapsed \subseteq Posts
    /\ causes \in [Posts -> Nat]
    /\ byHand \subseteq Posts

Unheld(p) == \A r \in Runs : p \notin HeldIn(run[r])

Senders(p, f) == {r \in Runs : MaySend(run[r], p, f)}

One(b) == IF b THEN 1 ELSE 0

\* The next run will find p and send it on f: p is scheduled, and no run that holds it will
\* change that.
Found(p, f) ==
    /\ rows[p].status = "scheduled" /\ f \in Social!Range(rows[p].platforms)
    /\ \A r \in Runs : p \in HeldIn(run[r]) => Marked(run[r], p)

\* What went out, what the runs may yet send and what the next run will find are paid
\* for together.
SendsArePaid ==
    \A p \in Posts, f \in Platforms :
        sent[p][f] + Cardinality(Senders(p, f)) + One(Found(p, f)) <= 1 + causes[p]

\* The platforms of p that answered without an exception and returned an id.
OutWithId(p) == {f \in WithId \cap answered[p] : sent[p][f] > 0}

\* How far the run that holds p has got, and what it has recorded.
Progress(x, p) ==
    LET all == Social!Range(rows[p].platforms)
        left == Social!Range(x.todo)
    IN
    /\ x.at = "zernio" => answered[p] = {} /\ p \notin lapsed /\ x.todo = rows[p].platforms
    /\ x.at = "record zernio" => answered[p] = all /\ p \notin lapsed
    /\ x.at = "close" =>
          /\ ~x.ok
          /\ answered[p] = {} \/ (p \in lapsed /\ x.unsaved /\ Zernio \in x.ids[p])
    /\ x.at \in WithId \cup {"platforms"} =>
          /\ answered[p] \cup left \subseteq all
          /\ answered[p] \cap left = {}
          /\ x.ok <=> all \subseteq answered[p] \cup left /\ p \notin lapsed
          /\ OutWithId(p) \subseteq x.ids[p] \cup {x.at}
    /\ x.at \in WithId \cup {"platforms", "zernio"} => x.status = x.was

\* The row has the ids of its platforms.
IdsSound(p) == Zernio \notin rows[p].ids => OutWithId(p) \subseteq rows[p].ids

\* The run that holds p is the only one, and unless a user wrote the status of p, p is
\* still scheduled.  The run knows the ids of the row, and others only if a save failed.
HeldSound(r, p) ==
    /\ \A q \in Runs : p \in HeldIn(run[q]) => q = r
    /\ p \notin byHand => rows[p].status = "scheduled"
    /\ ~(InHand(run[r], p) /\ run[r].unsaved) => run[r].ids[p] = rows[p].ids
    /\ IF InHand(run[r], p) THEN Progress(run[r], p) ELSE IdsSound(p)

\* Every platform of p went without an exception, and everything was saved.
WentWell(p) == answered[p] = Social!Range(rows[p].platforms) /\ p \notin lapsed

\* A post that no run holds has the status of its outcome and all its ids.
FreeSound(p) ==
    /\ p \notin byHand =>
          /\ rows[p].status = "published" => WentWell(p)
          /\ rows[p].status = "failed" => ~WentWell(p)
    /\ IdsSound(p)

PostSound(p) ==
    causes[p] = 0 =>
        /\ \A r \in Runs : p \in HeldIn(run[r]) => HeldSound(r, p)
        /\ Unheld(p) => FreeSound(p)

PostsAreSound == \A p \in Posts : PostSound(p)

SocialInv == SendsArePaid /\ PostsAreSound

\* Runs are finitely many.
LEMMA RunsFinite ==
    ASSUME Social!RunsAreFinite
    PROVE  IsFiniteSet(Runs)
  BY DEF Social!RunsAreFinite, Social!IsFiniteSet, IsFiniteSet

\* A set of numbers that is not empty has a smallest one.
LEMMA SmallestPost ==
    ASSUME Social!PostsAreIds,
           NEW P \in SUBSET Posts, P # {}
    PROVE  Social!Min(P) \in P
  <1> DEFINE Less == {p \in Nat \X Nat : p[1] < p[2]}
  <1>1. IsWellFoundedOn(Less, Nat)
    BY NatLessThanWellFounded DEF OpToRel
  <1>2. \A x, y \in Nat : <<y, x>> \notin Less => x =< y
    OBVIOUS
  <1> HIDE DEF Less
  <1>3. P \in SUBSET Nat
    BY DEF Social!PostsAreIds
  <1>4. \E x \in P : \A y \in P : <<y, x>> \notin Less
    BY <1>1, <1>3, WFMin
  <1>5. \E x \in P : \A y \in P : x =< y
    BY <1>2, <1>3, <1>4
  <1>6. QED
    BY <1>5 DEF Social!Min

\* A selection of platforms is its first one and the others.
LEMMA ListSplit ==
    ASSUME NEW s \in Seq(Platforms), s # <<>>, Social!IsInjective(s)
    PROVE  /\ Head(s) \in Platforms /\ Tail(s) \in Seq(Platforms)
           /\ Social!Range(s) = {Head(s)} \cup Social!Range(Tail(s))
           /\ Head(s) \notin Social!Range(Tail(s))
           /\ Social!IsInjective(Tail(s))
  <1>1. Head(s) = s[1] /\ Head(s) \in Platforms /\ Tail(s) \in Seq(Platforms)
    OBVIOUS
  <1>2. Len(s) \in Nat \ {0} /\ Len(Tail(s)) = Len(s) - 1 /\ DOMAIN s = 1..Len(s)
        /\ DOMAIN Tail(s) = 1..(Len(s) - 1)
    OBVIOUS
  <1>3. \A i \in 1..(Len(s) - 1) : Tail(s)[i] = s[i + 1] /\ i + 1 \in DOMAIN s /\ i + 1 # 1
    BY <1>2
  <1>4. Social!IsInjective(Tail(s))
    BY <1>2, <1>3 DEF Social!IsInjective
  <1>5. Head(s) \notin Social!Range(Tail(s))
    BY <1>1, <1>2, <1>3 DEF Social!IsInjective, Social!Range
  <1>6. Social!Range(Tail(s)) \subseteq Social!Range(s) /\ Head(s) \in Social!Range(s)
    BY <1>1, <1>2, <1>3 DEF Social!Range
  <1>7. \A y \in Social!Range(s) : y = Head(s) \/ y \in Social!Range(Tail(s))
    <2> SUFFICES ASSUME NEW y \in Social!Range(s), y # Head(s)
                 PROVE  y \in Social!Range(Tail(s))
      OBVIOUS
    <2>1. PICK i \in 1..Len(s) : y = s[i]
      BY <1>2 DEF Social!Range
    <2>2. i - 1 \in 1..(Len(s) - 1) /\ Tail(s)[i - 1] = s[i]
      BY <1>1, <1>2, <1>3, <2>1
    <2>3. QED
      BY <1>2, <2>1, <2>2 DEF Social!Range
  <1>8. QED
    BY <1>1, <1>4, <1>5, <1>6, <1>7

\* No platform is left of an empty list.
LEMMA NothingLeft == Social!Range(<<>>) = {} /\ Social!IsInjective(<<>>) /\ <<>> \in Seq(Platforms)
  BY DEF Social!Range, Social!IsInjective

\* What one run adds to a set of runs.
LEMMA CountOne ==
    ASSUME Social!RunsAreFinite,
           NEW S \in SUBSET Runs, NEW r \in Runs
    PROVE  /\ Cardinality(S) \in Nat /\ Cardinality(S \ {r}) \in Nat
           /\ Cardinality(S) = Cardinality(S \ {r}) + One(r \in S)
  <1>1. IsFiniteSet(S) /\ IsFiniteSet(S \ {r})
    BY RunsFinite, FS_Subset
  <1>2. Cardinality(S) \in Nat /\ Cardinality(S \ {r}) \in Nat
    BY <1>1, FS_CardinalityType
  <1>3. CASE r \in S
    <2>1. Cardinality(S \ {r}) = Cardinality(S) - 1
      BY <1>1, <1>3, FS_RemoveElement
    <2>2. QED
      BY <1>2, <1>3, <2>1 DEF One
  <1>4. CASE r \notin S
    <2>1. S \ {r} = S
      BY <1>4
    <2>2. QED
      BY <1>2, <1>4, <2>1 DEF One
  <1>5. QED
    BY <1>2, <1>3, <1>4

-------------------------------------------------------------------------------
\* What a typed run and a typed post are.
LEMMA RunFacts ==
    ASSUME NEW x \in RunStates
    PROVE  /\ x = [at |-> x.at, queue |-> x.queue, post |-> x.post, todo |-> x.todo,
                   ok |-> x.ok, ids |-> x.ids, status |-> x.status, was |-> x.was,
                   unsaved |-> x.unsaved]
           /\ x.at \in Social!Places \cup WithId /\ x.queue \subseteq Posts
           /\ x.post \in Posts \cup {0} /\ x.todo \in Seq(Platforms) /\ x.ok \in BOOLEAN
           /\ x.status \in {"scheduled", "published"} /\ x.was \in {"scheduled", "published"}
           /\ x.unsaved \in BOOLEAN
           /\ HeldIn(x) \subseteq Posts \cup {0}
  BY DEF RunStates, HeldIn

\* What the type says of one post: its list of platforms is not empty and names each once.
LEMMA RowFacts ==
    ASSUME Social!ListsAreSelections,
           SocialTypes, NEW p \in Posts
    PROVE  /\ rows[p] \in Social!Post /\ rows[p].status \in Social!Statuses /\ rows[p].due \in BOOLEAN
           /\ rows[p].platforms \in Lists /\ rows[p].ids \subseteq Ids
           /\ rows[p].platforms \in Seq(Platforms) /\ rows[p].platforms # <<>>
           /\ Social!IsInjective(rows[p].platforms)
           /\ sent[p] \in [Platforms -> Nat] /\ answered[p] \subseteq Platforms
           /\ causes[p] \in Nat
  <1>1. rows[p] \in Social!Post
    BY DEF SocialTypes
  <1>2. rows[p].platforms \in Lists
    BY <1>1 DEF Social!Post
  <1>3. QED
    BY <1>1, <1>2 DEF Social!ListsAreSelections, SocialTypes, Social!Post, Ids

\* No platform is a place, and none is the publisher's.
LEMMA PlaceFacts ==
    ASSUME Social!PlatformsAreNamed
    PROVE  /\ \A f \in WithId : f \in Platforms /\ f \notin Social!Places /\ f # Zernio
    /\ \A f \in Platforms : f \notin Social!Places /\ f # Zernio
  BY DEF Social!PlatformsAreNamed

\* A run moves and the others stay.
LEMMA RunMoves ==
    ASSUME SocialTypes, NEW r \in Runs, NEW x, SoundRun(x), run' = [run EXCEPT ![r] = x]
    PROVE  /\ run' \in [Runs -> RunStates] /\ \A q \in Runs : SoundRun(run'[q])
           /\ run'[r] = x /\ \A q \in Runs \ {r} : run'[q] = run[q]
  BY DEF SocialTypes, SoundRun

\* The account holds if the run that moves pays for what it sends.
LEMMA PaidMove ==
    ASSUME Social!RunsAreFinite,
           SocialTypes, SocialTypes', SendsArePaid, NEW r \in Runs,
           \A q \in Runs \ {r} : run'[q] = run[q],
           \A p \in Posts : rows'[p].platforms = rows[p].platforms,
           \A p \in Posts, f \in Platforms :
               sent'[p][f] + One(MaySend(run'[r], p, f)) + One(Found(p, f)') + causes[p]
                 <= sent[p][f] + One(MaySend(run[r], p, f)) + One(Found(p, f)) + causes'[p]
    PROVE  SendsArePaid'
  <1> SUFFICES ASSUME NEW p \in Posts, NEW f \in Platforms
               PROVE  sent'[p][f] + Cardinality(Senders(p, f)') + One(Found(p, f)')
                        <= 1 + causes'[p]
    BY DEF SendsArePaid
  <1> DEFINE S == Senders(p, f)
             T == Senders(p, f)'
  <1>1. S \in SUBSET Runs /\ T \in SUBSET Runs
    BY DEF Senders
  <1>2. S \ {r} = T \ {r}
    BY DEF Senders, MaySend
  <1>3. (r \in S <=> MaySend(run[r], p, f)) /\ (r \in T <=> MaySend(run'[r], p, f))
    BY DEF Senders, MaySend
  <1>4. sent[p][f] + Cardinality(S) + One(Found(p, f)) <= 1 + causes[p]
    BY DEF SendsArePaid
  <1>5. sent[p][f] \in Nat /\ sent'[p][f] \in Nat /\ causes[p] \in Nat /\ causes'[p] \in Nat
    BY DEF SocialTypes
  <1> HIDE DEF S, T
  <1>6. /\ Cardinality(S \ {r}) \in Nat
        /\ Cardinality(S) = Cardinality(S \ {r}) + One(r \in S)
    BY <1>1, CountOne
  <1>7. Cardinality(T) = Cardinality(T \ {r}) + One(r \in T)
    BY <1>1, CountOne
  <1> DEFINE n == Cardinality(S \ {r})
  <1>8. n \in Nat /\ Cardinality(S) = n + One(r \in S) /\ Cardinality(T) = n + One(r \in T)
    BY <1>2, <1>6, <1>7
  <1> HIDE DEF n
  <1>9. One(r \in S) = One(MaySend(run[r], p, f)) /\ One(r \in T) = One(MaySend(run'[r], p, f))
    BY <1>3 DEF One
  <1>10. sent'[p][f] + One(MaySend(run'[r], p, f)) + One(Found(p, f)') + causes[p]
           <= sent[p][f] + One(MaySend(run[r], p, f)) + One(Found(p, f)) + causes'[p]
    OBVIOUS
  <1>11. \A b : One(b) \in {0, 1}
    BY DEF One
  <1>12. sent'[p][f] + Cardinality(T) + One(Found(p, f)') <= 1 + causes'[p]
    BY <1>4, <1>5, <1>8, <1>9, <1>10, <1>11
  <1>13. QED
    BY <1>12 DEF T

\* The account holds if no run moves.
LEMMA PaidRest ==
    ASSUME Social!RunsAreFinite,
           SocialTypes, SocialTypes', SendsArePaid, UNCHANGED <<run, sent>>,
           \A p \in Posts : rows'[p].platforms = rows[p].platforms,
           \A p \in Posts, f \in Platforms :
               One(Found(p, f)') + causes[p] <= One(Found(p, f)) + causes'[p]
    PROVE  SendsArePaid'
  <1> SUFFICES ASSUME NEW p \in Posts, NEW f \in Platforms
               PROVE  sent[p][f] + Cardinality(Senders(p, f)') + One(Found(p, f)')
                        <= 1 + causes'[p]
    BY DEF SendsArePaid
  <1>1. Senders(p, f)' = Senders(p, f)
    BY DEF Senders, MaySend
  <1>2. sent[p][f] + Cardinality(Senders(p, f)) + One(Found(p, f)) <= 1 + causes[p]
    BY DEF SendsArePaid
  <1>3. sent[p][f] \in Nat /\ causes[p] \in Nat /\ causes'[p] \in Nat
        /\ One(Found(p, f)) \in Nat /\ One(Found(p, f)') \in Nat
    BY DEF SocialTypes, One
  <1>4. Cardinality(Senders(p, f)) \in Nat
    BY RunsFinite, FS_Subset, FS_CardinalityType DEF Senders
  <1>5. QED
    BY <1>1, <1>2, <1>3, <1>4

\* A post that nobody touches stays sound.
LEMMA PostKept ==
    ASSUME SocialTypes, NEW p \in Posts, PostSound(p),
           causes'[p] = 0 => causes[p] = 0,
           rows'[p].platforms = rows[p].platforms, rows'[p].ids = rows[p].ids,
           p \notin byHand' => p \notin byHand /\ rows'[p].status = rows[p].status,
           sent'[p] = sent[p], answered'[p] = answered[p], p \in lapsed' <=> p \in lapsed,
           \A q \in Runs :
               /\ p \in HeldIn(run'[q]) <=> p \in HeldIn(run[q])
               /\ p \in HeldIn(run'[q]) => run'[q].ids[p] = run[q].ids[p]
               /\ InHand(run'[q], p) <=> InHand(run[q], p)
               /\ InHand(run'[q], p) => run'[q] = run[q]
    PROVE  PostSound(p)'
  <1> SUFFICES ASSUME causes'[p] = 0
               PROVE  /\ \A q \in Runs : p \in HeldIn(run'[q]) => HeldSound(q, p)'
                      /\ Unheld(p)' => FreeSound(p)'
    BY DEF PostSound
  <1>1. /\ OutWithId(p)' = OutWithId(p) /\ (IdsSound(p)' <=> IdsSound(p))
        /\ (WentWell(p)' <=> WentWell(p))
    BY DEF OutWithId, IdsSound, WentWell
  <1>2. ASSUME NEW q \in Runs, p \in HeldIn(run'[q])
        PROVE  HeldSound(q, p)'
    <2>1. HeldSound(q, p)
      BY <1>2 DEF PostSound
    <2>2. InHand(run'[q], p) => Progress(run[q], p)'
      BY <1>1, <2>1 DEF HeldSound, Progress
    <2>3. \A u \in Runs : p \in HeldIn(run'[u]) => u = q
      BY <2>1 DEF HeldSound
    <2>4. p \notin byHand' => rows'[p].status = "scheduled"
      BY <2>1 DEF HeldSound
    <2>5. ~(InHand(run'[q], p) /\ run'[q].unsaved) => run'[q].ids[p] = rows'[p].ids
      BY <1>2, <2>1 DEF HeldSound
    <2>6. ~InHand(run'[q], p) => IdsSound(p)'
      BY <1>1, <2>1 DEF HeldSound
    <2>7. QED
      BY <2>2, <2>3, <2>4, <2>5, <2>6 DEF HeldSound
  <1>3. Unheld(p)' => FreeSound(p)'
    BY <1>1 DEF PostSound, Unheld, FreeSound
  <1>4. QED
    BY <1>2, <1>3

-------------------------------------------------------------------------------
\* A run starts: what it fetches it may send, and that was to be found or is paid for.
LEMMA StartRunKeeps ==
    ASSUME Social!ListsAreSelections, Social!RunsAreFinite,
           SocialTypes, SocialInv, NEW r \in Runs, Social!StartRun(r)
    PROVE  SocialTypes' /\ SocialInv'
  <1> DEFINE x == [Social!NoRun EXCEPT !.at = IF Social!DuePosts = {} THEN "idle" ELSE "next",
                                !.queue = Social!DuePosts,
                                !.ids = [p \in Social!DuePosts |-> rows[p].ids]]
  <1>1. run' = [run EXCEPT ![r] = x]
    BY DEF Social!StartRun
  <1>2. /\ x.at = IF Social!DuePosts = {} THEN "idle" ELSE "next"
        /\ x.queue = Social!DuePosts /\ x.post = 0 /\ x.todo = <<>> /\ x.ok = TRUE
        /\ x.ids = [p \in Social!DuePosts |-> rows[p].ids]
    BY DEF Social!NoRun
  <1>3. Social!DuePosts \in SUBSET Posts
    BY DEF Social!DuePosts
  <1> HIDE DEF x
  <1>4. HeldIn(x) = Social!DuePosts /\ \A p : ~InHand(x, p)
    BY <1>2 DEF HeldIn, InHand
  <1>5. x.ids \in [Social!DuePosts -> SUBSET Ids]
    BY <1>2, <1>3, RowFacts
  <1>6. x \in RunStates
    BY <1>2, <1>3, <1>5, NothingLeft DEF x, Social!NoRun, RunStates, Social!Places
  <1>7. SoundRun(x)
    BY <1>2, <1>4, <1>5, <1>6, NothingLeft DEF SoundRun
  <1>8. /\ run' \in [Runs -> RunStates] /\ \A q \in Runs : SoundRun(run'[q])
        /\ run'[r] = x /\ \A q \in Runs \ {r} : run'[q] = run[q]
    BY <1>1, <1>7, RunMoves
  <1>9. /\ UNCHANGED <<mode, rows, editor, mishaps, sent, answered, lapsed, byHand>>
        /\ causes' \in [Posts -> Nat]
        /\ \A p \in Posts : causes'[p] =
              IF p \in Social!DuePosts /\ \E q \in Runs : p \in HeldIn(run[q])
              THEN causes[p] + 1 ELSE causes[p]
    BY DEF Social!StartRun, Social!config, SocialTypes, Social!Held, HeldIn
  <1>10. SocialTypes'
    BY <1>8, <1>9 DEF SocialTypes
  <1>11. run[r].at = "idle" /\ run[r].queue = {} /\ HeldIn(run[r]) = {}
         /\ \A p : ~InHand(run[r], p)
    BY DEF Social!StartRun, SocialTypes, SoundRun, HeldIn, InHand
  <1>12. SendsArePaid'
    <2> SUFFICES ASSUME NEW p \in Posts, NEW f \in Platforms
                 PROVE  sent'[p][f] + One(MaySend(run'[r], p, f)) + One(Found(p, f)')
                            + causes[p]
                          <= sent[p][f] + One(MaySend(run[r], p, f)) + One(Found(p, f))
                             + causes'[p]
      BY <1>8, <1>9, <1>10, PaidMove DEF SocialInv
    <2>1. sent'[p][f] = sent[p][f] /\ sent[p][f] \in Nat /\ causes[p] \in Nat
      BY <1>9 DEF SocialTypes
    <2>2. /\ ~MaySend(run[r], p, f)
          /\ MaySend(run'[r], p, f) <=>
                p \in Social!DuePosts /\ f \in Social!Range(rows[p].platforms)
      BY <1>2, <1>4, <1>8, <1>11 DEF MaySend
    <2>3. CASE p \in Social!DuePosts
      <3>1. ~Found(p, f)'
        BY <1>4, <1>8, <2>3 DEF Found, Marked
      <3>2. rows[p].status = "scheduled"
        BY <2>3 DEF Social!DuePosts, Social!IsDue
      <3>3. MaySend(run'[r], p, f) => Found(p, f) \/ causes'[p] = causes[p] + 1
        BY <1>9, <2>2, <2>3, <3>2 DEF Found
      <3>4. causes'[p] = causes[p] \/ causes'[p] = causes[p] + 1
        BY <1>9
      <3>5. QED
        BY <2>1, <2>2, <2>3, <3>1, <3>3, <3>4 DEF One
    <2>4. CASE p \notin Social!DuePosts
      <3>1. Found(p, f)' <=> Found(p, f)
        BY <1>4, <1>8, <1>9, <1>11, <2>4 DEF Found, Marked
      <3>2. QED
        BY <1>9, <2>1, <2>2, <2>4, <3>1 DEF One
    <2>5. QED
      BY <2>3, <2>4
  <1>13. PostsAreSound'
    <2> SUFFICES ASSUME NEW p \in Posts
                 PROVE  PostSound(p)'
      BY DEF PostsAreSound
    <2>1. CASE p \notin Social!DuePosts
      <3>1. \A q \in Runs : /\ p \in HeldIn(run'[q]) <=> p \in HeldIn(run[q])
                            /\ p \in HeldIn(run'[q]) => run'[q] = run[q]
                            /\ InHand(run'[q], p) <=> InHand(run[q], p)
                            /\ InHand(run'[q], p) => run'[q] = run[q]
        BY <1>4, <1>8, <1>11, <2>1
      <3>2. PostSound(p) /\ causes'[p] = causes[p]
        BY <1>9, <2>1 DEF SocialInv, PostsAreSound
      <3>3. QED
        BY <1>9, <3>1, <3>2, PostKept
    <2>2. CASE p \in Social!DuePosts
      <3> SUFFICES ASSUME causes'[p] = 0
                   PROVE  /\ \A q \in Runs : p \in HeldIn(run'[q]) => HeldSound(q, p)'
                          /\ ~Unheld(p)'
        BY DEF PostSound
      <3>1. causes[p] \in Nat
        BY DEF SocialTypes
      <3>2. \A q \in Runs : p \notin HeldIn(run[q])
        BY <1>9, <2>2, <3>1
      <3>3. ~Unheld(p)'
        BY <1>4, <1>8, <2>2 DEF Unheld
      <3>4. \A q \in Runs : p \in HeldIn(run'[q]) => q = r
        BY <1>8, <3>2
      <3>5. run'[r].ids[p] = rows'[p].ids
        BY <1>2, <1>8, <1>9, <2>2
      <3>6. rows'[p].status = "scheduled"
        BY <1>9, <2>2 DEF Social!DuePosts, Social!IsDue
      <3>7. ~InHand(run'[r], p)
        BY <1>4, <1>8
      <3>10. IdsSound(p)'
        <4>1. Unheld(p) /\ PostSound(p) /\ causes[p] = 0
          BY <1>9, <2>2, <3>1, <3>2 DEF Unheld, SocialInv, PostsAreSound
        <4>2. IdsSound(p)
          BY <4>1 DEF PostSound, FreeSound
        <4>3. QED
          BY <1>9, <4>2 DEF IdsSound, OutWithId
      <3>8. HeldSound(r, p)'
        BY <3>4, <3>5, <3>6, <3>7, <3>10 DEF HeldSound
      <3>9. QED
        BY <3>3, <3>4, <3>8
    <2>3. QED
      BY <2>1, <2>2
  <1>14. QED
    BY <1>10, <1>12, <1>13 DEF SocialInv

\* A run takes its next post: the same posts are held, and nothing has answered yet.
LEMMA NextPostKeeps ==
    ASSUME Social!PostsAreIds, Social!PlatformsAreNamed, Social!ListsAreSelections,
       Social!RunsAreFinite,
           SocialTypes, SocialInv, NEW r \in Runs, NEW can \in BOOLEAN, Social!NextPost(r,
           can)
    PROVE  SocialTypes' /\ SocialInv'
  <1>1. SoundRun(run[r]) /\ run[r] \in RunStates /\ run[r].at = "next"
    BY DEF SocialTypes, Social!NextPost
  <1>2. run[r].queue \subseteq Posts /\ run[r].queue # {}
    BY <1>1, RunFacts DEF SoundRun
  <1>3. PICK p \in Posts : p \in run[r].queue /\ p = Social!Min(run[r].queue)
    BY <1>2, SmallestPost
  <1> DEFINE o == run[r]
             zernio == mode # "fallback" /\ can
             x == [o EXCEPT !.queue = o.queue \ {p}, !.post = p, !.todo = rows[p].platforms,
                            !.ok = zernio \/ mode # "zernio",
                            !.status = "scheduled", !.was = "scheduled", !.unsaved = FALSE,
                            !.at = IF zernio THEN "zernio"
                                   ELSE IF mode = "zernio" THEN "close" ELSE "platforms"]
  <1>4. /\ mode' = mode /\ UNCHANGED <<rows, editor, mishaps, sent, causes, byHand>>
        /\ answered' = [answered EXCEPT ![p] = {}] /\ lapsed' = lapsed \ {p}
    BY <1>3 DEF Social!NextPost, Social!config
  <1>5. run' = [run EXCEPT ![r] = x]
    BY <1>3 DEF Social!NextPost
  <1> HIDE DEF o
  <1>0. run[r] = o /\ SoundRun(o) /\ o \in RunStates /\ o.at = "next" /\ p \in o.queue
    BY <1>1, <1>3 DEF o
  <1>6. /\ x.queue = o.queue \ {p} /\ x.post = p /\ x.todo = rows[p].platforms
        /\ x.at \in {"zernio", "close", "platforms"}
        /\ x.at = "close" => ~x.ok
        /\ x.at = "platforms" => x.ok
        /\ x.ids = o.ids /\ x.status = "scheduled" /\ x.was = "scheduled" /\ ~x.unsaved
    <2> DEFINE ok == zernio \/ mode # "zernio"
               at == IF zernio THEN "zernio" ELSE IF mode = "zernio" THEN "close" ELSE "platforms"
    <2>1. at \in {"zernio", "close", "platforms"} /\ ok \in BOOLEAN
          /\ (at = "close" => ~ok) /\ (at = "platforms" => ok)
      OBVIOUS
    <2>2. x = [o EXCEPT !.queue = o.queue \ {p}, !.post = p, !.todo = rows[p].platforms,
                        !.ok = ok, !.status = "scheduled", !.was = "scheduled",
                        !.unsaved = FALSE, !.at = at]
      OBVIOUS
    <2> HIDE DEF x, ok, at
    <2>3. QED
      BY <1>0, <2>1, <2>2, RunFacts
  <1>7. x \in RunStates
    <2>1. x.ok \in BOOLEAN
      BY <1>0, RunFacts
    <2>2. rows[p].platforms \in Seq(Platforms)
      BY <1>3, RowFacts
    <2> DEFINE queue == o.queue \ {p}
               todo == rows[p].platforms
               ok == zernio \/ mode # "zernio"
    <2>3. queue \in SUBSET Posts /\ x.at \in Social!Places
      BY <1>0, <1>6, RunFacts DEF Social!Places
    <2>4. ok \in BOOLEAN /\ x = [o EXCEPT !.queue = queue, !.post = p, !.todo = todo, !.ok = ok,
                                          !.status = "scheduled", !.was = "scheduled",
                                          !.unsaved = FALSE, !.at = x.at]
      BY <1>0, RunFacts
    <2> HIDE DEF x, queue, todo, ok
    <2>5. QED
      BY <1>0, <1>3, <2>2, <2>3, <2>4 DEF todo, RunStates
  <1> HIDE DEF x, zernio
  <1>8. HeldIn(x) = HeldIn(o) /\ HeldIn(o) = o.queue
        /\ (\A v : InHand(x, v) <=> v = p) /\ (\A v : ~InHand(o, v))
    BY <1>0, <1>3, <1>6 DEF HeldIn, InHand
  <1>9. SoundRun(x)
    BY <1>0, <1>3, <1>6, <1>7, <1>8, RowFacts DEF SoundRun
  <1>10. /\ run' \in [Runs -> RunStates] /\ \A q \in Runs : SoundRun(run'[q])
         /\ run'[r] = x /\ \A q \in Runs \ {r} : run'[q] = run[q]
    BY <1>5, <1>9, RunMoves
  <1>11. answered' \in [Posts -> SUBSET Platforms] /\ answered'[p] = {}
         /\ \A v \in Posts \ {p} : answered'[v] = answered[v]
    BY <1>3, <1>4 DEF SocialTypes
  <1>12. SocialTypes'
    BY <1>4, <1>10, <1>11 DEF SocialTypes
  <1>13. \A q \in Runs : HeldIn(run'[q]) = HeldIn(run[q]) /\ run'[q].ids = run[q].ids
    BY <1>0, <1>6, <1>8, <1>10
  <1>14. ASSUME NEW v \in Posts, NEW f \in Platforms
         PROVE  Found(v, f)' => Found(v, f)
    <2>1. \A q \in Runs : v \in HeldIn(run'[q]) <=> v \in HeldIn(run[q])
      BY <1>13
    <2>2. ASSUME NEW q \in Runs, Marked(run'[q], v)
          PROVE  Marked(run[q], v)
      <3>1. q # r
        BY <1>6, <1>10, <2>2 DEF Marked
      <3>2. QED
        BY <1>10, <2>2, <3>1
    <2>3. QED
      BY <1>4, <2>1, <2>2 DEF Found
  <1>15. SendsArePaid'
    <2> SUFFICES ASSUME NEW v \in Posts, NEW f \in Platforms
                 PROVE  sent'[v][f] + One(MaySend(run'[r], v, f)) + One(Found(v, f)')
                            + causes[v]
                          <= sent[v][f] + One(MaySend(run[r], v, f)) + One(Found(v, f))
                             + causes'[v]
      BY <1>4, <1>10, <1>12, PaidMove DEF SocialInv
    <2>1. sent'[v][f] = sent[v][f] /\ sent[v][f] \in Nat
          /\ causes'[v] = causes[v] /\ causes[v] \in Nat
      BY <1>4 DEF SocialTypes
    <2>2. MaySend(run'[r], v, f) => MaySend(run[r], v, f)
      <3>1. run[r] = o /\ run'[r] = x
        BY <1>0, <1>10
      <3>2. CASE v \in x.queue
        BY <1>6, <1>8, <3>1, <3>2 DEF MaySend
      <3>3. CASE v = p
        BY <1>0, <1>6, <1>8, <3>1, <3>3 DEF MaySend
      <3>4. CASE v \notin x.queue /\ v # p
        BY <1>8, <3>1, <3>4 DEF MaySend
      <3>5. QED
        BY <3>2, <3>3, <3>4
    <2>3. QED
      BY <1>14, <2>1, <2>2 DEF One
  <1>16. PostsAreSound'
    <2> SUFFICES ASSUME NEW v \in Posts
                 PROVE  PostSound(v)'
      BY DEF PostsAreSound
    <2>1. PostSound(v) /\ causes'[v] = causes[v]
      BY <1>4 DEF SocialInv, PostsAreSound
    <2>2. CASE v # p
      <3>1. \A q \in Runs : /\ InHand(run'[q], v) <=> InHand(run[q], v)
                            /\ InHand(run'[q], v) => run'[q] = run[q]
        BY <1>0, <1>8, <1>10, <2>2
      <3>2. QED
        BY <1>4, <1>11, <1>13, <2>1, <2>2, <3>1, PostKept
    <2>3. CASE v = p
      <3> SUFFICES ASSUME causes[p] = 0
                   PROVE  HeldSound(r, p)' /\ \A q \in Runs : p \in HeldIn(run'[q]) => q = r
        <4>1. ~Unheld(p)'
          BY <1>0, <1>3, <1>8, <1>10 DEF Unheld
        <4>2. QED
          BY <1>4, <2>3, <4>1 DEF PostSound
      <3>1. p \in HeldIn(run[r]) /\ HeldSound(r, p)
        BY <1>0, <1>3, <1>8, <2>1, <2>3 DEF PostSound
      <3>2. \A q \in Runs : p \in HeldIn(run'[q]) => q = r
        BY <1>13, <3>1 DEF HeldSound
      <3>3. OutWithId(p)' = {}
        BY <1>11 DEF OutWithId
      <3>6. p \notin lapsed'
        BY <1>4
      <3>7. InHand(run'[r], p) /\ run[r].ids[p] = rows[p].ids /\ run'[r] = x
        BY <1>0, <1>8, <1>10, <3>1 DEF HeldSound
      <3>4. Progress(run[r], p)'
        BY <1>4, <1>6, <1>10, <1>11, <3>3, <3>6, PlaceFacts DEF Progress, Social!Places
      <3>5. QED
        BY <1>4, <1>13, <3>1, <3>2, <3>4, <3>7 DEF HeldSound
    <2>4. QED
      BY <2>2, <2>3
  <1>17. QED
    BY <1>12, <1>15, <1>16 DEF SocialInv

\* A step of the run that has p in hand, which the other posts do not notice.
LEMMA InHandStep ==
    ASSUME Social!RunsAreFinite,
           SocialTypes, SocialTypes', SocialInv, NEW r \in Runs, NEW p \in Posts,
           \A q \in Runs \ {r} : run'[q] = run[q],
           InHand(run[r], p), run'[r].queue = run[r].queue,
           \A v \in Posts \ {p} : ~InHand(run'[r], v),
           \A v \in run[r].queue : run'[r].ids[v] = run[r].ids[v],
           byHand' = byHand, rows'[p].platforms = rows[p].platforms,
           \A v \in Posts \ {p} : /\ rows'[v] = rows[v] /\ sent'[v] = sent[v]
                                  /\ answered'[v] = answered[v] /\ causes'[v] = causes[v]
                                  /\ v \in lapsed' <=> v \in lapsed,
           \A f \in Platforms :
               sent'[p][f] + One(MaySend(run'[r], p, f)) + One(Found(p, f)') + causes[p]
                 <= sent[p][f] + One(MaySend(run[r], p, f)) + One(Found(p, f)) + causes'[p],
           PostSound(p)'
    PROVE  SocialInv'
  <1>1. /\ run[r].at \notin {"idle", "next"} /\ run[r].post = p /\ p \notin run[r].queue
        /\ HeldIn(run[r]) = run[r].queue \cup {p} /\ \A v : InHand(run[r], v) => v = p
    BY DEF SocialTypes, SoundRun, HeldIn, InHand
  <1>2. \A v \in Posts \ {p} : v \in HeldIn(run'[r]) <=> v \in run[r].queue
    BY DEF HeldIn, InHand
  <1>3. \A v \in Posts \ {p}, q \in Runs : v \in HeldIn(run'[q]) <=> v \in HeldIn(run[q])
    BY <1>1, <1>2
  <1>4. SendsArePaid'
    <2> SUFFICES ASSUME NEW v \in Posts, NEW f \in Platforms
                 PROVE  sent'[v][f] + One(MaySend(run'[r], v, f)) + One(Found(v, f)')
                            + causes[v]
                          <= sent[v][f] + One(MaySend(run[r], v, f)) + One(Found(v, f))
                             + causes'[v]
      BY PaidMove DEF SocialInv
    <2>1. CASE v = p
      BY <2>1
    <2>2. CASE v # p
      <3>1. MaySend(run'[r], v, f) <=> MaySend(run[r], v, f)
        BY <1>1, <2>2 DEF MaySend
      <3>2. Found(v, f)' <=> Found(v, f)
        <4>1. \A q \in Runs : v \in HeldIn(run[q]) => (Marked(run'[q], v) <=> Marked(run[q], v))
          BY <1>1, <2>2 DEF Marked
        <4>2. QED
          BY <1>3, <2>2, <4>1 DEF Found
      <3>3. sent[v][f] \in Nat /\ causes[v] \in Nat
        BY DEF SocialTypes
      <3>4. QED
        BY <2>2, <3>1, <3>2, <3>3 DEF One
    <2>3. QED
      BY <2>1, <2>2
  <1>5. \A v \in Posts \ {p} : PostSound(v)'
    <2> SUFFICES ASSUME NEW v \in Posts \ {p}
                 PROVE  PostSound(v)'
      OBVIOUS
    <2>1. PostSound(v)
      BY DEF SocialInv, PostsAreSound
    <2>2. \A q \in Runs : v \in HeldIn(run'[q]) => run'[q].ids[v] = run[q].ids[v]
      BY <1>2
    <2>3. \A q \in Runs : /\ InHand(run'[q], v) <=> InHand(run[q], v)
                          /\ InHand(run'[q], v) => run'[q] = run[q]
      BY <1>1
    <2>4. QED
      BY <1>3, <2>1, <2>2, <2>3, PostKept
  <1>6. QED
    BY <1>4, <1>5 DEF SocialInv, PostsAreSound

\* What is known of the run that has a post in hand.
LEMMA InHandFacts ==
    ASSUME SocialTypes, SocialInv, NEW r \in Runs, run[r].at \notin {"idle", "next"}
    PROVE  /\ run[r].post \in Posts /\ run[r].post \notin run[r].queue
           /\ InHand(run[r], run[r].post)
           /\ HeldIn(run[r]) = run[r].queue \cup {run[r].post}
           /\ run[r].queue \subseteq Posts /\ run[r].todo \in Seq(Platforms)
           /\ Social!IsInjective(run[r].todo)
           /\ run[r] \in RunStates /\ run[r].ids \in [HeldIn(run[r]) -> SUBSET Ids]
           /\ causes[run[r].post] \in Nat
           /\ causes[run[r].post] = 0 => HeldSound(r, run[r].post) /\ Progress(run[r], run[r].post)
  <1>1. SoundRun(run[r]) /\ run[r] \in RunStates
    BY DEF SocialTypes
  <1>2. /\ run[r].post \in Posts /\ run[r].post \notin run[r].queue
        /\ InHand(run[r], run[r].post) /\ HeldIn(run[r]) = run[r].queue \cup {run[r].post}
    BY <1>1 DEF SoundRun, InHand, HeldIn
  <1>3. PostSound(run[r].post) /\ causes[run[r].post] \in Nat
    BY <1>2 DEF SocialInv, PostsAreSound, SocialTypes
  <1>4. causes[run[r].post] = 0 => HeldSound(r, run[r].post)
    BY <1>2, <1>3 DEF PostSound
  <1>5. QED
    BY <1>1, <1>2, <1>3, <1>4, RunFacts DEF SoundRun, HeldSound

\* The platforms of a list.
LEMMA RangeOfList ==
    ASSUME NEW s \in Seq(Platforms)
    PROVE  Social!Range(s) \subseteq Platforms /\ (s = <<>> <=> Social!Range(s) = {})
  <1>1. /\ Len(s) \in Nat /\ DOMAIN s = 1..Len(s) /\ \A i \in 1..Len(s) : s[i] \in Platforms
        /\ s # <<>> => Len(s) # 0
    OBVIOUS
  <1>2. Social!Range(s) \subseteq Platforms
    BY <1>1 DEF Social!Range
  <1>3. s # <<>> => s[1] \in Social!Range(s)
    BY <1>1 DEF Social!Range
  <1>4. QED
    BY <1>2, <1>3, NothingLeft

\* A call to Zernio: every repetition of it, and every answer that is lost, is a cause.
LEMMA PublishByZernioKeeps ==
    ASSUME Social!PlatformsAreNamed, Social!RunsAreFinite, Social!BoundsAreNats,
           SocialTypes, SocialInv, NEW r \in Runs, NEW n \in 0..Retries,
           NEW outcome \in Social!Outcomes, Social!PublishByZernio(r, n, outcome)
    PROVE  SocialTypes' /\ SocialInv'
  <1>1. PICK p \in Posts : p = run[r].post
    BY InHandFacts DEF Social!PublishByZernio
  <1> DEFINE o == run[r]
             all == Social!Range(o.todo)
             at == IF ~Social!Raises(outcome) THEN "record zernio"
                   ELSE IF mode = "zernio" THEN "close" ELSE "platforms"
             ok == ~Social!Raises(outcome) \/ mode # "zernio"
             x == [o EXCEPT !.at = at, !.ok = ok]
             out == IF Social!Out(outcome) THEN 1 ELSE 0
             lost == IF outcome = "lost" THEN 1 ELSE 0
  <1>2. /\ o.at = "zernio" /\ o.post = p /\ outcome # "ignored"
        /\ UNCHANGED <<mode, rows, editor, mishaps, lapsed, byHand>>
        /\ sent' = Social!Sent(p, all, n + out)
        /\ causes' = [causes EXCEPT ![p] = @ + n + lost]
        /\ answered' = IF Social!Raises(outcome) THEN answered ELSE [answered EXCEPT ![p] = all]
    BY <1>1 DEF Social!PublishByZernio, Social!config
  <1>3. run' = [run EXCEPT ![r] = x]
    <2>1. run' = [run EXCEPT ![r].at = at, ![r].ok = ok]
      BY DEF Social!PublishByZernio
    <2>2. r \in DOMAIN run
      BY DEF SocialTypes
    <2> HIDE DEF at, ok
    <2>3. QED
      BY <2>1, <2>2
  <1>4. /\ o \in RunStates /\ InHand(o, p) /\ HeldIn(o) = o.queue \cup {p}
        /\ p \notin o.queue /\ Social!IsInjective(o.todo) /\ o.ids \in [HeldIn(o) -> SUBSET Ids]
        /\ o.todo \in Seq(Platforms) /\ SoundRun(o)
        /\ causes[p] \in Nat /\ (causes[p] = 0 => HeldSound(r, p) /\ Progress(o, p))
    BY <1>1, <1>2, InHandFacts DEF SocialTypes
  <1>5. /\ at \in {"record zernio", "close", "platforms"} /\ ok \in BOOLEAN
        /\ (at = "record zernio" <=> ~Social!Raises(outcome))
        /\ (at = "close" => ~ok) /\ (at = "platforms" => ok)
    BY DEF Social!Raises
  <1>6. /\ out \in {0, 1} /\ lost \in {0, 1} /\ n \in Nat
        /\ (~Social!Raises(outcome) => lost = 0 /\ out = 1)
        /\ (Social!Raises(outcome) => out = lost)
    BY <1>2 DEF Social!BoundsAreNats, Social!Raises, Social!Out, Social!Outcomes
  <1>7. run[r] = o
    OBVIOUS
  <1> HIDE DEF o, at, ok, out, lost
  <1>8. /\ x.at = at /\ x.ok = ok /\ x.queue = o.queue /\ x.post = p /\ x.todo = o.todo
        /\ x.ids = o.ids /\ x.status = o.status /\ x.was = o.was /\ x.unsaved = o.unsaved
        /\ x \in RunStates
    BY <1>2, <1>4, <1>5 DEF RunStates, Social!Places
  <1> HIDE DEF x
  <1>9. HeldIn(x) = HeldIn(o) /\ \A v : InHand(x, v) <=> v = p
    BY <1>4, <1>5, <1>8 DEF HeldIn, InHand
  <1>10. SoundRun(x)
    BY <1>4, <1>5, <1>8, <1>9 DEF SoundRun
  <1>11. /\ run' \in [Runs -> RunStates] /\ \A q \in Runs : SoundRun(run'[q])
         /\ run'[r] = x /\ \A q \in Runs \ {r} : run'[q] = run[q]
    BY <1>3, <1>10, RunMoves
  <1>12. all \subseteq Platforms
    BY <1>4, RangeOfList
  <1> HIDE DEF all
  <1>13. /\ sent' \in [Posts -> [Platforms -> Nat]]
         /\ \A v \in Posts \ {p} : sent'[v] = sent[v]
         /\ \A f \in Platforms : sent'[p][f] <= sent[p][f] + n + out
         /\ \A f \in Platforms \ all : sent'[p][f] = sent[p][f]
    BY <1>2, <1>6 DEF Social!Sent, SocialTypes
  <1>14. /\ causes' \in [Posts -> Nat] /\ causes'[p] = causes[p] + n + lost
         /\ \A v \in Posts \ {p} : causes'[v] = causes[v]
    BY <1>2, <1>6 DEF SocialTypes
  <1>15. /\ answered' \in [Posts -> SUBSET Platforms]
         /\ answered'[p] = IF Social!Raises(outcome) THEN answered[p] ELSE all
         /\ \A v \in Posts \ {p} : answered'[v] = answered[v]
    BY <1>2, <1>12 DEF SocialTypes
  <1>16. SocialTypes'
    BY <1>2, <1>11, <1>13, <1>14, <1>15 DEF SocialTypes
  <1>17. ASSUME NEW f \in Platforms
         PROVE  sent'[p][f] + One(MaySend(run'[r], p, f)) + One(Found(p, f)') + causes[p]
                  <= sent[p][f] + One(MaySend(run[r], p, f)) + One(Found(p, f)) + causes'[p]
    <2>1. MaySend(run[r], p, f) <=> f \in all
      BY <1>2, <1>4, <1>7 DEF MaySend, all
    <2>2. Found(p, f)' <=> Found(p, f)
      <3>1. \A q \in Runs : /\ p \in HeldIn(run'[q]) <=> p \in HeldIn(run[q])
                            /\ Marked(run'[q], p) <=> Marked(run[q], p)
        BY <1>4, <1>7, <1>8, <1>9, <1>11 DEF Marked
      <3>2. QED
        BY <1>2, <3>1 DEF Found
    <2>10. f \notin all => ~MaySend(run'[r], p, f)
      BY <1>4, <1>8, <1>11 DEF MaySend, all
    <2>3. ~Social!Raises(outcome) => ~MaySend(run'[r], p, f)
      BY <1>4, <1>5, <1>8, <1>11, PlaceFacts DEF MaySend, Social!Places
    <2>4. sent[p][f] \in Nat /\ sent'[p][f] \in Nat
      BY <1>13 DEF SocialTypes
    <2>5. sent'[p][f] <= sent[p][f] + n + out
      BY <1>13
    <2>6. /\ One(MaySend(run[r], p, f)) = IF f \in all THEN 1 ELSE 0
          /\ One(Found(p, f)') = One(Found(p, f)) /\ One(Found(p, f)) \in {0, 1}
          /\ One(MaySend(run'[r], p, f)) \in {0, 1}
          /\ f \notin all \/ ~Social!Raises(outcome) => One(MaySend(run'[r], p, f)) = 0
      BY <2>1, <2>2, <2>3, <2>10 DEF One
    <2>8. causes[p] \in Nat /\ causes'[p] = causes[p] + n + lost
      BY <1>4, <1>14
    <2>7. CASE f \in all
      <3>1. One(MaySend(run'[r], p, f)) + out <= 1 + lost
        BY <1>6, <2>6, <2>7
      <3>2. QED
        BY <1>6, <2>4, <2>5, <2>6, <2>7, <2>8, <3>1
    <2>11. CASE f \notin all
      <3>1. sent'[p][f] = sent[p][f]
        BY <1>13, <2>11
      <3>2. QED
        BY <1>6, <2>4, <2>6, <2>8, <2>11, <3>1
    <2>9. QED
      BY <2>7, <2>11
  <1>18. PostSound(p)'
    <2> SUFFICES ASSUME causes'[p] = 0
                 PROVE  HeldSound(r, p)' /\ \A q \in Runs : p \in HeldIn(run'[q]) => q = r
      <3>1. ~Unheld(p)'
        BY <1>4, <1>9, <1>11 DEF Unheld
      <3>2. QED
        BY <3>1 DEF PostSound
    <2>1. causes[p] = 0 /\ n = 0 /\ lost = 0
      BY <1>4, <1>6, <1>14
    <2>2. HeldSound(r, p) /\ Progress(o, p)
      BY <1>4, <2>1
    <2>3. /\ answered[p] = {} /\ o.todo = rows[p].platforms /\ o.status = o.was
          /\ p \notin lapsed'
      BY <1>2, <2>2 DEF Progress
    <2>4. \A q \in Runs : p \in HeldIn(run'[q]) => q = r
      BY <1>11, <2>2 DEF HeldSound
    <2>5. Social!Raises(outcome) => OutWithId(p)' = {}
      BY <1>15, <2>3 DEF OutWithId
    <2>6. all = Social!Range(rows[p].platforms)
      BY <2>3 DEF all
    <2>7. Progress(run[r], p)'
      <3>1. CASE Social!Raises(outcome)
        BY <1>2, <1>5, <1>8, <1>11, <1>15, <2>3, <2>5, <3>1, PlaceFacts DEF Progress,
           Social!Places
      <3>2. CASE ~Social!Raises(outcome)
        BY <1>2, <1>5, <1>8, <1>11, <1>15, <2>3, <2>6, <3>2, PlaceFacts DEF Progress, Social!Places
      <3>3. QED
        BY <3>1, <3>2
    <2>8. QED
      BY <1>2, <1>4, <1>7, <1>8, <1>9, <1>11, <2>2, <2>4, <2>7 DEF HeldSound
  <1>19. SocialInv'
    BY <1>2, <1>4, <1>7, <1>8, <1>9, <1>11, <1>13, <1>14, <1>15, <1>16, <1>17, <1>18,
       InHandStep
  <1>20. QED
    BY <1>16, <1>19

\* Without a cause, what a run may yet send has not gone out.
LEMMA NotSentYet ==
    ASSUME Social!RunsAreFinite,
           SocialTypes, SocialInv, NEW p \in Posts, NEW f \in Platforms, NEW r \in Runs,
           causes[p] = 0, MaySend(run[r], p, f)
    PROVE  sent[p][f] = 0
  <1> DEFINE S == Senders(p, f)
  <1>1. S \in SUBSET Runs /\ r \in S
    BY DEF Senders
  <1>2. sent[p][f] + Cardinality(S) + One(Found(p, f)) <= 1 /\ sent[p][f] \in Nat
    BY DEF SocialInv, SendsArePaid, SocialTypes
  <1> HIDE DEF S
  <1>3. Cardinality(S \ {r}) \in Nat /\ Cardinality(S) = Cardinality(S \ {r}) + One(r \in S)
    BY <1>1, CountOne
  <1>4. One(r \in S) = 1 /\ One(Found(p, f)) \in Nat
    BY <1>1 DEF One
  <1>5. QED
    BY <1>2, <1>3, <1>4

\* A call to a platform: it leaves the list, whatever becomes of it.
LEMMA PublishOnKeeps ==
    ASSUME Social!PlatformsAreNamed, Social!ListsAreSelections, Social!RunsAreFinite,
           SocialTypes, SocialInv, NEW r \in Runs, NEW outcome \in Social!Outcomes,
           Social!PublishOn(r, outcome)
    PROVE  SocialTypes' /\ SocialInv'
  <1>1. PICK p \in Posts : p = run[r].post
    BY InHandFacts DEF Social!PublishOn
  <1> DEFINE o == run[r]
             f == Head(o.todo)
             at == IF f \in WithId /\ outcome = "accepted" THEN f ELSE "platforms"
             ok == Social!Verdict(o.ok, outcome)
             x == [o EXCEPT !.todo = Tail(o.todo), !.ok = ok, !.at = at]
             out == IF Social!Out(outcome) THEN 1 ELSE 0
  <1>2. /\ o.at = "platforms" /\ o.post = p /\ o.todo # <<>>
        /\ UNCHANGED <<mode, rows, editor, mishaps, lapsed, causes, byHand>>
        /\ sent' = Social!Sent(p, {f}, out)
        /\ answered' = IF Social!Raises(outcome) THEN answered
                       ELSE [answered EXCEPT ![p] = @ \cup {f}]
    BY <1>1 DEF Social!PublishOn, Social!config
  <1>3. run' = [run EXCEPT ![r] = x]
    <2>1. run' = [run EXCEPT ![r].todo = Tail(run[r].todo), ![r].ok = Social!Verdict(run[r].ok, outcome),
                             ![r].at = IF f \in WithId /\ outcome = "accepted"
                                       THEN f ELSE run[r].at]
      BY DEF Social!PublishOn
    <2>2. r \in DOMAIN run
      BY DEF SocialTypes
    <2>3. run[r].at = "platforms" /\ run[r] \in RunStates
      BY <1>2 DEF SocialTypes
    <2> DEFINE y == [o EXCEPT !.todo = Tail(run[r].todo), !.ok = Social!Verdict(run[r].ok, outcome),
                              !.at = IF f \in WithId /\ outcome = "accepted"
                                     THEN f ELSE run[r].at]
    <2>4. x = y
      BY <2>3
    <2> HIDE DEF x, f
    <2>5. run' = [run EXCEPT ![r] = y]
      BY <2>1, <2>2
    <2>6. QED
      BY <2>4, <2>5
  <1>4. /\ o \in RunStates /\ InHand(o, p) /\ HeldIn(o) = o.queue \cup {p}
        /\ p \notin o.queue /\ Social!IsInjective(o.todo) /\ o.ids \in [HeldIn(o) -> SUBSET Ids]
        /\ o.todo \in Seq(Platforms) /\ SoundRun(o) /\ o.ok \in BOOLEAN
        /\ causes[p] \in Nat /\ (causes[p] = 0 => HeldSound(r, p) /\ Progress(o, p))
    <2>1. run[r].at \notin {"idle", "next"} /\ SoundRun(run[r]) /\ run[r].ok \in BOOLEAN
      BY <1>2, RunFacts DEF SocialTypes
    <2>2. QED
      BY <1>1, <2>1, InHandFacts
  <1>5. run[r] = o
    OBVIOUS
  <1> HIDE DEF o
  <1>6. /\ f \in Platforms /\ Tail(o.todo) \in Seq(Platforms)
        /\ Social!Range(o.todo) = {f} \cup Social!Range(Tail(o.todo))
        /\ f \notin Social!Range(Tail(o.todo)) /\ Social!IsInjective(Tail(o.todo))
    BY <1>2, <1>4, ListSplit
  <1>7. /\ at \in WithId \cup {"platforms"} /\ ok \in BOOLEAN
        /\ (ok <=> o.ok /\ ~Social!Raises(outcome))
        /\ (f \in WithId /\ outcome = "accepted" => at = f)
        /\ out \in {0, 1} /\ (outcome = "ignored" => out = 0)
        /\ (~Social!Raises(outcome) => outcome \in {"accepted", "ignored"})
    BY <1>4 DEF Social!Verdict, Social!Raises, Social!Out, Social!Outcomes
  <1> HIDE DEF f, at, ok, out
  <1>8. /\ x.at = at /\ x.ok = ok /\ x.queue = o.queue /\ x.post = p /\ x.todo = Tail(o.todo)
        /\ x.ids = o.ids /\ x.status = o.status /\ x.was = o.was /\ x.unsaved = o.unsaved
        /\ x \in RunStates
    BY <1>2, <1>4, <1>6, <1>7 DEF RunStates, Social!Places
  <1> HIDE DEF x
  <1>9. HeldIn(x) = HeldIn(o) /\ (\A v : InHand(x, v) <=> v = p)
        /\ at \notin {"idle", "next", "zernio", "record zernio", "close"}
    BY <1>4, <1>7, <1>8, PlaceFacts DEF HeldIn, InHand, Social!Places
  <1>10. SoundRun(x)
    BY <1>4, <1>6, <1>8, <1>9 DEF SoundRun
  <1>11. /\ run' \in [Runs -> RunStates] /\ \A q \in Runs : SoundRun(run'[q])
         /\ run'[r] = x /\ \A q \in Runs \ {r} : run'[q] = run[q]
    BY <1>3, <1>10, RunMoves
  <1>12. /\ sent' \in [Posts -> [Platforms -> Nat]]
         /\ \A v \in Posts \ {p} : sent'[v] = sent[v]
         /\ sent'[p][f] = sent[p][f] + out
         /\ \A g \in Platforms \ {f} : sent'[p][g] = sent[p][g]
    BY <1>2, <1>6, <1>7 DEF Social!Sent, SocialTypes
  <1>13. /\ answered' \in [Posts -> SUBSET Platforms]
         /\ answered'[p] = IF Social!Raises(outcome) THEN answered[p] ELSE answered[p] \cup {f}
         /\ \A v \in Posts \ {p} : answered'[v] = answered[v]
    BY <1>2, <1>6 DEF SocialTypes
  <1>14. SocialTypes'
    BY <1>2, <1>11, <1>12, <1>13 DEF SocialTypes
  <1>15. ASSUME NEW g \in Platforms
         PROVE  sent'[p][g] + One(MaySend(run'[r], p, g)) + One(Found(p, g)') + causes[p]
                  <= sent[p][g] + One(MaySend(run[r], p, g)) + One(Found(p, g)) + causes'[p]
    <2>1. Found(p, g)' <=> Found(p, g)
      <3>1. \A q \in Runs : /\ p \in HeldIn(run'[q]) <=> p \in HeldIn(run[q])
                            /\ Marked(run'[q], p) <=> Marked(run[q], p)
        BY <1>4, <1>5, <1>8, <1>9, <1>11 DEF Marked
      <3>2. QED
        BY <1>2, <3>1 DEF Found
    <2>2. sent[p][g] \in Nat /\ sent'[p][g] \in Nat /\ causes'[p] = causes[p]
      <3>1. causes' = causes
        BY <1>2
      <3>2. sent[p] \in [Platforms -> Nat] /\ sent'[p] \in [Platforms -> Nat]
        BY <1>12, RowFacts
      <3>3. QED
        BY <3>1, <3>2
    <2>3. CASE g = f
      <3>1. MaySend(run[r], p, f) /\ ~MaySend(run'[r], p, f)
        BY <1>2, <1>4, <1>5, <1>6, <1>8, <1>9, <1>11 DEF MaySend
      <3>2. QED
        BY <1>4, <1>7, <1>12, <2>1, <2>2, <2>3, <3>1 DEF One
    <2>4. CASE g # f
      <3>1. MaySend(run'[r], p, g) => MaySend(run[r], p, g)
        BY <1>2, <1>4, <1>5, <1>6, <1>8, <1>9, <1>11, <2>4 DEF MaySend
      <3>2. sent'[p][g] = sent[p][g]
        BY <1>12, <2>4
      <3>3. QED
        BY <1>4, <2>1, <2>2, <3>1, <3>2 DEF One
    <2>5. QED
      BY <2>3, <2>4
  <1>16. PostSound(p)'
    <2> SUFFICES ASSUME causes'[p] = 0
                 PROVE  HeldSound(r, p)' /\ \A q \in Runs : p \in HeldIn(run'[q]) => q = r
      <3>1. ~Unheld(p)'
        BY <1>4, <1>9, <1>11 DEF Unheld
      <3>2. QED
        BY <3>1 DEF PostSound
    <2>1. causes[p] = 0 /\ HeldSound(r, p) /\ Progress(o, p)
      BY <1>2, <1>4
    <2>2. \A q \in Runs : p \in HeldIn(run'[q]) => q = r
      BY <1>11, <2>1 DEF HeldSound
    <2> DEFINE all == Social!Range(rows[p].platforms)
               left == Social!Range(o.todo)
               rest == Social!Range(Tail(o.todo))
    <2>3. /\ answered[p] \cup left \subseteq all /\ answered[p] \cap left = {}
          /\ o.ok <=> all \subseteq answered[p] \cup left /\ p \notin lapsed
          /\ OutWithId(p) \subseteq o.ids[p] \cup {"platforms"}
          /\ o.status = o.was
      BY <1>2, <2>1 DEF Progress
    <2>4. left = {f} \cup rest /\ f \notin rest
      BY <1>6
    <2>5. sent[p][f] = 0
      <3>1. MaySend(run[r], p, f)
        BY <1>2, <1>4, <1>5, <1>6 DEF MaySend
      <3>2. QED
        BY <1>6, <2>1, <3>1, NotSentYet
    <2>6. OutWithId(p)' \subseteq o.ids[p] \cup {at}
      <3> SUFFICES ASSUME NEW g \in WithId, g \in answered'[p], sent'[p][g] > 0
                   PROVE  g \in o.ids[p] \cup {at}
        BY DEF OutWithId
      <3>1. g \in Platforms /\ g # "platforms"
        BY PlaceFacts DEF Social!Places
      <3>2. CASE g = f
        <4>1. ~Social!Raises(outcome)
          BY <1>13, <2>3, <2>4, <3>2
        <4>2. outcome # "ignored"
          BY <1>7, <1>12, <2>5, <3>2
        <4>3. QED
          BY <1>7, <3>2, <4>1, <4>2
      <3>3. CASE g # f
        <4>1. g \in answered[p] /\ sent[p][g] > 0
          BY <1>12, <1>13, <3>1, <3>3
        <4>2. QED
          BY <2>3, <3>1, <4>1 DEF OutWithId
      <3>4. QED
        BY <3>2, <3>3
    <2> HIDE DEF left, rest, all
    <2>7. /\ answered'[p] \cup rest \subseteq all /\ answered'[p] \cap rest = {}
          /\ ok <=> all \subseteq answered'[p] \cup rest /\ p \notin lapsed
      <3>1. CASE Social!Raises(outcome)
        BY <1>7, <1>13, <2>3, <2>4, <3>1
      <3>2. CASE ~Social!Raises(outcome)
        BY <1>7, <1>13, <2>3, <2>4, <3>2
      <3>3. QED
        BY <3>1, <3>2
    <2>8. Progress(run[r], p)'
      BY <1>2, <1>8, <1>9, <1>11, <2>3, <2>6, <2>7 DEF Progress, all, rest
    <2>9. QED
      BY <1>2, <1>4, <1>5, <1>8, <1>9, <1>11, <2>1, <2>2, <2>8 DEF HeldSound
  <1>17. SocialInv'
    BY <1>2, <1>4, <1>5, <1>8, <1>9, <1>11, <1>12, <1>13, <1>14, <1>15, <1>16, InHandStep
  <1>18. QED
    BY <1>14, <1>17

\* A run keeps a post in hand, with a copy that has one more id.
LEMMA CopyMoves ==
    ASSUME SocialTypes, SocialInv, NEW r \in Runs, run[r].at \notin {"idle", "next"},
           NEW x \in RunStates, x.at \in {"platforms", "close"}, x.queue = run[r].queue,
           x.post = run[r].post, x.todo = run[r].todo,
           x.ids \in [HeldIn(run[r]) -> SUBSET Ids],
           run' = [run EXCEPT ![r] = x]
    PROVE  /\ HeldIn(x) = HeldIn(run[r]) /\ \A v : InHand(x, v) <=> v = run[r].post
           /\ run' \in [Runs -> RunStates] /\ \A q \in Runs : SoundRun(run'[q])
           /\ run'[r] = x /\ \A q \in Runs \ {r} : run'[q] = run[q]
  <1>1. /\ run[r].post \in Posts /\ run[r].post \notin run[r].queue
        /\ HeldIn(run[r]) = run[r].queue \cup {run[r].post}
        /\ Social!IsInjective(run[r].todo)
    BY InHandFacts
  <1>2. HeldIn(x) = HeldIn(run[r]) /\ \A v : InHand(x, v) <=> v = run[r].post
    BY <1>1 DEF HeldIn, InHand
  <1>3. SoundRun(x)
    BY <1>1, <1>2 DEF SoundRun
  <1>4. QED
    BY <1>2, <1>3, RunMoves

\* The id of the platform that has just answered joins those of the row.
LEMMA RecordIdKeeps ==
    ASSUME Social!PlatformsAreNamed, Social!RunsAreFinite,
           SocialTypes, SocialInv, NEW r \in Runs, Social!RecordId(r)
    PROVE  SocialTypes' /\ SocialInv'
  <1>0. run[r].at \in WithId /\ run[r].at \notin Social!Places
    BY PlaceFacts DEF Social!RecordId
  <1>17. PICK p \in Posts : p = run[r].post
    BY <1>0, InHandFacts DEF Social!Places
  <1> DEFINE o == run[r]
             ids == o.ids[p] \cup {o.at}
             status == IF o.status # o.was THEN o.status ELSE rows[p].status
             x == [o EXCEPT !.ids = [o.ids EXCEPT ![p] = ids], !.at = "platforms",
                            !.ok = o.ok, !.status = o.status, !.was = o.status,
                            !.unsaved = FALSE]
             row == [rows[p] EXCEPT !.ids = ids, !.status = status]
  <1>1. /\ o.at \in WithId /\ o.at \in Ids /\ o.at \notin Social!Places
        /\ o.at \notin {"idle", "next", "zernio", "record zernio", "platforms", "close"}
        /\ UNCHANGED <<mode, editor, mishaps, sent, answered, lapsed, causes, byHand>>
    BY PlaceFacts DEF Social!RecordId, Social!config, Social!histories, Ids, Social!Places
  <1>2. /\ o \in RunStates /\ InHand(o, p) /\ HeldIn(o) = o.queue \cup {p}
        /\ p \in Posts /\ p \notin o.queue /\ o.ids \in [HeldIn(o) -> SUBSET Ids]
        /\ causes[p] \in Nat /\ (causes[p] = 0 => HeldSound(r, p) /\ Progress(o, p))
    BY <1>1, <1>17, InHandFacts
  <1>3. run' = [run EXCEPT ![r] = x] /\ rows' = [rows EXCEPT ![p] = row]
    <2> DEFINE c == [o EXCEPT !.ids[p] = Social!IdsWith(@, o.at), !.unsaved = TRUE]
    <2>1. /\ rows' = [rows EXCEPT ![p] = Social!Saved(c, p)]
          /\ run' = [run EXCEPT ![r] = [c EXCEPT !.at = "platforms", !.unsaved = FALSE,
                                                 !.was = c.status]]
      BY <1>17 DEF Social!RecordId
    <2>2. /\ c.ids[p] = ids /\ c.unsaved = TRUE /\ c.status = o.status /\ c.was = o.was
      BY <1>2 DEF RunStates, Social!IdsWith
    <2>3. Social!Saved(c, p) = row
      BY <2>2 DEF Social!Saved
    <2>4. [c EXCEPT !.at = "platforms", !.unsaved = FALSE, !.was = c.status] = x
      BY <1>2, <2>2 DEF RunStates, Social!IdsWith
    <2> HIDE DEF c, x, row
    <2>5. QED
      BY <2>1, <2>3, <2>4
  <1>4. /\ o.ok \in BOOLEAN /\ o.status \in {"scheduled", "published"}
        /\ o.was \in {"scheduled", "published"}
    BY <1>2, RunFacts
  <1>5. run[r] = o /\ o.post = p
    BY <1>17
  <1>6. /\ x.at = "platforms" /\ x.ok = o.ok /\ x.queue = o.queue /\ x.todo = o.todo
        /\ x.ids[p] = ids /\ \A v \in o.queue : x.ids[v] = o.ids[v]
        /\ x.status = o.status /\ x.was = o.status /\ x.unsaved = FALSE
        /\ HeldIn(x) = HeldIn(o) /\ \A v : InHand(x, v) <=> v = p
        /\ run' \in [Runs -> RunStates] /\ \A q \in Runs : SoundRun(run'[q])
        /\ run'[r] = x /\ \A q \in Runs \ {r} : run'[q] = run[q]
    <2> DEFINE copy == [o.ids EXCEPT ![p] = ids]
    <2>1. /\ copy \in [HeldIn(o) -> SUBSET Ids] /\ copy[p] = ids
          /\ copy \in UNION {[P -> SUBSET Ids] : P \in SUBSET Posts}
          /\ \A v \in o.queue : copy[v] = o.ids[v]
      <3>1. ids \subseteq Ids
        BY <1>1, <1>2 DEF Ids
      <3>2. HeldIn(o) \in SUBSET Posts
        BY <1>2, RunFacts
      <3> HIDE DEF ids, o
      <3>3. copy \in [HeldIn(o) -> SUBSET Ids] /\ copy[p] = ids
            /\ \A v \in o.queue : copy[v] = o.ids[v]
        BY <1>2, <3>1
      <3>4. QED
        BY <3>2, <3>3
    <2>2. x = [o EXCEPT !.ids = copy, !.at = "platforms", !.ok = o.ok, !.status = o.status,
                        !.was = o.status, !.unsaved = FALSE]
      OBVIOUS
    <2> HIDE DEF copy, ids, x, o
    <2>3. /\ x.at = "platforms" /\ x.ok = o.ok /\ x.queue = o.queue /\ x.todo = o.todo
          /\ x.ids = copy /\ x.status = o.status /\ x.was = o.status /\ x.unsaved = FALSE
          /\ x.post = p /\ x \in RunStates
      BY <1>2, <1>4, <1>5, <2>1, <2>2 DEF RunStates, Social!Places
    <2>4. /\ HeldIn(x) = HeldIn(o) /\ \A v : InHand(x, v) <=> v = p
          /\ run' \in [Runs -> RunStates] /\ \A q \in Runs : SoundRun(run'[q])
          /\ run'[r] = x /\ \A q \in Runs \ {r} : run'[q] = run[q]
      <3>1. /\ run[r].at \notin {"idle", "next"} /\ x \in RunStates
            /\ x.at \in {"platforms", "close"} /\ x.queue = run[r].queue
            /\ x.post = run[r].post /\ x.todo = run[r].todo
            /\ x.ids \in [HeldIn(run[r]) -> SUBSET Ids]
        BY <1>1, <1>5, <2>1, <2>3
      <3>2. run' = [run EXCEPT ![r] = x]
        BY <1>3
      <3>3. /\ HeldIn(x) = HeldIn(run[r]) /\ \A v : InHand(x, v) <=> v = run[r].post
            /\ run' \in [Runs -> RunStates] /\ \A q \in Runs : SoundRun(run'[q])
            /\ run'[r] = x /\ \A q \in Runs \ {r} : run'[q] = run[q]
        BY <3>1, <3>2, CopyMoves
      <3>4. QED
        BY <1>5, <3>3
    <2>5. QED
      BY <2>1, <2>3, <2>4
  <1>7. rows[p] \in Social!Post /\ rows \in [Posts -> Social!Post] /\ ids \subseteq Ids
    BY <1>1, <1>2 DEF SocialTypes
  <1> HIDE DEF o, ids, x
  <1>8. status \in Social!Statuses
    BY <1>4, <1>7 DEF Social!Statuses, Social!Post
  <1>9. /\ o.status # o.was => status = o.status
        /\ o.status = o.was => status = rows[p].status
    OBVIOUS
  <1> HIDE DEF status
  <1>10. /\ row \in Social!Post /\ row.ids = ids /\ row.status = status
         /\ row.platforms = rows[p].platforms
    BY <1>7, <1>8 DEF Social!Post, Ids
  <1> HIDE DEF row
  <1>11. /\ rows' \in [Posts -> Social!Post] /\ rows'[p] = row
         /\ \A v \in Posts \ {p} : rows'[v] = rows[v]
    BY <1>2, <1>3, <1>7, <1>10
  <1>12. SocialTypes'
    BY <1>1, <1>6, <1>11 DEF SocialTypes
  <1>13. ASSUME NEW f \in Platforms
         PROVE  sent'[p][f] + One(MaySend(run'[r], p, f)) + One(Found(p, f)') + causes[p]
                  <= sent[p][f] + One(MaySend(run[r], p, f)) + One(Found(p, f)) + causes'[p]
    <2>1. Found(p, f)' => Found(p, f)
      <3> SUFFICES ASSUME Found(p, f)'
                   PROVE  Found(p, f)
        OBVIOUS
      <3>1. Marked(run'[r], p) /\ rows'[p].status = "scheduled"
        BY <1>2, <1>6 DEF Found
      <3>2. o.status = "published"
        BY <1>6, <3>1 DEF Marked
      <3>3. o.was = "published" /\ rows[p].status = "scheduled"
        BY <1>4, <1>9, <1>10, <1>11, <3>1, <3>2
      <3>4. Marked(run[r], p)
        BY <1>2, <1>5, <3>3 DEF Marked
      <3>5. \A q \in Runs : p \in HeldIn(run[q]) => Marked(run[q], p)
        BY <1>6, <3>4 DEF Found
      <3>6. QED
        BY <1>10, <1>11, <3>3, <3>5 DEF Found
    <2>2. sent[p][f] \in Nat /\ sent'[p][f] = sent[p][f] /\ causes'[p] = causes[p]
      <3>1. sent' = sent /\ causes' = causes
        BY <1>1
      <3>2. sent[p][f] \in Nat
        BY DEF SocialTypes
      <3>3. QED
        BY <3>1, <3>2
    <2>3. MaySend(run'[r], p, f) => MaySend(run[r], p, f)
      BY <1>1, <1>2, <1>5, <1>6 DEF MaySend
    <2>4. QED
      BY <1>2, <2>1, <2>2, <2>3 DEF One
  <1>14. PostSound(p)'
    <2> SUFFICES ASSUME causes'[p] = 0
                 PROVE  HeldSound(r, p)' /\ \A q \in Runs : p \in HeldIn(run'[q]) => q = r
      <3>1. ~Unheld(p)'
        BY <1>2, <1>6 DEF Unheld
      <3>2. QED
        BY <3>1 DEF PostSound
    <2>1. causes[p] = 0 /\ HeldSound(r, p) /\ Progress(o, p)
      BY <1>1, <1>2
    <2>2. \A q \in Runs : p \in HeldIn(run'[q]) => q = r
      BY <1>6, <2>1 DEF HeldSound
    <2>3. OutWithId(p)' = OutWithId(p)
      BY <1>1 DEF OutWithId
    <2>4. OutWithId(p) \subseteq ids /\ o.status = o.was
      BY <1>1, <2>1 DEF Progress, ids
    <2>5. Progress(run[r], p)'
      BY <1>1, <1>6, <1>10, <1>11, <2>1, <2>3, <2>4, PlaceFacts DEF Progress, Social!Places
    <2>6. InHand(run'[r], p) /\ run'[r].ids[p] = rows'[p].ids
      BY <1>6, <1>10, <1>11
    <2>7. rows'[p].status = rows[p].status
      BY <1>9, <1>10, <1>11, <2>4
    <2>8. QED
      BY <1>1, <2>1, <2>2, <2>5, <2>6, <2>7 DEF HeldSound
  <1>15. SocialInv'
    <2>1. /\ \A q \in Runs \ {r} : run'[q] = run[q]
          /\ InHand(run[r], p) /\ run'[r].queue = run[r].queue
          /\ \A v \in Posts \ {p} : ~InHand(run'[r], v)
          /\ \A v \in run[r].queue : run'[r].ids[v] = run[r].ids[v]
          /\ byHand' = byHand /\ rows'[p].platforms = rows[p].platforms
      BY <1>1, <1>2, <1>5, <1>6, <1>10, <1>11
    <2>2. \A v \in Posts \ {p} : /\ rows'[v] = rows[v] /\ sent'[v] = sent[v]
                                 /\ answered'[v] = answered[v] /\ causes'[v] = causes[v]
                                 /\ v \in lapsed' <=> v \in lapsed
      BY <1>1, <1>11
    <2>3. QED
      BY <1>12, <1>13, <1>14, <2>1, <2>2, InHandStep
  <1>16. QED
    BY <1>12, <1>15

\* A save that fails: the copy has the id, the row has not, and the post has lapsed.
LEMMA SaveFailsKeeps ==
    ASSUME Social!PlatformsAreNamed, Social!RunsAreFinite,
           SocialTypes, SocialInv, NEW r \in Runs,
           Social!RecordIdFails(r) \/ Social!RecordZernioFails(r)
    PROVE  SocialTypes' /\ SocialInv'
  <1>0. run[r].at \in WithId \cup {"record zernio"} /\ run[r].at \notin {"idle", "next"}
    BY PlaceFacts DEF Social!RecordIdFails, Social!RecordZernioFails, Social!Places
  <1>14. PICK p \in Posts : p = run[r].post
    BY <1>0, InHandFacts
  <1> DEFINE o == run[r]
             zernio == o.at = "record zernio"
             id == IF zernio THEN Zernio ELSE o.at
             at == IF zernio /\ mode = "zernio" THEN "close" ELSE "platforms"
             ok == zernio /\ mode # "zernio"
             status == IF zernio THEN "published" ELSE o.status
             ids == o.ids[p] \cup {id}
             x == [o EXCEPT !.ids = [o.ids EXCEPT ![p] = ids], !.at = at, !.ok = ok,
                            !.status = status, !.was = o.was, !.unsaved = TRUE]
  <1>1. /\ o.at \in WithId \/ zernio
        /\ o.at \in WithId => o.at \in Ids /\ o.at \notin Social!Places
        /\ o.at \notin {"idle", "next", "zernio", "platforms", "close"}
        /\ UNCHANGED <<mode, rows, editor, sent, answered, byHand>>
        /\ mishaps' = mishaps + 1 /\ lapsed' = lapsed \cup {p}
        /\ causes' = IF at = "platforms" /\ zernio THEN [causes EXCEPT ![p] = @ + 1] ELSE causes
    BY <1>14, PlaceFacts DEF Social!RecordIdFails, Social!RecordZernioFails, Social!Mishap,
       Social!config, Ids, Social!Places
  <1>2. /\ o \in RunStates /\ InHand(o, p) /\ HeldIn(o) = o.queue \cup {p}
        /\ p \in Posts /\ p \notin o.queue /\ o.ids \in [HeldIn(o) -> SUBSET Ids]
        /\ causes[p] \in Nat /\ (causes[p] = 0 => HeldSound(r, p) /\ Progress(o, p))
    BY <1>1, <1>14, InHandFacts
  <1>3. run' = [run EXCEPT ![r] = x]
    <2>1. r \in DOMAIN run
      BY DEF SocialTypes
    <2>2. CASE Social!RecordIdFails(r)
      <3> DEFINE c == [o EXCEPT !.ids = [o.ids EXCEPT ![p] = Social!IdsWith(@, o.at)],
                                !.unsaved = TRUE, !.at = "platforms", !.ok = FALSE]
      <3>1. run' = [run EXCEPT ![r] = c]
        BY <1>14, <2>1, <2>2 DEF Social!RecordIdFails
      <3>2. ~zernio
        BY <2>2, PlaceFacts DEF Social!RecordIdFails, Social!Places
      <3>3. c = x
        BY <1>2, <3>2 DEF RunStates, Social!IdsWith
      <3>4. QED
        BY <3>1, <3>3
    <2>3. CASE Social!RecordZernioFails(r)
      <3> DEFINE c == [o EXCEPT !.ids = [o.ids EXCEPT ![p] = @ \cup {Zernio}],
                                !.unsaved = TRUE, !.status = "published",
                                !.ok = mode # "zernio",
                                !.at = IF mode = "zernio" THEN "close" ELSE "platforms"]
      <3>1. run' = [run EXCEPT ![r] = c]
        BY <1>14, <2>1, <2>3 DEF Social!RecordZernioFails
      <3>2. zernio
        BY <2>3 DEF Social!RecordZernioFails
      <3>3. c = x
        BY <1>2, <3>2 DEF RunStates
      <3>4. QED
        BY <3>1, <3>3
    <2>4. QED
      BY <2>2, <2>3
  <1>4. o.status \in {"scheduled", "published"} /\ o.was \in {"scheduled", "published"}
    BY <1>2, RunFacts
  <1>5. run[r] = o /\ o.post = p
    BY <1>14
  <1>6. /\ id \in Ids /\ at \in {"platforms", "close"} /\ ok \in BOOLEAN
        /\ status \in {"scheduled", "published"}
        /\ (at = "platforms" /\ ~zernio => ~ok) /\ (at = "close" => ~ok /\ zernio)
        /\ (zernio => id = Zernio) /\ (~zernio => id = o.at /\ status = o.status)
        /\ (at = "platforms" \/ ~zernio => at = "platforms")
    BY <1>1, <1>4 DEF Ids
  <1>7. /\ x.at = at /\ x.ok = ok /\ x.queue = o.queue /\ x.todo = o.todo
        /\ x.ids[p] = ids /\ \A v \in o.queue : x.ids[v] = o.ids[v]
        /\ x.status = status /\ x.was = o.was /\ x.unsaved = TRUE
        /\ HeldIn(x) = HeldIn(o) /\ \A v : InHand(x, v) <=> v = p
        /\ run' \in [Runs -> RunStates] /\ \A q \in Runs : SoundRun(run'[q])
        /\ run'[r] = x /\ \A q \in Runs \ {r} : run'[q] = run[q]
    <2> DEFINE copy == [o.ids EXCEPT ![p] = ids]
    <2>1. /\ copy \in [HeldIn(o) -> SUBSET Ids] /\ copy[p] = ids
          /\ copy \in UNION {[P -> SUBSET Ids] : P \in SUBSET Posts}
          /\ \A v \in o.queue : copy[v] = o.ids[v]
      <3>1. ids \subseteq Ids
        BY <1>1, <1>2, <1>6 DEF Ids
      <3>2. HeldIn(o) \in SUBSET Posts
        BY <1>2, RunFacts
      <3> HIDE DEF ids, o
      <3>3. copy \in [HeldIn(o) -> SUBSET Ids] /\ copy[p] = ids
            /\ \A v \in o.queue : copy[v] = o.ids[v]
        BY <1>2, <3>1
      <3>4. QED
        BY <3>2, <3>3
    <2>2. x = [o EXCEPT !.ids = copy, !.at = at, !.ok = ok, !.status = status, !.was = o.was,
                        !.unsaved = TRUE]
      OBVIOUS
    <2> HIDE DEF copy, id, at, ok, status, ids, x, o, zernio
    <2>3. /\ x.at = at /\ x.ok = ok /\ x.queue = o.queue /\ x.todo = o.todo
          /\ x.ids = copy /\ x.status = status /\ x.was = o.was /\ x.unsaved = TRUE
          /\ x.post = p /\ x \in RunStates
      BY <1>2, <1>4, <1>5, <1>6, <2>1, <2>2 DEF RunStates, Social!Places
    <2>4. /\ HeldIn(x) = HeldIn(o) /\ \A v : InHand(x, v) <=> v = p
          /\ run' \in [Runs -> RunStates] /\ \A q \in Runs : SoundRun(run'[q])
          /\ run'[r] = x /\ \A q \in Runs \ {r} : run'[q] = run[q]
      <3>1. /\ run[r].at \notin {"idle", "next"} /\ x \in RunStates
            /\ x.at \in {"platforms", "close"} /\ x.queue = run[r].queue
            /\ x.post = run[r].post /\ x.todo = run[r].todo
            /\ x.ids \in [HeldIn(run[r]) -> SUBSET Ids]
        BY <1>1, <1>5, <1>6, <2>1, <2>3
      <3>2. run' = [run EXCEPT ![r] = x]
        BY <1>3
      <3>3. /\ HeldIn(x) = HeldIn(run[r]) /\ \A v : InHand(x, v) <=> v = run[r].post
            /\ run' \in [Runs -> RunStates] /\ \A q \in Runs : SoundRun(run'[q])
            /\ run'[r] = x /\ \A q \in Runs \ {r} : run'[q] = run[q]
        BY <3>1, <3>2, CopyMoves
      <3>4. QED
        BY <1>5, <3>3
    <2>5. QED
      BY <2>1, <2>3, <2>4
  <1> HIDE DEF o, zernio, id, at, ok, status, ids, x
  <1>8. /\ causes' \in [Posts -> Nat] /\ lapsed' \subseteq Posts
        /\ causes'[p] = IF at = "platforms" /\ zernio THEN causes[p] + 1 ELSE causes[p]
        /\ \A v \in Posts \ {p} : causes'[v] = causes[v] /\ (v \in lapsed' <=> v \in lapsed)
    BY <1>1, <1>2 DEF SocialTypes
  <1>9. SocialTypes'
    BY <1>1, <1>7, <1>8 DEF SocialTypes
  <1>10. ASSUME NEW f \in Platforms
         PROVE  sent'[p][f] + One(MaySend(run'[r], p, f)) + One(Found(p, f)') + causes[p]
                  <= sent[p][f] + One(MaySend(run[r], p, f)) + One(Found(p, f)) + causes'[p]
    <2>1. Found(p, f)' <=> Found(p, f)
      <3>1. \A q \in Runs : /\ p \in HeldIn(run'[q]) <=> p \in HeldIn(run[q])
                            /\ Marked(run'[q], p) <=> Marked(run[q], p)
        BY <1>2, <1>5, <1>7 DEF Marked
      <3>2. QED
        BY <1>1, <3>1 DEF Found
    <2>2. sent[p][f] \in Nat /\ sent'[p][f] = sent[p][f]
      BY <1>1, <1>2 DEF SocialTypes
    <2>3. MaySend(run'[r], p, f) => MaySend(run[r], p, f) \/ (at = "platforms" /\ zernio)
      BY <1>1, <1>2, <1>5, <1>6, <1>7, PlaceFacts DEF MaySend, Social!Places
    <2>4. QED
      BY <1>2, <1>8, <2>1, <2>2, <2>3 DEF One
  <1>11. PostSound(p)'
    <2> SUFFICES ASSUME causes'[p] = 0
                 PROVE  HeldSound(r, p)' /\ \A q \in Runs : p \in HeldIn(run'[q]) => q = r
      <3>1. ~Unheld(p)'
        BY <1>2, <1>7 DEF Unheld
      <3>2. QED
        BY <3>1 DEF PostSound
    <2>1. causes[p] = 0 /\ HeldSound(r, p) /\ Progress(o, p) /\ (at = "platforms" => ~zernio)
      BY <1>2, <1>8
    <2>2. \A q \in Runs : p \in HeldIn(run'[q]) => q = r
      BY <1>7, <2>1 DEF HeldSound
    <2>3. OutWithId(p)' = OutWithId(p) /\ p \in lapsed'
      BY <1>1 DEF OutWithId
    <2>4. Progress(run[r], p)'
      <3>1. CASE at = "close"
        BY <1>6, <1>7, <2>3, <3>1, PlaceFacts DEF Progress, Social!Places, ids
      <3>2. CASE at = "platforms"
        <4>1. o.at \in WithId /\ ~zernio
          BY <1>1, <2>1, <3>2
        <4>2. OutWithId(p) \subseteq ids
          BY <1>6, <2>1, <4>1 DEF Progress, ids
        <4>3. QED
          BY <1>1, <1>6, <1>7, <2>1, <2>3, <3>2, <4>1, <4>2, PlaceFacts
             DEF Progress, Social!Places
      <3>3. QED
        BY <1>6, <3>1, <3>2
    <2>5. InHand(run'[r], p) /\ run'[r].unsaved
      BY <1>7
    <2>6. QED
      BY <1>1, <2>1, <2>2, <2>4, <2>5 DEF HeldSound
  <1>12. SocialInv'
    BY <1>1, <1>2, <1>5, <1>7, <1>8, <1>9, <1>10, <1>11, InHandStep
  <1>13. QED
    BY <1>9, <1>12

\* What a run is once it is done with a post.
LEMMA RestFacts ==
    ASSUME SocialTypes, NEW r \in Runs
    PROVE  /\ SoundRun(Social!Rest(r)) /\ Social!Rest(r).queue = run[r].queue
           /\ HeldIn(Social!Rest(r)) = run[r].queue /\ \A v : ~InHand(Social!Rest(r), v)
           /\ \A v \in run[r].queue : Social!Rest(r).ids[v] = run[r].ids[v]
  <1> DEFINE o == run[r]
             x == Social!Rest(r)
             ids == [v \in o.queue |-> o.ids[v]]
  <1>1. SoundRun(o) /\ o \in RunStates
    BY DEF SocialTypes
  <1>2. /\ x.at = (IF o.queue = {} THEN "idle" ELSE "next") /\ x.queue = o.queue /\ x.post = 0
        /\ x.todo = <<>> /\ x.ids = ids /\ x.ok = TRUE
    BY DEF Social!Rest, Social!NoRun
  <1>3. o.queue \in SUBSET Posts /\ o.ids \in [HeldIn(o) -> SUBSET Ids]
        /\ o.queue \subseteq HeldIn(o)
    BY <1>1, RunFacts DEF SoundRun, HeldIn
  <1> HIDE DEF o
  <1>5. ids \in [o.queue -> SUBSET Ids] /\ \A v \in o.queue : ids[v] = o.ids[v]
    BY <1>3
  <1>6. ids \in UNION {[P -> SUBSET Ids] : P \in SUBSET Posts}
    BY <1>3, <1>5
  <1> HIDE DEF ids, x
  <1>7. x \in RunStates
    BY <1>3, <1>6, NothingLeft DEF x, o, ids, Social!Rest, Social!NoRun, RunStates,
       Social!Places
  <1>8. HeldIn(x) = o.queue /\ \A v : ~InHand(x, v)
    BY <1>2 DEF HeldIn, InHand
  <1>9. SoundRun(x)
    BY <1>2, <1>5, <1>7, <1>8, NothingLeft DEF SoundRun
  <1>10. QED
    BY <1>2, <1>5, <1>8, <1>9 DEF x, o

\* A run that is done with a post: it settled the status, or had saved it before.
LEMMA DoneWithPost ==
    ASSUME Social!RunsAreFinite,
           SocialTypes, SocialInv, NEW r \in Runs, NEW p \in Posts, p = run[r].post,
           run[r].at \notin {"idle", "next"}, run' = [run EXCEPT ![r] = Social!Rest(r)],
           UNCHANGED <<mode, editor, mishaps, Social!histories>>,
           rows' \in [Posts -> Social!Post], rows'[p].platforms = rows[p].platforms,
           \/ rows'[p].status # "scheduled"
           \/ rows'[p].status = rows[p].status /\ run[r].was = "published",
           \A v \in Posts \ {p} : rows'[v] = rows[v],
           causes[p] = 0 => FreeSound(p)'
    PROVE  SocialTypes' /\ SocialInv'
  <1> DEFINE x == Social!Rest(r)
  <1>1. /\ InHand(run[r], p) /\ HeldIn(run[r]) = run[r].queue \cup {p} /\ p \notin run[r].queue
        /\ causes[p] \in Nat /\ (causes[p] = 0 => HeldSound(r, p))
    BY InHandFacts
  <1>2. /\ SoundRun(x) /\ x.queue = run[r].queue /\ HeldIn(x) = run[r].queue
        /\ (\A v : ~InHand(x, v)) /\ \A v \in run[r].queue : x.ids[v] = run[r].ids[v]
    BY RestFacts
  <1> HIDE DEF x
  <1>3. /\ run' \in [Runs -> RunStates] /\ \A q \in Runs : SoundRun(run'[q])
        /\ run'[r] = x /\ \A q \in Runs \ {r} : run'[q] = run[q]
    BY <1>2, RunMoves DEF x
  <1>4. UNCHANGED <<mode, editor, mishaps, sent, answered, lapsed, causes, byHand>>
    BY DEF Social!histories
  <1>5. SocialTypes'
    BY <1>3, <1>4 DEF SocialTypes
  <1>6. ASSUME NEW f \in Platforms
        PROVE  sent'[p][f] + One(MaySend(run'[r], p, f)) + One(Found(p, f)') + causes[p]
                 <= sent[p][f] + One(MaySend(run[r], p, f)) + One(Found(p, f)) + causes'[p]
    <2>1. ~MaySend(run'[r], p, f)
      BY <1>1, <1>2, <1>3 DEF MaySend
    <2>4. Found(p, f)' => Found(p, f)
      <3> SUFFICES ASSUME Found(p, f)'
                   PROVE  Found(p, f)
        OBVIOUS
      <3>1. rows[p].status = "scheduled" /\ Marked(run[r], p)
        BY <1>1 DEF Found, Marked
      <3>2. \A q \in Runs : p \in HeldIn(run[q]) => Marked(run[q], p)
        BY <1>3, <3>1 DEF Found
      <3>3. QED
        BY <3>1, <3>2 DEF Found
    <2>2. sent[p][f] \in Nat /\ sent'[p][f] = sent[p][f] /\ causes'[p] = causes[p]
      BY <1>4 DEF SocialTypes
    <2>3. QED
      BY <1>1, <2>1, <2>2, <2>4 DEF One
  <1>7. PostSound(p)'
    <2> SUFFICES ASSUME causes'[p] = 0
                 PROVE  FreeSound(p)' /\ \A q \in Runs : p \notin HeldIn(run'[q])
      BY DEF PostSound
    <2>1. causes[p] = 0
      BY <1>4
    <2>2. \A q \in Runs : p \notin HeldIn(run'[q])
      BY <1>1, <1>2, <1>3, <2>1 DEF HeldSound
    <2>3. QED
      BY <2>1, <2>2
  <1>8. SocialInv'
    BY <1>1, <1>2, <1>3, <1>4, <1>5, <1>6, <1>7, InHandStep
  <1>9. QED
    BY <1>5, <1>8

\* Recording the publisher's answer gives the post its final status and ids, and the run
\* lets go of it.
LEMMA RecordZernioKeeps ==
    ASSUME Social!RunsAreFinite,
           SocialTypes, SocialInv, NEW r \in Runs, Social!RecordZernio(r)
    PROVE  SocialTypes' /\ SocialInv'
  <1>1. PICK p \in Posts : p = run[r].post
    BY InHandFacts DEF Social!RecordZernio
  <1>2. /\ run[r].at = "record zernio" /\ run' = [run EXCEPT ![r] = Social!Rest(r)]
        /\ UNCHANGED <<mode, editor, mishaps, Social!histories>>
        /\ rows' = [rows EXCEPT ![p].ids = run[r].ids[p] \cup {Zernio},
                                ![p].status = "published"]
    BY <1>1 DEF Social!RecordZernio, Social!config
  <1>3. /\ run[r].ids[p] \subseteq Ids /\ causes[p] \in Nat
        /\ (causes[p] = 0 => HeldSound(r, p) /\ Progress(run[r], p))
    BY <1>1, <1>2, InHandFacts
  <1> DEFINE ids == run[r].ids[p] \cup {Zernio}
  <1>4. ids \subseteq Ids /\ Zernio \in ids
    BY <1>3 DEF Ids
  <1> HIDE DEF ids
  <1>5. /\ rows' \in [Posts -> Social!Post] /\ rows'[p].status = "published" /\ rows'[p].ids = ids
        /\ rows'[p].platforms = rows[p].platforms
        /\ \A v \in Posts \ {p} : rows'[v] = rows[v]
    <2>1. rows[p] \in Social!Post /\ rows \in [Posts -> Social!Post]
      BY DEF SocialTypes
    <2>2. rows' = [rows EXCEPT ![p].ids = ids, ![p].status = "published"]
      BY <1>2 DEF ids
    <2>3. rows' = [rows EXCEPT ![p] = [rows[p] EXCEPT !.ids = ids, !.status = "published"]]
      BY <2>1, <2>2
    <2>4. [rows[p] EXCEPT !.ids = ids, !.status = "published"] \in Social!Post
      BY <1>4, <2>1 DEF Social!Post, Social!Statuses, Ids
    <2>5. QED
      BY <2>1, <2>3, <2>4 DEF Social!Post
  <1>6. ASSUME causes[p] = 0
        PROVE  FreeSound(p)'
    <2>1. WentWell(p)
      BY <1>2, <1>3, <1>6 DEF Progress, WentWell
    <2>2. WentWell(p)'
      BY <1>2, <1>5, <2>1 DEF Social!histories, WentWell
    <2>3. QED
      BY <1>4, <1>5, <2>2 DEF FreeSound, IdsSound
  <1>7. QED
    BY <1>1, <1>2, <1>5, <1>6, DoneWithPost

\* The verdict on the platforms of a post becomes its status, unless the copy saved that
\* status before, and the ids that are unsaved join those of the row.
LEMMA CloseKeeps ==
    ASSUME Social!PlatformsAreNamed, Social!ListsAreSelections, Social!RunsAreFinite,
           SocialTypes, SocialInv, NEW r \in Runs, Social!Close(r)
    PROVE  SocialTypes' /\ SocialInv'
  <1>0. run[r].at \in {"close", "platforms"}
    BY DEF Social!Close
  <1>16. PICK p \in Posts : p = run[r].post
    BY <1>0, InHandFacts
  <1> DEFINE o == run[r]
             settled == Social!Settled(o.ok)
             ids == IF o.unsaved THEN o.ids[p] ELSE rows[p].ids
             status == IF settled # o.was THEN settled ELSE rows[p].status
             row == [rows[p] EXCEPT !.ids = ids, !.status = status]
  <1>1. /\ o.at = "close" \/ (o.at = "platforms" /\ o.todo = <<>>)
        /\ run' = [run EXCEPT ![r] = Social!Rest(r)]
        /\ UNCHANGED <<mode, editor, mishaps, Social!histories>>
        /\ rows' = [rows EXCEPT ![p] = Social!Saved([o EXCEPT !.status = settled], p)]
    BY <1>16 DEF Social!Close, Social!config
  <1>2. /\ o \in RunStates /\ p \in Posts /\ o.ids \in [HeldIn(o) -> SUBSET Ids]
        /\ p \in HeldIn(o) /\ InHand(o, p)
        /\ causes[p] \in Nat /\ (causes[p] = 0 => HeldSound(r, p) /\ Progress(o, p))
    BY <1>1, <1>16, InHandFacts
  <1>3. rows' = [rows EXCEPT ![p] = row]
    <2> DEFINE c == [o EXCEPT !.status = settled]
    <2>1. c.status = settled /\ c.was = o.was /\ c.unsaved = o.unsaved /\ c.ids = o.ids
      BY <1>2 DEF RunStates
    <2>2. Social!Saved(c, p) = row
      BY <2>1 DEF Social!Saved
    <2> HIDE DEF row
    <2>3. QED
      BY <1>1, <2>2
  <1>4. /\ o.was \in {"scheduled", "published"} /\ o.ok \in BOOLEAN /\ o.unsaved \in BOOLEAN
        /\ o.ids[p] \subseteq Ids
    BY <1>2, RunFacts
  <1>5. rows[p] \in Social!Post /\ rows \in [Posts -> Social!Post]
    BY <1>2 DEF SocialTypes
  <1>6. /\ settled \in {"published", "failed"} /\ (settled = "published" <=> o.ok)
    BY <1>4 DEF Social!Settled
  <1>7. /\ (o.unsaved => ids = o.ids[p]) /\ (~o.unsaved => ids = rows[p].ids)
        /\ settled # o.was => status = settled
        /\ settled = o.was => status = rows[p].status
    OBVIOUS
  <1>8. run[r] = o /\ p = run[r].post
    BY <1>16
  <1> HIDE DEF o, settled, ids, status
  <1>9. ids \subseteq Ids /\ status \in Social!Statuses
    BY <1>4, <1>5, <1>6, <1>7 DEF Social!Post, Social!Statuses, Ids
  <1>10. /\ row \in Social!Post /\ row.ids = ids /\ row.status = status
         /\ row.platforms = rows[p].platforms
    BY <1>5, <1>9 DEF Social!Post, Ids
  <1> HIDE DEF row
  <1>11. /\ rows' \in [Posts -> Social!Post] /\ rows'[p] = row
         /\ \A v \in Posts \ {p} : rows'[v] = rows[v]
    BY <1>2, <1>3, <1>5, <1>10
  <1>12. \/ rows'[p].status # "scheduled"
         \/ rows'[p].status = rows[p].status /\ run[r].was = "published"
    BY <1>4, <1>6, <1>7, <1>8, <1>10, <1>11
  <1>13. ASSUME causes[p] = 0
         PROVE  FreeSound(p)'
    <2> DEFINE all == Social!Range(rows[p].platforms)
    <2>1. Progress(o, p) /\ HeldSound(r, p)
          /\ UNCHANGED <<sent, answered, lapsed, byHand>>
      BY <1>1, <1>2, <1>13 DEF Social!histories
    <2>2. all # {}
      BY <1>2, RowFacts, RangeOfList
    <2>3. OutWithId(p)' = OutWithId(p) /\ (WentWell(p)' <=> WentWell(p))
      BY <1>10, <1>11, <2>1 DEF OutWithId, WentWell
    <2>4. o.ids[p] = ids
      BY <1>7, <1>8, <2>1 DEF HeldSound
    <2>5. (o.ok <=> WentWell(p)) /\ (Zernio \notin ids => OutWithId(p) \subseteq ids)
      <3>1. CASE o.at = "close"
        <4>1. ~o.ok /\ (answered[p] = {} \/ (p \in lapsed /\ Zernio \in o.ids[p]))
          BY <2>1, <3>1 DEF Progress
        <4>2. answered[p] = {} => OutWithId(p) = {}
          BY DEF OutWithId
        <4>3. ~WentWell(p)
          BY <2>2, <4>1 DEF WentWell
        <4>4. QED
          BY <2>4, <4>1, <4>2, <4>3
      <3>2. CASE o.at = "platforms" /\ o.todo = <<>>
        <4>1. /\ answered[p] \cup Social!Range(o.todo) \subseteq all
              /\ o.ok <=> all \subseteq answered[p] \cup Social!Range(o.todo) /\ p \notin lapsed
              /\ OutWithId(p) \subseteq o.ids[p] \cup {"platforms"}
          BY <2>1, <3>2 DEF Progress
        <4>2. Social!Range(o.todo) = {}
          BY <3>2, NothingLeft
        <4>3. "platforms" \notin OutWithId(p)
          BY PlaceFacts DEF OutWithId, Social!Places
        <4>4. o.ok <=> WentWell(p)
          <5> HIDE DEF all
          <5>1. o.ok <=> answered[p] = all /\ p \notin lapsed
            BY <4>1, <4>2
          <5>2. QED
            BY <5>1 DEF WentWell, all
        <4>5. QED
          BY <2>4, <4>1, <4>3, <4>4
      <3>3. QED
        BY <1>1, <3>1, <3>2
    <2> HIDE DEF all
    <2>6. ASSUME p \notin byHand'
          PROVE  /\ rows'[p].status = "published" => WentWell(p)'
                 /\ rows'[p].status = "failed" => ~WentWell(p)'
      <3>1. rows[p].status = "scheduled"
        BY <2>1, <2>6 DEF HeldSound
      <3>2. rows'[p].status \in {settled, "scheduled"}
        BY <1>7, <1>10, <1>11, <3>1
      <3>3. QED
        BY <1>6, <2>3, <2>5, <3>2
    <2>7. IdsSound(p)'
      BY <1>10, <1>11, <2>3, <2>5 DEF IdsSound
    <2>8. QED
      BY <2>6, <2>7 DEF FreeSound
  <1>14. run[r].at \notin {"idle", "next"} /\ rows'[p].platforms = rows[p].platforms
    BY <1>1, <1>8, <1>10, <1>11
  <1>15. QED
    BY <1>1, <1>2, <1>8, <1>11, <1>12, <1>13, <1>14, DoneWithPost

\* A run that ends leaves what it held to the next one: the post in hand has a cause, or
\* has not been sent by this run.
LEMMA RunEnds ==
    ASSUME Social!PlatformsAreNamed, Social!RunsAreFinite,
           SocialTypes, SocialInv, NEW r \in Runs, run[r].at # "idle",
           run' = [run EXCEPT ![r] = Social!NoRun], mishaps' \in Nat,
           UNCHANGED <<mode, rows, editor, sent, answered, lapsed, byHand>>,
           NEW counted \in BOOLEAN,
           causes' = IF counted THEN [causes EXCEPT ![run[r].post] = @ + 1] ELSE causes,
           counted => run[r].at # "next",
           ~counted => \/ run[r].at = "next"
                       \/ /\ run[r].at = "platforms"
                          /\ run[r].todo = rows[run[r].post].platforms
    PROVE  SocialTypes' /\ SocialInv'
  <1> DEFINE o == run[r]
  <1>1. /\ o.at # "idle" /\ run' = [run EXCEPT ![r] = Social!NoRun] /\ mishaps' \in Nat
        /\ causes' = IF counted THEN [causes EXCEPT ![o.post] = @ + 1] ELSE causes
        /\ counted => o.at # "next"
        /\ ~counted /\ o.at # "next" => o.at = "platforms" /\ o.todo = rows[o.post].platforms
    OBVIOUS
  <1>2. SoundRun(o) /\ o \in RunStates /\ run[r] = o
    BY DEF SocialTypes
  <1> HIDE DEF o
  <1>3. /\ Social!NoRun.at = "idle" /\ Social!NoRun.queue = {} /\ Social!NoRun.todo = <<>>
        /\ Social!NoRun.ids = <<>>
    BY DEF Social!NoRun
  <1>4. /\ HeldIn(Social!NoRun) = {} /\ (\A v : ~InHand(Social!NoRun, v))
        /\ \A v, f : ~MaySend(Social!NoRun, v, f)
    BY <1>3 DEF HeldIn, InHand, MaySend
  <1>5. SoundRun(Social!NoRun)
    <2>1. <<>> \in [{} -> SUBSET Ids]
      OBVIOUS
    <2>2. Social!NoRun \in RunStates
      BY <2>1, NothingLeft DEF Social!NoRun, RunStates, Social!Places
    <2>3. QED
      BY <1>3, <1>4, <2>1, <2>2, NothingLeft DEF SoundRun
  <1>6. /\ run' \in [Runs -> RunStates] /\ \A q \in Runs : SoundRun(run'[q])
        /\ run'[r] = Social!NoRun /\ \A q \in Runs \ {r} : run'[q] = run[q]
    BY <1>1, <1>5, RunMoves
  <1>7. /\ o.queue \subseteq Posts /\ (o.at # "next" => o.post \in Posts /\ o.post \notin o.queue)
        /\ HeldIn(o) = o.queue \cup (IF o.at = "next" THEN {} ELSE {o.post})
        /\ \A v : InHand(o, v) <=> o.at # "next" /\ v = o.post
    BY <1>1, <1>2, RunFacts DEF SoundRun, HeldIn, InHand
  <1>8. /\ causes' \in [Posts -> Nat] /\ causes \in [Posts -> Nat]
        /\ \A v \in Posts :
              causes'[v] = IF counted /\ v = o.post THEN causes[v] + 1 ELSE causes[v]
    BY <1>1, <1>7 DEF SocialTypes
  <1>9. SocialTypes'
    BY <1>6, <1>8 DEF SocialTypes
  <1>10. SendsArePaid'
    <2> SUFFICES ASSUME NEW v \in Posts, NEW f \in Platforms
                 PROVE  sent'[v][f] + One(MaySend(run'[r], v, f)) + One(Found(v, f)')
                            + causes[v]
                          <= sent[v][f] + One(MaySend(run[r], v, f)) + One(Found(v, f))
                             + causes'[v]
      BY <1>6, <1>9, PaidMove DEF SocialInv
    <2>1. sent'[v][f] = sent[v][f] /\ sent[v][f] \in Nat /\ causes[v] \in Nat
      BY DEF SocialTypes
    <2>2. ~MaySend(run'[r], v, f)
      BY <1>4, <1>6
    <2>3. Found(v, f)' => f \in Social!Range(rows[v].platforms)
      BY DEF Found
    <2>4. CASE v \in o.queue
      <3>1. Found(v, f)' => MaySend(run[r], v, f)
        BY <1>2, <2>3, <2>4 DEF MaySend
      <3>2. causes'[v] = causes[v]
        BY <1>1, <1>7, <1>8, <2>4
      <3>3. QED
        BY <2>1, <2>2, <3>1, <3>2 DEF One
    <2>5. CASE v \notin HeldIn(o)
      <3>1. Found(v, f)' <=> Found(v, f)
        BY <1>2, <1>4, <1>6, <2>5 DEF Found
      <3>2. causes'[v] = causes[v]
        BY <1>1, <1>7, <1>8, <2>5
      <3>3. QED
        BY <2>1, <2>2, <3>1, <3>2 DEF One
    <2>6. CASE o.at # "next" /\ v = o.post /\ counted
      <3>1. causes'[v] = causes[v] + 1
        BY <1>8, <2>6
      <3>2. QED
        BY <2>1, <2>2, <3>1 DEF One
    <2>7. CASE o.at # "next" /\ v = o.post /\ ~counted
      <3>1. Found(v, f)' => MaySend(run[r], v, f)
        BY <1>1, <1>2, <1>7, <2>3, <2>7 DEF MaySend
      <3>2. causes'[v] = causes[v]
        BY <1>8, <2>7
      <3>3. QED
        BY <2>1, <2>2, <3>1, <3>2 DEF One
    <2>8. QED
      BY <1>7, <2>4, <2>5, <2>6, <2>7
  <1>11. PostsAreSound'
    <2> SUFFICES ASSUME NEW v \in Posts
                 PROVE  PostSound(v)'
      BY DEF PostsAreSound
    <2>1. PostSound(v) /\ causes[v] \in Nat
      BY DEF SocialInv, PostsAreSound, SocialTypes
    <2>2. CASE counted /\ v = o.post
      BY <1>8, <2>1, <2>2 DEF PostSound
    <2>3. CASE v \notin HeldIn(o)
      <3>1. causes'[v] = causes[v]
        BY <1>1, <1>7, <1>8, <2>3
      <3>2. \A q \in Runs : /\ v \in HeldIn(run'[q]) <=> v \in HeldIn(run[q])
                            /\ v \in HeldIn(run'[q]) => run'[q] = run[q]
                            /\ InHand(run'[q], v) <=> InHand(run[q], v)
                            /\ InHand(run'[q], v) => run'[q] = run[q]
        BY <1>2, <1>4, <1>6, <1>7, <2>3
      <3>3. QED
        BY <2>1, <3>1, <3>2, PostKept
    <2>4. CASE v \in HeldIn(o) /\ ~(counted /\ v = o.post)
      <3> SUFFICES ASSUME causes'[v] = 0
                   PROVE  FreeSound(v)' /\ \A q \in Runs : v \notin HeldIn(run'[q])
        BY DEF PostSound
      <3>1. causes[v] = 0 /\ v \in HeldIn(run[r])
        BY <1>2, <1>8, <2>4
      <3>2. HeldSound(r, v)
        BY <2>1, <3>1 DEF PostSound
      <3>3. \A q \in Runs : v \notin HeldIn(run'[q])
        BY <1>4, <1>6, <3>2 DEF HeldSound
      <3>4. IdsSound(v)
        <4>1. CASE ~InHand(o, v)
          BY <1>2, <3>2, <4>1 DEF HeldSound
        <4>2. CASE InHand(o, v)
          <5>1. o.at = "platforms" /\ o.todo = rows[v].platforms
            BY <1>1, <1>7, <2>4, <4>2
          <5>2. answered[v] = {}
            BY <1>2, <3>2, <4>2, <5>1 DEF HeldSound, Progress
          <5>3. QED
            BY <5>2 DEF IdsSound, OutWithId
        <4>3. QED
          BY <4>1, <4>2
      <3>5. IdsSound(v)'
        BY <3>4 DEF IdsSound, OutWithId
      <3>6. v \notin byHand' => rows'[v].status = "scheduled"
        BY <3>2 DEF HeldSound
      <3>7. QED
        BY <3>3, <3>5, <3>6 DEF FreeSound
    <2>5. QED
      BY <2>2, <2>3, <2>4
  <1>12. QED
    BY <1>9, <1>10, <1>11 DEF SocialInv

\* A run that dies: the post in hand is a cause.
LEMMA DieKeeps ==
    ASSUME Social!PlatformsAreNamed, Social!RunsAreFinite,
           SocialTypes, SocialInv, NEW r \in Runs, Social!Die(r)
    PROVE  SocialTypes' /\ SocialInv'
  <1> DEFINE counted == run[r].at # "next"
  <1>1. /\ run[r].at # "idle" /\ run' = [run EXCEPT ![r] = Social!NoRun] /\ mishaps' \in Nat
        /\ causes' = IF counted THEN [causes EXCEPT ![run[r].post] = @ + 1] ELSE causes
        /\ UNCHANGED <<mode, rows, editor, sent, answered, lapsed, byHand>>
    BY DEF Social!Die, Social!Mishap, Social!config, SocialTypes
  <1>2. counted \in BOOLEAN /\ (counted <=> run[r].at # "next")
    OBVIOUS
  <1> HIDE DEF counted
  <1>3. QED
    BY <1>1, <1>2, RunEnds

\* A run that a missing SDK ends: the post in hand has a cause if other platforms had it.
LEMMA MissSdkKeeps ==
    ASSUME Social!PlatformsAreNamed, Social!RunsAreFinite,
           SocialTypes, SocialInv, NEW r \in Runs, Social!MissSdk(r)
    PROVE  SocialTypes' /\ SocialInv'
  <1> DEFINE counted == run[r].todo # rows[run[r].post].platforms
  <1>1. /\ run[r].at = "platforms" /\ run' = [run EXCEPT ![r] = Social!NoRun]
        /\ mishaps' \in Nat
        /\ causes' = IF counted THEN [causes EXCEPT ![run[r].post] = @ + 1] ELSE causes
        /\ UNCHANGED <<mode, rows, editor, sent, answered, lapsed, byHand>>
    BY DEF Social!MissSdk, Social!config, SocialTypes
  <1>2. counted \in BOOLEAN /\ (counted <=> run[r].todo # rows[run[r].post].platforms)
    OBVIOUS
  <1> HIDE DEF counted
  <1>3. QED
    BY <1>1, <1>2, RunEnds

\* A user's step: no run moves, only dates and statuses change, and a post that a user
\* schedules again has a cause.
LEMMA UserStepKeeps ==
    ASSUME Social!RunsAreFinite,
           SocialTypes, SocialTypes', SocialInv, 
           UNCHANGED <<mode, run, sent, answered, lapsed>>,
           byHand \subseteq byHand',
           \A p \in Posts :
               /\ rows'[p].platforms = rows[p].platforms /\ rows'[p].ids = rows[p].ids
               /\ p \notin byHand' => rows'[p].status = rows[p].status
               /\ causes'[p] \in {causes[p], causes[p] + 1}
               /\ rows'[p].status = "scheduled" /\ rows[p].status # "scheduled" =>
                     causes'[p] = causes[p] + 1
    PROVE  SocialInv'
  <1>1. ASSUME NEW p \in Posts, NEW f \in Platforms
        PROVE  One(Found(p, f)') + causes[p] <= One(Found(p, f)) + causes'[p]
    <2>1. causes[p] \in Nat /\ causes'[p] \in {causes[p], causes[p] + 1}
      BY DEF SocialTypes
    <2>2. Found(p, f)' => Found(p, f) \/ causes'[p] = causes[p] + 1
      BY DEF Found
    <2>3. QED
      BY <2>1, <2>2 DEF One
  <1>2. SendsArePaid'
    BY <1>1, PaidRest DEF SocialInv
  <1>3. ASSUME NEW p \in Posts
        PROVE  PostSound(p)'
    <2>1. PostSound(p) /\ causes[p] \in Nat
      BY DEF SocialInv, PostsAreSound, SocialTypes
    <2>2. causes'[p] = 0 => causes[p] = 0
      BY <2>1
    <2>3. QED
      BY <2>1, <2>2, PostKept
  <1>4. QED
    BY <1>2, <1>3 DEF SocialInv, PostsAreSound

\* A post falling due changes neither its status nor which run holds it.
LEMMA FallDueKeeps ==
    ASSUME Social!RunsAreFinite,
           SocialTypes, SocialInv, NEW p \in Posts, Social!FallDue(p)
    PROVE  SocialTypes' /\ SocialInv'
  <1>1. /\ rows' = [rows EXCEPT ![p].due = TRUE]
        /\ UNCHANGED <<mode, run, editor, mishaps, sent, answered, lapsed, causes, byHand>>
    BY DEF Social!FallDue, Social!config, Social!histories
  <1>2. rows' \in [Posts -> Social!Post]
        /\ \A v \in Posts : /\ rows'[v].platforms = rows[v].platforms
                            /\ rows'[v].ids = rows[v].ids /\ rows'[v].status = rows[v].status
    BY <1>1 DEF SocialTypes, Social!Post
  <1>3. SocialTypes'
    BY <1>1, <1>2 DEF SocialTypes
  <1>4. QED
    BY <1>1, <1>2, <1>3, UserStepKeeps

\* A user loads a post into the form; rows, runs and books stay.
LEMMA LoadPostKeeps ==
    ASSUME Social!ListsAreSelections, Social!RunsAreFinite,
           SocialTypes, SocialInv, NEW p \in Posts, Social!LoadPost(p)
    PROVE  SocialTypes' /\ SocialInv'
  <1>1. /\ editor' = [post |-> p, status |-> rows[p].status] /\ mishaps' = mishaps + 1
        /\ UNCHANGED <<mode, rows, run, sent, answered, lapsed, causes, byHand>>
    BY DEF Social!LoadPost, Social!Mishap, Social!config, Social!histories
  <1>2. editor' \in [post: Posts \cup {0}, status: Social!Statuses] /\ editor'.post \in Posts
    BY <1>1, RowFacts
  <1>3. SocialTypes'
    BY <1>1, <1>2 DEF SocialTypes
  <1>4. QED
    BY <1>1, <1>3, UserStepKeeps

\* What a user's request writes about the post it loaded.
LEMMA EditorWrites ==
    ASSUME Social!RunsAreFinite,
           SocialTypes, SocialInv, NEW p \in Posts, NEW row \in Social!Post,
           rows' = [rows EXCEPT ![p] = row], editor' = Social!NoEdit,
           UNCHANGED <<mode, run, mishaps, sent, answered, lapsed>>,
           row.platforms = rows[p].platforms, row.ids = rows[p].ids,
           \/ row.status = rows[p].status /\ UNCHANGED <<causes, byHand>>
           \/ Social!WrittenByHand(p, row.status)
    PROVE  SocialTypes' /\ SocialInv'
  <1>1. /\ byHand \subseteq byHand' /\ byHand' \subseteq Posts
        /\ p \notin byHand' => row.status = rows[p].status
    BY DEF Social!WrittenByHand, SocialTypes
  <1>2. /\ causes' \in [Posts -> Nat]
        /\ \A v \in Posts \ {p} : causes'[v] = causes[v]
        /\ causes'[p] \in {causes[p], causes[p] + 1}
        /\ row.status = "scheduled" /\ rows[p].status # "scheduled" =>
              causes'[p] = causes[p] + 1
    BY DEF Social!WrittenByHand, SocialTypes
  <1>3. /\ rows' \in [Posts -> Social!Post] /\ rows'[p] = row
        /\ \A v \in Posts \ {p} : rows'[v] = rows[v]
    BY DEF SocialTypes
  <1>4. Social!NoEdit \in [post: Posts \cup {0}, status: Social!Statuses]
    BY DEF Social!NoEdit, Social!Statuses
  <1>5. SocialTypes'
    BY <1>1, <1>2, <1>3, <1>4 DEF SocialTypes
  <1>6. ASSUME NEW v \in Posts
        PROVE  /\ rows'[v].platforms = rows[v].platforms /\ rows'[v].ids = rows[v].ids
               /\ v \notin byHand' => rows'[v].status = rows[v].status
               /\ causes'[v] \in {causes[v], causes[v] + 1}
               /\ rows'[v].status = "scheduled" /\ rows[v].status # "scheduled" =>
                     causes'[v] = causes[v] + 1
    BY <1>1, <1>2, <1>3
  <1>7. QED
    BY <1>1, <1>5, <1>6, UserStepKeeps

\* A user's save that schedules the post again is a cause, which pays for what the next
\* run sends.
LEMMA SavePostKeeps ==
    ASSUME Social!RunsAreFinite,
           SocialTypes, SocialInv, NEW status \in Social!Statuses, Social!SavePost(status)
    PROVE  SocialTypes' /\ SocialInv'
  <1>1. PICK p \in Posts : p = editor.post
    BY DEF Social!SavePost, SocialTypes
  <1> DEFINE writes == editor.status # "published" /\ status # editor.status
             new == IF writes THEN status ELSE rows[p].status
             row == [rows[p] EXCEPT !.due = FALSE, !.status = new]
  <1>2. /\ editor' = Social!NoEdit /\ UNCHANGED <<mode, run, mishaps, sent, answered, lapsed>>
        /\ IF writes THEN Social!WrittenByHand(p, status) ELSE UNCHANGED <<causes, byHand>>
    BY <1>1 DEF Social!SavePost, Social!config
  <1>3. rows' = [rows EXCEPT ![p].due = FALSE, ![p].status = IF writes THEN status ELSE @]
    BY <1>1 DEF Social!SavePost
  <1>4. rows[p] \in Social!Post /\ rows \in [Posts -> Social!Post]
    BY DEF SocialTypes
  <1>5. new \in Social!Statuses
    BY <1>4 DEF Social!Post
  <1>6. rows' = [rows EXCEPT ![p] = row]
    BY <1>3, <1>4
  <1>7. /\ IF writes THEN new = status ELSE new = rows[p].status
    OBVIOUS
  <1> HIDE DEF new
  <1>8. /\ row \in Social!Post /\ row.status = new /\ row.platforms = rows[p].platforms
        /\ row.ids = rows[p].ids
    BY <1>4, <1>5 DEF Social!Post
  <1> HIDE DEF row, writes
  <1>9. \/ row.status = rows[p].status /\ UNCHANGED <<causes, byHand>>
        \/ Social!WrittenByHand(p, row.status)
    BY <1>2, <1>7, <1>8
  <1>10. QED
    BY <1>2, <1>6, <1>8, <1>9, EditorWrites

\* The publish button marks the post published by hand, and sends nothing.
LEMMA PressPublishKeeps ==
    ASSUME Social!RunsAreFinite,
           SocialTypes, SocialInv, Social!PressPublish
    PROVE  SocialTypes' /\ SocialInv'
  <1>1. PICK p \in Posts : p = editor.post
    BY DEF Social!PressPublish, SocialTypes
  <1> DEFINE row == [rows[p] EXCEPT !.status = "published"]
  <1>2. /\ editor' = Social!NoEdit /\ UNCHANGED <<mode, run, mishaps, sent, answered, lapsed>>
        /\ Social!WrittenByHand(p, "published")
        /\ rows' = [rows EXCEPT ![p].status = "published"]
    BY <1>1 DEF Social!PressPublish, Social!config
  <1>3. rows[p] \in Social!Post /\ rows \in [Posts -> Social!Post]
    BY DEF SocialTypes
  <1>4. rows' = [rows EXCEPT ![p] = row]
    BY <1>2, <1>3
  <1>5. /\ row \in Social!Post /\ row.status = "published" /\ row.platforms = rows[p].platforms
        /\ row.ids = rows[p].ids
    BY <1>3 DEF Social!Post, Social!Statuses
  <1> HIDE DEF row
  <1>6. QED
    BY <1>2, <1>4, <1>5, EditorWrites

\* A publish that fails leaves rows and runs as they were.
LEMMA PressFailsKeeps ==
    ASSUME Social!RunsAreFinite,
           SocialTypes, SocialInv, Social!PressFails
    PROVE  SocialTypes' /\ SocialInv'
  <1>1. /\ editor' = Social!NoEdit
        /\ UNCHANGED <<mode, rows, run, mishaps, sent, answered, lapsed, causes, byHand>>
    BY DEF Social!PressFails, Social!config, Social!histories
  <1>2. Social!NoEdit \in [post: Posts \cup {0}, status: Social!Statuses]
    BY DEF Social!NoEdit, Social!Statuses
  <1>3. SocialTypes'
    BY <1>1, <1>2 DEF SocialTypes
  <1>4. QED
    BY <1>1, <1>3, UserStepKeeps

-------------------------------------------------------------------------------
\* At the start every post is to be found, and nothing has gone out.
LEMMA SocialInit ==
    ASSUME Social!SetupsAreSetups
    PROVE  Social!Init => SocialTypes /\ SocialInv
  <1> SUFFICES ASSUME Social!Init
               PROVE  SocialTypes /\ SocialInv
    OBVIOUS
  <1>1. HeldIn(Social!NoRun) = {} /\ (\A v, f : ~MaySend(Social!NoRun, v, f))
    BY DEF Social!NoRun, HeldIn, InHand, MaySend
  <1>2. SoundRun(Social!NoRun)
    <2>1. <<>> \in [{} -> SUBSET Ids]
      OBVIOUS
    <2>2. Social!NoRun \in RunStates
      BY <2>1, NothingLeft DEF Social!NoRun, RunStates, Social!Places
    <2>3. QED
      BY <1>1, <2>1, <2>2, NothingLeft DEF SoundRun, Social!NoRun
  <1>3. run \in [Runs -> RunStates] /\ \A r \in Runs : run[r] = Social!NoRun
    BY <1>2 DEF Social!Init, SoundRun
  <1>4. /\ rows \in [Posts -> Social!Post]
        /\ \A p \in Posts : rows[p].status = "scheduled"
    BY DEF Social!Init, Social!Post, Social!Statuses
  <1>5. /\ mode \in {"fallback", "preferred", "zernio"}
        /\ editor \in [post: Posts \cup {0}, status: Social!Statuses] /\ editor = Social!NoEdit
        /\ mishaps \in Nat /\ byHand = {} /\ lapsed = {}
    BY DEF Social!SetupsAreSetups, Social!Init, Social!NoEdit, Social!Statuses
  <1>6. /\ sent \in [Posts -> [Platforms -> Nat]] /\ \A p \in Posts, f \in Platforms : sent[p][f] = 0
        /\ answered \in [Posts -> SUBSET Platforms] /\ \A p \in Posts : answered[p] = {}
        /\ causes \in [Posts -> Nat] /\ \A p \in Posts : causes[p] = 0
    BY DEF Social!Init
  <1>7. SocialTypes
    BY <1>2, <1>3, <1>4, <1>5, <1>6 DEF SocialTypes
  <1>8. SendsArePaid
    <2> SUFFICES ASSUME NEW p \in Posts, NEW f \in Platforms
                 PROVE  sent[p][f] + Cardinality(Senders(p, f)) + One(Found(p, f))
                          <= 1 + causes[p]
      BY DEF SendsArePaid
    <2>1. Senders(p, f) = {}
      BY <1>1, <1>3 DEF Senders
    <2>2. Cardinality(Senders(p, f)) = 0
      BY <2>1, FS_EmptySet
    <2>3. QED
      BY <1>6, <2>2 DEF One
  <1>9. PostsAreSound
    <2> SUFFICES ASSUME NEW p \in Posts
                 PROVE  FreeSound(p) /\ \A r \in Runs : p \notin HeldIn(run[r])
      BY DEF PostsAreSound, PostSound
    <2>1. OutWithId(p) = {}
      BY <1>6 DEF OutWithId
    <2>2. QED
      BY <1>1, <1>3, <1>4, <2>1 DEF FreeSound, IdsSound
  <1>10. QED
    BY <1>7, <1>8, <1>9 DEF SocialInv

\* Every step of posts and runs keeps type and invariant.
LEMMA SocialStep ==
    ASSUME Social!PostsAreIds, Social!PlatformsAreNamed, Social!ListsAreSelections,
       Social!RunsAreFinite, Social!BoundsAreNats,
           SocialTypes, SocialInv, [Social!Next]_(Social!vars)
    PROVE  SocialTypes' /\ SocialInv'
  <1>1. CASE UNCHANGED Social!vars
    <2>1. UNCHANGED <<mode, rows, run, editor, mishaps, sent, answered, lapsed, causes, byHand>>
      BY <1>1 DEF Social!vars, Social!config, Social!histories
    <2>2. SocialTypes'
      BY <2>1 DEF SocialTypes
    <2>3. QED
      BY <2>1, <2>2, UserStepKeeps
  <1>2. ASSUME NEW p \in Posts, Social!FallDue(p)
        PROVE  SocialTypes' /\ SocialInv'
    BY <1>2, FallDueKeeps
  <1>3. ASSUME NEW r \in Runs, Social!RunStep(r)
        PROVE  SocialTypes' /\ SocialInv'
    BY <1>3, StartRunKeeps, NextPostKeeps, PublishByZernioKeeps, PublishOnKeeps,
       MissSdkKeeps, RecordZernioKeeps, RecordIdKeeps, SaveFailsKeeps, CloseKeeps
       DEF Social!RunStep
  <1>4. ASSUME NEW r \in Runs, Social!Die(r)
        PROVE  SocialTypes' /\ SocialInv'
    BY <1>4, DieKeeps
  <1>5. CASE Social!UserStep
    BY <1>5, LoadPostKeeps, SavePostKeeps, PressPublishKeeps,
       PressFailsKeeps DEF Social!UserStep
  <1>6. QED
    BY <1>1, <1>2, <1>3, <1>4, <1>5 DEF Social!Next, Social!AtBound

\* Type and invariant hold throughout.
LEMMA SocialInvariant ==
    ASSUME Social!PostsAreIds, Social!PlatformsAreNamed, Social!ListsAreSelections,
       Social!SetupsAreSetups, Social!RunsAreFinite, Social!BoundsAreNats
    PROVE  Social!Spec => [](SocialTypes /\ SocialInv)
  <1>1. QED
    BY SocialInit, SocialStep, PTL DEF Social!Spec

\* A post goes out twice on a platform only if something caused it: a run that overlaps
\* another, a death, a lost answer, a publication by Zernio whose save fails, an SDK that is
\* missing behind other platforms, or a user who schedules it again.
THEOREM SocialRepeats ==
    ASSUME Social!PostsAreIds, Social!PlatformsAreNamed, Social!ListsAreSelections,
       Social!SetupsAreSetups, Social!RunsAreFinite, Social!BoundsAreNats
    PROVE  Social!Spec => []Social!RepeatsNeedACause
  <1>1. SocialTypes /\ SocialInv => Social!RepeatsNeedACause
    <2> SUFFICES ASSUME SocialTypes, SocialInv, NEW p \in Posts, NEW f \in Platforms
                 PROVE  sent[p][f] <= 1 + causes[p]
      BY DEF Social!RepeatsNeedACause
    <2>1. sent[p][f] + Cardinality(Senders(p, f)) + One(Found(p, f)) <= 1 + causes[p]
      BY DEF SocialInv, SendsArePaid
    <2>2. Cardinality(Senders(p, f)) \in Nat
      BY RunsFinite, FS_Subset, FS_CardinalityType DEF Senders
    <2>3. sent[p][f] \in Nat /\ causes[p] \in Nat /\ One(Found(p, f)) \in Nat
      BY DEF SocialTypes, One
    <2>4. QED
      BY <2>1, <2>2, <2>3
  <1>2. QED
    BY <1>1, SocialInvariant, PTL

\* The status of a post that nobody wrote or ran over tells whether every platform went
\* without an exception and every save came through.
THEOREM SocialStatus ==
    ASSUME Social!PostsAreIds, Social!PlatformsAreNamed, Social!ListsAreSelections,
       Social!SetupsAreSetups, Social!RunsAreFinite, Social!BoundsAreNats
    PROVE  Social!Spec => []Social!StatusTellsOutcome
  <1>1. SocialTypes /\ SocialInv => Social!StatusTellsOutcome
    <2> SUFFICES ASSUME SocialTypes, SocialInv, NEW p \in Posts \ byHand, causes[p] = 0
                 PROVE  /\ rows[p].status = "published" => WentWell(p)
                        /\ rows[p].status = "failed" => ~WentWell(p)
      BY DEF Social!StatusTellsOutcome, WentWell
    <2>1. PostSound(p)
      BY DEF SocialInv, PostsAreSound
    <2>2. CASE Unheld(p)
      BY <2>1, <2>2 DEF PostSound, FreeSound
    <2>3. CASE ~Unheld(p)
      BY <2>1, <2>3 DEF PostSound, HeldSound, Unheld
    <2>4. QED
      BY <2>2, <2>3
  <1>2. QED
    BY <1>1, SocialInvariant, PTL

\* The ids that platforms returned for such a post are all kept.
THEOREM SocialIds ==
    ASSUME Social!PostsAreIds, Social!PlatformsAreNamed, Social!ListsAreSelections,
       Social!SetupsAreSetups, Social!RunsAreFinite, Social!BoundsAreNats
    PROVE  Social!Spec => []Social!IdsAreKept
  <1>1. SocialTypes /\ SocialInv => Social!IdsAreKept
    <2> SUFFICES ASSUME SocialTypes, SocialInv, NEW p \in Posts, causes[p] = 0,
                        Zernio \notin rows[p].ids, \A r \in Runs : p \notin Social!Held(r)
                 PROVE  {f \in WithId \cap answered[p] : sent[p][f] > 0} \subseteq rows[p].ids
      BY DEF Social!IdsAreKept
    <2>1. PostSound(p) /\ Unheld(p)
      BY DEF SocialInv, PostsAreSound, Unheld, Social!Held, HeldIn
    <2>2. QED
      BY <2>1 DEF PostSound, FreeSound, IdsSound, OutWithId
  <1>2. QED
    BY <1>1, SocialInvariant, PTL
=================================================================================
