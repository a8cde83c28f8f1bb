------------------------------ MODULE SocialPosts ------------------------------
(***************************************************************************)
(* Scheduled social media posts: the command that runs every minute and    *)
(* publishes what is due, through Zernio or platform by platform, and the  *)
(* users who edit a post or press its publish button meanwhile.  A run     *)
(* claims nothing: the next one may start before it ends.                  *)
(***************************************************************************)
EXTENDS Integers, Sequences, FiniteSets, FiniteSetsExt, Functions

CONSTANTS
    Posts,      \* the primary keys of the posts
    Platforms,  \* the platforms of direct publication
    Lists,      \* the arrays of platforms a post may hold
    WithId,     \* those whose answer holds an id that is stored (facebook, youtube)
    ByButton,   \* those the publish button has a case for (facebook, linkedin)
    Zernio,     \* the key of Zernio's id among the stored ids
    Setups,     \* the configurations: services.zernio.mode, and the platforms whose SDK
                \* is not installed, so that their service cannot be constructed
    Retries,    \* how often the Zernio client repeats a call that was not answered
    Runs,       \* runs of the command, started again and again
    MaxMishaps, \* bound on how often a run dies or one of its saves fails, a user saves a
                \* post or presses the button
    MaxCauses   \* bound on the passes that end by a missing SDK after something went out

ASSUME PostsAreIds == Posts \subseteq Nat /\ IsFiniteSet(Posts)
\* A run is at one of these places, or at the platform whose id it is to record.
Places == {"idle", "next", "zernio", "record zernio", "platforms", "close"}

ASSUME PlatformsAreNamed ==
    /\ WithId \cup ByButton \subseteq Platforms
    /\ Zernio \notin Platforms
    /\ Platforms \cap Places = {}

\* The form requires a platform and offers each of them once.
ASSUME ListsAreSelections ==
    \A list \in Lists : list \in Seq(Platforms) /\ list # <<>> /\ IsInjective(list)
ASSUME SetupsAreSetups ==
    Setups \subseteq {"fallback", "preferred", "zernio"} \X SUBSET Platforms
ASSUME RunsAreFinite == IsFiniteSet(Runs)
ASSUME BoundsAreNats == Retries \in Nat /\ MaxMishaps \in Nat /\ MaxCauses \in Nat

Statuses == {"draft", "scheduled", "published", "failed"}

\* due stands for scheduled_at <= now.
Post == [status: Statuses, due: BOOLEAN, platforms: Lists,
         ids: SUBSET (Platforms \cup {Zernio})]

\* A run at rest.  queue are the posts it fetched and has not come to, post is the
\* one at hand, todo its platforms that are left, ids[p] the ids its copy of p holds.
\* status is that of the copy at hand, was the one it loaded or saved last; unsaved says
\* that it holds ids a save failed to write.
NoRun == [at |-> "idle", queue |-> {}, post |-> 0, todo |-> <<>>, ok |-> TRUE, ids |-> <<>>,
          status |-> "scheduled", was |-> "scheduled", unsaved |-> FALSE]

VARIABLES
    mode,       \* services.zernio.mode
    missing,    \* the platforms whose SDK is missing
    rows,       \* the table social_media_posts
    run,        \* run[r]: how far run r has got
    editor,     \* the post a user's request holds, with the status it loaded
    mishaps,    \* how many of the bounded events there were
    sent,       \* history: sent[p][f]: how often p went out on platform f
    answered,   \* history: the platforms that raised nothing for p
    lapsed,     \* history: the posts of which a save failed while they were published
    causes,     \* history: causes[p]: what may send p once more: a run that starts
                \* while another holds p, or dies on it, or ends by a missing SDK among
                \* its platforms; an answer that is lost; a publication by Zernio that
                \* is not recorded; a user who schedules it again
    byHand      \* history: the posts whose status a user wrote

config == <<mode, missing>>
histories == <<sent, answered, lapsed, causes, byHand>>
vars == <<config, rows, run, editor, mishaps, histories>>

NoEdit == [post |-> 0, status |-> "draft"]

Init ==
    /\ \E setup \in Setups : mode = setup[1] /\ missing = setup[2]
    /\ rows \in [Posts -> [status: {"scheduled"}, due: {FALSE}, platforms: Lists, ids: {{}}]]
    /\ run = [r \in Runs |-> NoRun]
    /\ editor = NoEdit
    /\ mishaps = 0
    /\ sent = [p \in Posts |-> [f \in Platforms |-> 0]]
    /\ answered = [p \in Posts |-> {}]
    /\ lapsed = {}
    /\ causes = [p \in Posts |-> 0]
    /\ byHand = {}

\* One of the bounded events.
Mishap == mishaps < MaxMishaps /\ mishaps' = mishaps + 1

\* The time a post is scheduled for comes.
FallDue(p) ==
    /\ ~rows[p].due
    /\ rows' = [rows EXCEPT ![p].due = TRUE]
    /\ UNCHANGED <<config, run, editor, mishaps, histories>>

-------------------------------------------------------------------------------
(* The command *)

IsDue(p) == rows[p].status = "scheduled" /\ rows[p].due


DuePosts == {p \in Posts : IsDue(p)}

\* The posts run r has fetched and not settled.
Held(r) == run[r].queue \cup (IF run[r].at \in {"idle", "next"} THEN {} ELSE {run[r].post})

\* get(): the posts that are due, once, with their attributes.  A run that finds
\* none is over.
StartRun(r) ==
    /\ run[r].at = "idle"
    /\ run' = [run EXCEPT ![r] =
          [NoRun EXCEPT !.at = IF DuePosts = {} THEN "idle" ELSE "next", !.queue = DuePosts,
                        !.ids = [p \in DuePosts |-> rows[p].ids]]]
    /\ causes' = [p \in Posts |->
          IF p \in DuePosts /\ \E q \in Runs : p \in Held(q) THEN causes[p] + 1 ELSE causes[p]]
    /\ UNCHANGED <<config, rows, editor, mishaps, sent, answered, lapsed, byHand>>

\* Run r is done with a post: it goes on with the copies still in its queue, or it
\* is over.
Rest(r) == [NoRun EXCEPT !.at = IF run[r].queue = {} THEN "idle" ELSE "next",
                         !.queue = run[r].queue,
                         !.ids = [p \in run[r].queue |-> run[r].ids[p]]]

\* The next post: Zernio if the mode asks for it and the accounts are there.
NextPost(r, canPublish) ==
    LET p == Min(run[r].queue)
        zernio == mode # "fallback" /\ canPublish
    IN
    /\ run[r].at = "next"
    /\ run' = [run EXCEPT ![r] =
          [@ EXCEPT !.queue = run[r].queue \ {p}, !.post = p, !.todo = rows[p].platforms,
                    !.ok = zernio \/ mode # "zernio",
                    !.status = "scheduled", !.was = "scheduled", !.unsaved = FALSE,
                    !.at = IF zernio THEN "zernio"
                           ELSE IF mode = "zernio" THEN "close" ELSE "platforms"]]
    /\ answered' = [answered EXCEPT ![p] = {}]
    /\ lapsed' = lapsed \ {p}
    /\ UNCHANGED <<config, rows, editor, mishaps, sent, causes, byHand>>

\* What a call may come to: it went out and was answered; it did not go out and
\* nobody noticed (no account, no video, or an error answer that is not looked
\* at); it was refused; it went out and the answer was lost.
Outcomes == {"accepted", "ignored", "refused", "lost"}
Out(outcome) == outcome \in {"accepted", "lost"}
Raises(outcome) == outcome \in {"refused", "lost"}

\* History: p goes out on the platforms fs, n times.
Sent(p, fs, n) == [sent EXCEPT ![p] = [f \in Platforms |-> IF f \in fs THEN @[f] + n ELSE @[f]]]

\* One call publishes on all platforms; the client repeats it while its answer is
\* lost.  Its failure fails the post in mode zernio, and leads to the direct
\* providers otherwise.
PublishByZernio(r, repeats, outcome) ==
    LET p == run[r].post
        all == Range(run[r].todo)
    IN
    /\ run[r].at = "zernio"
    /\ outcome # "ignored"
    /\ sent' = Sent(p, all, repeats + (IF Out(outcome) THEN 1 ELSE 0))
    /\ causes' = [causes EXCEPT ![p] = @ + repeats + (IF outcome = "lost" THEN 1 ELSE 0)]
    /\ answered' = IF Raises(outcome) THEN answered ELSE [answered EXCEPT ![p] = all]
    /\ run' = [run EXCEPT ![r].at = IF ~Raises(outcome) THEN "record zernio"
                                    ELSE IF mode = "zernio" THEN "close" ELSE "platforms",
                          ![r].ok = ~Raises(outcome) \/ mode # "zernio"]
    /\ UNCHANGED <<config, rows, editor, mishaps, lapsed, byHand>>

\* update(['platform_post_ids' => ..., 'status' => published])
RecordZernio(r) ==
    LET p == run[r].post IN
    /\ run[r].at = "record zernio"
    /\ rows' = [rows EXCEPT ![p].ids = run[r].ids[p] \cup {Zernio},
                            ![p].status = "published"]
    /\ run' = [run EXCEPT ![r] = Rest(r)]
    /\ UNCHANGED <<config, editor, mishaps, histories>>

\* The update throws and is taken for a failure of Zernio: the post is failed, or goes
\* out again through the direct providers.  The copy keeps what it could not save.
RecordZernioFails(r) ==
    LET p == run[r].post IN
    /\ run[r].at = "record zernio"
    /\ Mishap
    /\ run' = [run EXCEPT ![r].ids[p] = @ \cup {Zernio}, ![r].unsaved = TRUE,
                          ![r].status = "published",
                          ![r].ok = mode # "zernio",
                          ![r].at = IF mode = "zernio" THEN "close" ELSE "platforms"]
    /\ lapsed' = lapsed \cup {p}
    /\ causes' = IF mode = "zernio" THEN causes ELSE [causes EXCEPT ![p] = @ + 1]
    /\ UNCHANGED <<config, rows, editor, sent, answered, byHand>>

\* Mutant of Verdict: only the last platform counts.
LastVerdict(ok, outcome) == ~Raises(outcome)

\* $allSucceeded after one more platform.
Verdict(ok, outcome) == ok /\ ~Raises(outcome)

\* publishToPlatform(): the call.
PublishOn(r, outcome) ==
    LET p == run[r].post
        f == Head(run[r].todo)
    IN
    /\ run[r].at = "platforms"
    /\ run[r].todo # <<>>
    /\ f \notin missing
    /\ sent' = Sent(p, {f}, IF Out(outcome) THEN 1 ELSE 0)
    /\ answered' = IF Raises(outcome) THEN answered ELSE [answered EXCEPT ![p] = @ \cup {f}]
    /\ run' = [run EXCEPT ![r].todo = Tail(@),
                          ![r].ok = Verdict(@, outcome),
                          ![r].at = IF f \in WithId /\ outcome = "accepted" THEN f ELSE @]
    /\ UNCHANGED <<config, rows, editor, mishaps, lapsed, causes, byHand>>

\* The service of the platform cannot be constructed: an Error, which no handler of the
\* command catches, ends the run.
MissSdk(r) ==
    LET p == run[r].post
        begun == run[r].todo # rows[p].platforms
    IN
    /\ run[r].at = "platforms"
    /\ run[r].todo # <<>>
    /\ Head(run[r].todo) \in missing
    /\ begun => causes[p] < MaxCauses
    /\ run' = [run EXCEPT ![r] = NoRun]
    /\ causes' = IF begun THEN [causes EXCEPT ![p] = @ + 1] ELSE causes
    /\ UNCHANGED <<config, rows, editor, mishaps, sent, answered, lapsed, byHand>>

\* Mutant of IdsWith: the new id replaces the others.
IdsWithout(ids, f) == {f}

IdsWith(ids, f) == ids \cup {f}

\* The row after a save of the copy x of post p: it writes the attributes that differ from
\* those it loaded or saved last.
Saved(x, p) ==
    [rows[p] EXCEPT !.ids = IF x.unsaved THEN x.ids[p] ELSE @,
                    !.status = IF x.status # x.was THEN x.status ELSE @]

\* The id the call returned joins those of the copy; the column is written whole.
RecordId(r) ==
    LET p == run[r].post
        x == [run[r] EXCEPT !.ids[p] = IdsWith(@, run[r].at), !.unsaved = TRUE]
    IN
    /\ run[r].at \in WithId
    /\ rows' = [rows EXCEPT ![p] = Saved(x, p)]
    /\ run' = [run EXCEPT ![r] = [x EXCEPT !.at = "platforms", !.unsaved = FALSE,
                                          !.was = x.status]]
    /\ UNCHANGED <<config, editor, mishaps, histories>>

\* The save throws and is taken for a failure of the platform; the copy keeps the id.
RecordIdFails(r) ==
    LET p == run[r].post IN
    /\ run[r].at \in WithId
    /\ Mishap
    /\ run' = [run EXCEPT ![r].ids[p] = IdsWith(@, run[r].at), ![r].unsaved = TRUE,
                          ![r].at = "platforms", ![r].ok = FALSE]
    /\ lapsed' = lapsed \cup {p}
    /\ UNCHANGED <<config, rows, editor, sent, answered, causes, byHand>>

\* Mutant of Settled: a failed post stays scheduled.
SettledIfPublished(ok) == IF ok THEN "published" ELSE "scheduled"

Settled(ok) == IF ok THEN "published" ELSE "failed"

\* markAsPublished() or markAsFailed(): unless the copy saved that status before, it is
\* written whatever the status has become, with the ids that are unsaved.
Close(r) ==
    LET p == run[r].post
        x == [run[r] EXCEPT !.status = Settled(run[r].ok)]
    IN
    /\ \/ run[r].at = "close"
       \/ run[r].at = "platforms" /\ run[r].todo = <<>>
    /\ rows' = [rows EXCEPT ![p] = Saved(x, p)]
    /\ run' = [run EXCEPT ![r] = Rest(r)]
    /\ UNCHANGED <<config, editor, mishaps, histories>>

\* The process dies, or something throws that the handlers do not catch: the closing save,
\* a call that looks accounts up.
Die(r) ==
    /\ run[r].at # "idle"
    /\ Mishap
    /\ run' = [run EXCEPT ![r] = NoRun]
    /\ causes' = IF run[r].at = "next" THEN causes ELSE [causes EXCEPT ![run[r].post] = @ + 1]
    /\ UNCHANGED <<config, rows, editor, sent, answered, lapsed, byHand>>

-------------------------------------------------------------------------------
(* Users *)

\* A request of a user loads the post it is about to write.
LoadPost(p) ==
    /\ editor = NoEdit
    /\ Mishap
    /\ editor' = [post |-> p, status |-> rows[p].status]
    /\ UNCHANGED <<config, rows, run, histories>>

\* History: a user writes the status of p.
WrittenByHand(p, status) ==
    /\ byHand' = byHand \cup {p}
    /\ causes' = IF status = "scheduled" /\ rows[p].status # "scheduled"
                 THEN [causes EXCEPT ![p] = @ + 1] ELSE causes

\* The edit form: the date must lie ahead, and the status is disabled once the
\* post is published.  Only attributes that differ from the loaded ones are
\* written.
SavePost(status) ==
    LET p == editor.post
        writes == editor.status # "published" /\ status # editor.status
    IN
    /\ editor # NoEdit
    /\ rows' = [rows EXCEPT ![p].due = FALSE, ![p].status = IF writes THEN status ELSE @]
    /\ IF writes THEN WrittenByHand(p, status) ELSE UNCHANGED <<causes, byHand>>
    /\ editor' = NoEdit
    /\ UNCHANGED <<config, run, mishaps, sent, answered, lapsed>>

\* The publish button of a scheduled post: it marks the post published and has no
\* case that sends it.
PressPublish ==
    LET p == editor.post IN
    /\ editor # NoEdit
    /\ editor.status = "scheduled"
    /\ Range(rows[editor.post].platforms) \cap ByButton = {}
    /\ rows' = [rows EXCEPT ![p].status = "published"]
    /\ WrittenByHand(p, "published")
    /\ editor' = NoEdit
    /\ UNCHANGED <<config, run, mishaps, sent, answered, lapsed>>

\* The button's cases for facebook and linkedin read an account the post does not
\* have, and the request fails.
PressFails ==
    /\ editor # NoEdit
    /\ editor.status = "scheduled"
    /\ Range(rows[editor.post].platforms) \cap ByButton # {}
    /\ editor' = NoEdit
    /\ UNCHANGED <<config, rows, run, mishaps, histories>>

-------------------------------------------------------------------------------
RunStep(r) ==
    \/ StartRun(r)
    \/ \E b \in BOOLEAN : NextPost(r, b)
    \/ \E n \in 0..Retries, o \in Outcomes : PublishByZernio(r, n, o)
    \/ \E o \in Outcomes : PublishOn(r, o)
    \/ MissSdk(r)
    \/ RecordZernio(r) \/ RecordZernioFails(r)
    \/ RecordId(r) \/ RecordIdFails(r)
    \/ Close(r)

UserStep ==
    \/ \E p \in Posts : LoadPost(p)
    \/ \E s \in Statuses : SavePost(s)
    \/ PressPublish
    \/ PressFails

\* The model stops at its bound.
AtBound == \E p \in Posts : causes[p] >= MaxCauses /\ UNCHANGED vars

Next ==
    \/ \E p \in Posts : FallDue(p)
    \/ \E r \in Runs : RunStep(r) \/ Die(r)
    \/ UserStep
    \/ AtBound

Spec == Init /\ [][Next]_vars

\* The scheduler starts the command every minute, and the runs that do not die go
\* on.
FairSpec == Spec /\ WF_vars(\E r \in Runs : RunStep(r))

-------------------------------------------------------------------------------

\* A post never goes out twice on a platform without a cause: each repetition is paid for
\* by an overlapping run, a death, a lost answer, a publication by Zernio that could not
\* be recorded, a missing SDK after other platforms, or a user who schedules the post
\* again, and each of these costs one repetition at most.
RepeatsNeedACause == \A p \in Posts, f \in Platforms : sent[p][f] <= 1 + causes[p]

\* A post nobody else wrote or ran over is published only if every platform went without
\* an exception and everything was saved, and failed only if not: a failed save makes it
\* failed though it may be out everywhere.
StatusTellsOutcome ==
    \A p \in Posts \ byHand : causes[p] = 0 =>
        LET allWentWell == answered[p] = Range(rows[p].platforms) /\ p \notin lapsed
        IN  /\ rows[p].status = "published" => allWentWell
            /\ rows[p].status = "failed" => ~allWentWell

\* Once nobody is at work on a post, the ids its platforms returned are all kept,
\* though each write replaces the column and some may fail: analytics find every post
\* that is out.
IdsAreKept ==
    \A p \in Posts :
        causes[p] = 0 /\ Zernio \notin rows[p].ids /\ (\A r \in Runs : p \notin Held(r)) =>
            {f \in WithId \cap answered[p] : sent[p][f] > 0} \subseteq rows[p].ids

\* The direct providers cannot get through the platforms of q.
Stuck(q) == mode # "zernio" /\ Range(rows[q].platforms) \cap missing # {}

===============================================================================
