------------------------------- MODULE Poller -------------------------------
(***************************************************************************)
(* The Twitter poller, src/internal/twitter/poller/poller.go.              *)
(*                                                                         *)
(* One goroutine walks the list of followed users, one user per tick, asks *)
(* Twitter for the page of tweets newer than the user's cursor, reads the  *)
(* user's followers once per tweet and enqueues one task per follower.     *)
(* Every call it makes is a step of its own: tweets are posted, actors     *)
(* follow and unfollow (the inbox handlers), calls fail and the process    *)
(* dies between any two of them.                                           *)
(*                                                                         *)
(* Tweets of a user are numbered 1, 2, ... in the order they are posted,   *)
(* so the tweets newer than an id are the larger numbers; replies, which   *)
(* the request excludes, are not numbered.                                 *)
(***************************************************************************)
EXTENDS Naturals, Sequences, FiniteSets, Functions

CONSTANTS
    Users,      \* the Twitter users of the users table
    Actors,     \* the remote actors that may follow them
    MaxPosts,   \* bound: tweets posted per user
    MaxPage,    \* MaxResults of a timeline request (100 in the code)
    MaxFaults   \* bound: failed calls while a given user is polled

ASSUME MaxPostsAssumption == MaxPosts \in Nat
ASSUME MaxPageAssumption == MaxPage \in Nat \ {0}
ASSUME MaxFaultsAssumption == MaxFaults \in Nat
ASSUME FiniteAssumption == IsFiniteSet(Users) /\ IsFiniteSet(Actors)

VARIABLES
    \* the poller's own state: lost when the process dies
    pc,             \* the call the goroutine is about to make
    users,          \* the list being walked, one entry per (user, follower)
    userIndex,      \* position in the list, from 0 as in Go
    userCursors,    \* newest tweet handled per user, or NoCursor
    startTime,      \* the last tweet each user had posted at the start time
    batch,          \* the page in hand and the tweet of it being handled
    todo,           \* followers read for that tweet and not yet enqueued
    \* the world around it: Twitter, the database, the task queue
    posted,         \* how many tweets each user has posted
    follows,        \* the followers table: (user, actor) pairs
    queue,          \* how many send-tweet tasks were enqueued for each task
    \* history, read by the properties only
    followedAt,     \* posted[u] when the follow was stored
    skipped,        \* tweets that fell off a full page
    aborted,        \* failed calls while polling each user
    late            \* tasks enqueued for an actor since it unfollowed

pollerVars == <<pc, users, userIndex, userCursors, startTime, batch, todo>>
worldVars == <<posted, follows, queue>>
historyVars == <<followedAt, skipped, aborted, late>>
vars == <<pollerVars, worldVars, historyVars>>

Tweets == 1..MaxPosts
Tasks == Users \X Tweets \X Actors
NoCursor == 0
NoBatch == [oldest |-> 0, next |-> 0, newest |-> 0]

PollingStates == {"tick", "refresh", "fetch", "followers", "enqueue"}
States == {"down", "starting", "armed"} \cup PollingStates

\* GetWithFollowers joins users with followers and does not deduplicate: the
\* list has one entry per pair, in an order the query leaves open.
UserLists(F) ==
    {[i \in 1..Cardinality(F) |-> row[i][1]] :
        row \in Bijection(1..Cardinality(F), F)}

user == users[userIndex + 1]

\* Mutant of Since: the cursor is not sent.
AlwaysFromStart(u) == startTime[u]

\* The id (or start time) after which tweets of u are asked for.
Since(u) ==
    IF userCursors[u] # NoCursor THEN userCursors[u] ELSE startTime[u]

\* The oldest tweet of the page Twitter answers: the newest MaxPage ones.
PageStart(u) ==
    IF posted[u] > Since(u) + MaxPage
    THEN posted[u] - MaxPage + 1
    ELSE Since(u) + 1

-----------------------------------------------------------------------------
Init ==
    /\ pc = "down"
    /\ users = <<>>
    /\ userIndex = 0
    /\ userCursors = [u \in Users |-> NoCursor]
    /\ startTime = [u \in Users |-> 0]
    /\ batch = NoBatch
    /\ todo = {}
    /\ posted = [u \in Users |-> 0]
    /\ follows = {}
    /\ queue = [t \in Tasks |-> 0]
    /\ followedAt = [p \in Users \X Actors |-> 0]
    /\ skipped = [u \in Users |-> {}]
    /\ aborted = [u \in Users |-> 0]
    /\ late = [p \in Users \X Actors |-> 0]

-----------------------------------------------------------------------------
(* The environment. *)

\* A user posts a tweet on Twitter.
Post(u) ==
    /\ posted[u] < MaxPosts
    /\ posted' = [posted EXCEPT ![u] = @ + 1]
    /\ UNCHANGED <<pollerVars, follows, queue, historyVars>>

\* The inbox stores a follow.
Follow(u, a) ==
    /\ <<u, a>> \notin follows
    /\ follows' = follows \cup {<<u, a>>}
    /\ followedAt' = [followedAt EXCEPT ![<<u, a>>] = posted[u]]
    /\ late' = [late EXCEPT ![<<u, a>>] = 0]
    /\ UNCHANGED <<pollerVars, posted, queue, skipped, aborted>>

\* The inbox deletes a follow.
UnFollow(u, a) ==
    /\ <<u, a>> \in follows
    /\ follows' = follows \ {<<u, a>>}
    /\ late' = [late EXCEPT ![<<u, a>>] = 0]
    /\ UNCHANGED <<pollerVars, posted, queue, followedAt, skipped, aborted>>

-----------------------------------------------------------------------------
(* Start: wait for a first user to poll, then take the start time. *)

\* main builds a poller and calls Start.
StartProcess ==
    /\ pc = "down"
    /\ pc' = "starting"
    /\ UNCHANGED <<users, userIndex, userCursors, startTime, batch, todo,
                   worldVars, historyVars>>

\* The list is read until it is not empty.
StartRefresh ==
    /\ pc = "starting"
    /\ \E list \in UserLists(follows) :
        /\ users' = list
        /\ pc' = IF list = <<>> THEN "starting" ELSE "armed"
    /\ UNCHANGED <<userIndex, userCursors, startTime, batch, todo,
                   worldVars, historyVars>>

\* Mutant of BeginPolling: the start time excludes the next tweet too.
BeginPollingLate ==
    /\ pc = "armed"
    /\ pc' = "tick"
    /\ startTime' = [u \in Users |-> posted[u] + 1]
    /\ UNCHANGED <<users, userIndex, userCursors, batch, todo,
                   worldVars, historyVars>>

\* The ticker is created and the start time taken, up to five seconds after
\* the list was read.
BeginPolling ==
    /\ pc = "armed"
    /\ pc' = "tick"
    /\ startTime' = posted
    /\ UNCHANGED <<users, userIndex, userCursors, batch, todo,
                   worldVars, historyVars>>

-----------------------------------------------------------------------------
(* FetchTweets: what one tick does, call by call. *)

\* The list has a user left: poll it.
NextUser ==
    /\ pc = "tick"
    /\ userIndex # Len(users)
    /\ pc' = "fetch"
    /\ UNCHANGED <<users, userIndex, userCursors, startTime, batch, todo,
                   worldVars, historyVars>>

\* Mutant of EndOfRound: the index is not reset before the refresh.
EndOfRoundWithoutReset ==
    /\ pc = "tick"
    /\ userIndex = Len(users)
    /\ pc' = "refresh"
    /\ UNCHANGED <<users, userIndex, userCursors, startTime, batch, todo,
                   worldVars, historyVars>>

\* The round is over: start again, with a fresh list.
EndOfRound ==
    /\ pc = "tick"
    /\ userIndex = Len(users)
    /\ pc' = "refresh"
    /\ userIndex' = 0
    /\ UNCHANGED <<users, userCursors, startTime, batch, todo,
                   worldVars, historyVars>>

\* The new list is walked at once, unless nobody is followed any more.
RefreshUserList ==
    /\ pc = "refresh"
    /\ \E list \in UserLists(follows) :
        /\ users' = list
        /\ pc' = IF list = <<>> THEN "tick" ELSE "fetch"
    /\ UNCHANGED <<userIndex, userCursors, startTime, batch, todo,
                   worldVars, historyVars>>

\* A failed query assigns the nil list it returns.
RefreshFails ==
    /\ pc = "refresh"
    /\ users' = <<>>
    /\ pc' = "tick"
    /\ UNCHANGED <<userIndex, userCursors, startTime, batch, todo,
                   worldVars, historyVars>>

\* Mutant of FetchNothing: the index moves only when there were tweets.
FetchNothingAndStay ==
    /\ pc = "fetch"
    /\ posted[user] <= Since(user)
    /\ pc' = "tick"
    /\ UNCHANGED <<users, userIndex, userCursors, startTime, batch, todo,
                   worldVars, historyVars>>

\* Twitter has no tweet newer than the cursor.
FetchNothing ==
    /\ pc = "fetch"
    /\ posted[user] <= Since(user)
    /\ userIndex' = userIndex + 1
    /\ pc' = "tick"
    /\ UNCHANGED <<users, userCursors, startTime, batch, todo,
                   worldVars, historyVars>>

\* Twitter answers one page, newest first; what does not fit is never asked
\* for again once the cursor has moved.
FetchPage ==
    /\ pc = "fetch"
    /\ posted[user] > Since(user)
    /\ batch' = [oldest |-> PageStart(user),
                 next   |-> posted[user],
                 newest |-> posted[user]]
    /\ skipped' = [skipped EXCEPT
                    ![user] = @ \cup (Since(user) + 1)..(PageStart(user) - 1)]
    /\ pc' = "followers"
    /\ UNCHANGED <<users, userIndex, userCursors, startTime, todo,
                   worldVars, followedAt, aborted, late>>

\* Mutant of GetFollowers: the followers of the first tweet serve the page.
GetFollowersOncePerPage ==
    /\ pc = "followers"
    /\ todo' = {a \in Actors : \/ <<user, a>> \in follows
                              \/ queue[<<user, batch.newest, a>>] > 0}
    /\ pc' = "enqueue"
    /\ UNCHANGED <<users, userIndex, userCursors, startTime, batch,
                   worldVars, historyVars>>

\* handleTweet reads the followers for this tweet.
GetFollowers ==
    /\ pc = "followers"
    /\ todo' = {a \in Actors : <<user, a>> \in follows}
    /\ pc' = "enqueue"
    /\ UNCHANGED <<users, userIndex, userCursors, startTime, batch,
                   worldVars, historyVars>>

\* The effect of one task reaching the queue.
Deliver(u, n, a) ==
    /\ queue' = [queue EXCEPT ![<<u, n, a>>] = @ + 1]
    /\ late' = IF <<u, a>> \in follows
               THEN late ELSE [late EXCEPT ![<<u, a>>] = @ + 1]

\* One task is enqueued for one of the followers that were read.
Enqueue ==
    /\ pc = "enqueue"
    /\ \E a \in todo :
        /\ Deliver(user, batch.next, a)
        /\ todo' = todo \ {a}
    /\ UNCHANGED <<pc, users, userIndex, userCursors, startTime, batch,
                   posted, follows, followedAt, skipped, aborted>>

\* The tweet is done: take the next, older one of the page.
NextTweet ==
    /\ pc = "enqueue"
    /\ todo = {}
    /\ batch.next > batch.oldest
    /\ batch' = [batch EXCEPT !.next = @ - 1]
    /\ pc' = "followers"
    /\ UNCHANGED <<users, userIndex, userCursors, startTime, todo,
                   worldVars, historyVars>>

\* Mutant of PageDone: the cursor is left at the tweet handled last.
PageDoneAtOldest ==
    /\ pc = "enqueue"
    /\ todo = {}
    /\ batch.next = batch.oldest
    /\ userCursors' = [userCursors EXCEPT ![user] = batch.oldest]
    /\ userIndex' = userIndex + 1
    /\ batch' = NoBatch
    /\ pc' = "tick"
    /\ UNCHANGED <<users, startTime, todo, worldVars, historyVars>>

\* The whole page is done: only now do the cursor and the index move.
PageDone ==
    /\ pc = "enqueue"
    /\ todo = {}
    /\ batch.next = batch.oldest
    /\ userCursors' = [userCursors EXCEPT ![user] = batch.newest]
    /\ userIndex' = userIndex + 1
    /\ batch' = NoBatch
    /\ pc' = "tick"
    /\ UNCHANGED <<users, startTime, todo, worldVars, historyVars>>

\* What every failed call leaves behind: FetchTweets returns (a panic is
\* recovered and turned into an error) and the next tick polls the same user
\* from the same cursor.
GiveUp ==
    /\ aborted[user] < MaxFaults
    /\ aborted' = [aborted EXCEPT ![user] = @ + 1]
    /\ batch' = NoBatch
    /\ todo' = {}
    /\ pc' = "tick"
    /\ UNCHANGED <<users, userIndex, userCursors, startTime,
                   posted, follows, followedAt, skipped>>

\* GetUserTweets or GetFollowers fails.
ReadFails ==
    /\ pc \in {"fetch", "followers"}
    /\ GiveUp
    /\ UNCHANGED <<queue, late>>

\* Mutant of EnqueueFails: the error is logged and the loop goes on.
EnqueueErrorIgnored ==
    /\ pc = "enqueue"
    /\ \E a \in todo : todo' = todo \ {a}
    /\ UNCHANGED <<pc, users, userIndex, userCursors, startTime, batch,
                   worldVars, historyVars>>

\* Enqueue fails; the task may have reached the queue all the same.
EnqueueFails ==
    /\ pc = "enqueue"
    /\ \E a \in todo :
        \/ UNCHANGED <<queue, late>>
        \/ Deliver(user, batch.next, a)
    /\ GiveUp

-----------------------------------------------------------------------------
\* The process stops between any two calls: killed, told to stop (ctx.Done),
\* or because Start returned the error of its first queries.
Crash ==
    /\ pc # "down"
    /\ pc' = "down"
    /\ users' = <<>>
    /\ userIndex' = 0
    /\ userCursors' = [u \in Users |-> NoCursor]
    /\ startTime' = [u \in Users |-> 0]
    /\ batch' = NoBatch
    /\ todo' = {}
    /\ UNCHANGED <<worldVars, historyVars>>

Environment ==
    \/ \E u \in Users : Post(u)
    \/ \E u \in Users, a \in Actors : Follow(u, a) \/ UnFollow(u, a)

Start == StartProcess \/ StartRefresh \/ BeginPolling

FetchTweets ==
    \/ NextUser \/ EndOfRound
    \/ RefreshUserList \/ RefreshFails
    \/ FetchNothing \/ FetchPage \/ GetFollowers
    \/ Enqueue \/ NextTweet \/ PageDone
    \/ ReadFails \/ EnqueueFails

Next == Environment \/ Start \/ FetchTweets \/ Crash

Spec == Init /\ [][Next]_vars

\* The ticker keeps ticking and every call returns.  Calls made for one user
\* fail at most MaxFaults times, the list query succeeds again and again;
\* nothing is assumed of crashes, restarts, followers or posts.
Fairness ==
    /\ WF_vars(NextUser \/ EndOfRound)
    /\ SF_vars(RefreshUserList)
    /\ WF_vars(FetchNothing \/ FetchPage)
    /\ WF_vars(GetFollowers)
    /\ WF_vars(Enqueue \/ NextTweet \/ PageDone)

FairSpec == Spec /\ Fairness

-----------------------------------------------------------------------------
(* Properties. *)

PollerTypes ==
    /\ pc \in States
    /\ users \in Seq(Users)
    /\ userIndex \in Nat
    /\ userCursors \in [Users -> 0..MaxPosts]
    /\ startTime \in [Users -> 0..MaxPosts]
    /\ batch \in [oldest: 0..MaxPosts, next: 0..MaxPosts, newest: 0..MaxPosts]
    /\ todo \in SUBSET Actors

WorldTypes ==
    /\ posted \in [Users -> 0..MaxPosts]
    /\ follows \in SUBSET (Users \X Actors)
    /\ queue \in [Tasks -> Nat]

HistoryTypes ==
    /\ followedAt \in [Users \X Actors -> 0..MaxPosts]
    /\ skipped \in [Users -> SUBSET Tweets]
    /\ aborted \in [Users -> 0..MaxFaults]
    /\ late \in [Users \X Actors -> Nat]

\* The type invariant: the poller's fields, the tables and queue it shares
\* with the rest of the program, and the history the properties read.
TypeOK == PollerTypes /\ WorldTypes /\ HistoryTypes

\* FetchTweets never indexes past its list, whatever the refreshes returned:
\* line 93 would panic on every later tick, for the index would not move.
IndexWithinList ==
    /\ userIndex <= Len(users)
    /\ pc \in {"fetch", "followers", "enqueue"} => userIndex < Len(users)

\* Every follower gets every tweet the cursor has passed: a tweet posted
\* after both the follow and the start of polling, at or below the cursor,
\* was enqueued for the follower, unless it fell off a full page.  Failures,
\* crashes and follows that come and go between the calls do not change it.
FollowersServed ==
    \A u \in Users, a \in Actors, n \in Tweets :
        /\ <<u, a>> \in follows
        /\ followedAt[<<u, a>>] < n
        /\ startTime[u] < n
        /\ n <= userCursors[u]
        /\ n \notin skipped[u]
        => queue[<<u, n, a>>] > 0

\* A tweet is enqueued twice for one actor only because a call failed while
\* that user was being polled: a restart, the second entry of a user in the
\* list, or a failure for another user never repeats one.
RepeatsOnlyAfterFailure ==
    \A u \in Users, a \in Actors, n \in Tweets :
        queue[<<u, n, a>>] <= 1 + aborted[u]

\* An actor that unfollowed gets at most the tweet in hand when it did: the
\* followers are read again for each tweet of a page.
UnfollowTakesEffect ==
    \A u \in Users, a \in Actors : late[<<u, a>>] <= 1

\* The poller as its followers see it: each user's mark and poll.
on == pc \in PollingStates
mark == [u \in Users |-> IF on THEN Since(u) ELSE 0]
poll ==
    [u \in Users |->
        IF pc \in {"followers", "enqueue"} /\ u = user
        THEN [newest |-> batch.newest,
              tweet  |-> IF pc = "enqueue" THEN batch.next ELSE batch.next + 1,
              left   |-> todo]
        ELSE [newest |-> 0, tweet |-> 0, left |-> {}]]

Promised == INSTANCE Feed

\* The poller implements Feed: one list for all users, which names a user as
\* often as it is followed, and one cursor that moves at the end of a page,
\* with failures, refreshes and crashes in between, never skip, repeat or
\* send late what a poll of the user alone, read tweet by tweet, would not.
FeedsAsPromised == Promised!Spec

\* While a follow lasts and the poller lives, each tweet posted since is
\* enqueued in the end, unless it fell off a full page.
EventuallyScheduled ==
    \A u \in Users, a \in Actors, n \in Tweets :
        /\ pc \in PollingStates
        /\ <<u, a>> \in follows
        /\ followedAt[<<u, a>>] < n
        /\ startTime[u] < n
        /\ n <= posted[u]
        ~> \/ queue[<<u, n, a>>] > 0
           \/ n \in skipped[u]
           \/ <<u, a>> \notin follows
           \/ pc = "down"
=============================================================================
