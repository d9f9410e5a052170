---------------------------- MODULE PollerProofs ----------------------------
(***************************************************************************)
(* Proofs about Poller, for any sets of users and actors and any bounds.   *)
(*                                                                         *)
(* The four invariants are proved together, from one inductive invariant:  *)
(* each says what holds between polls, and the parts added here say what   *)
(* holds while a page is being handled.                                    *)
(***************************************************************************)
EXTENDS Poller, FiniteSetTheorems, TLAPS

\* A page is being handled.
Handling == pc \in {"followers", "enqueue"}

\* A list is loaded at index 0 only.
LoadedAtZero ==
    pc \in {"down", "starting", "refresh"} => userIndex = 0

\* Cursors exist only while polling and never run ahead of Twitter.
CursorsKnown ==
    /\ \A u \in Users : userCursors[u] <= posted[u] /\ startTime[u] <= posted[u]
    /\ pc \notin PollingStates => \A u \in Users : userCursors[u] = NoCursor

\* The page in hand starts right after the cursor, but for what was skipped.
BatchFollowsCursor ==
    Handling =>
        /\ Since(user) < batch.oldest
        /\ batch.oldest <= batch.next
        /\ batch.next <= batch.newest
        /\ batch.newest <= posted[user]
        /\ \A n \in Tweets :
            Since(user) < n /\ n < batch.oldest => n \in skipped[user]

\* The tweets of the page that are done were enqueued for every follower
\* they are owed to; of the tweet in hand, all but those in todo.
BatchServed ==
    /\ Handling =>
        \A a \in Actors, n \in Tweets :
            /\ <<user, a>> \in follows
            /\ followedAt[<<user, a>>] < n
            /\ batch.next < n
            /\ n <= batch.newest
            => queue[<<user, n, a>>] > 0
    /\ pc = "enqueue" =>
        \A a \in Actors :
            /\ <<user, a>> \in follows
            /\ followedAt[<<user, a>>] < batch.next
            => a \in todo \/ queue[<<user, batch.next, a>>] > 0

\* The tweets the poll in progress has handled so far.
Handled(u) ==
    IF Handling /\ u = user THEN batch.next..batch.newest ELSE {}

\* A tweet nobody posted yet was not enqueued.
UnpostedUncopied ==
    \A u \in Users, a \in Actors, n \in Tweets :
        posted[u] < n => queue[<<u, n, a>>] = 0

\* What is still to be enqueued was enqueued by aborted polls only: the
\* tweets after the cursor that this poll has not reached, ...
PendingCopies ==
    pc \in PollingStates =>
        \A u \in Users, a \in Actors, n \in Tweets :
            Since(u) < n /\ n \notin Handled(u)
            => queue[<<u, n, a>>] <= aborted[u]

\* ... and the tweet in hand, for the followers left.
HandCopies ==
    /\ pc = "followers" =>
        \A a \in Actors : queue[<<user, batch.next, a>>] <= aborted[user]
    /\ pc = "enqueue" =>
        \A a \in todo : queue[<<user, batch.next, a>>] <= aborted[user]

\* An actor that unfollowed since the followers were read is still owed its
\* one late task.
LateOnce ==
    pc = "enqueue" =>
        \A a \in todo : <<user, a>> \notin follows => late[<<user, a>>] = 0

\* The poller's types and its place in the list, kept together: a list is
\* only loaded at index 0.
PollerTyped == PollerTypes /\ IndexWithinList /\ LoadedAtZero

Typed == PollerTyped /\ WorldTypes /\ HistoryTypes

IInv ==
    /\ Typed
    /\ CursorsKnown
    /\ BatchFollowsCursor
    /\ BatchServed
    /\ FollowersServed
    /\ UnpostedUncopied
    /\ PendingCopies
    /\ HandCopies
    /\ RepeatsOnlyAfterFailure
    /\ LateOnce
    /\ UnfollowTakesEffect

-----------------------------------------------------------------------------
(* Types and the list index. *)

\* Counting one more occurrence keeps a table of counters one.
LEMMA CountUp ==
    ASSUME NEW S, NEW f \in [S -> Nat], NEW x
    PROVE  [f EXCEPT ![x] = @ + 1] \in [S -> Nat]
<1>1. CASE x \in S
  BY <1>1
<1>2. CASE x \notin S
  BY <1>2
<1>. QED
  BY <1>1, <1>2

\* The rows of the join are followed users, as many as there are follows.
LEMMA UserListsType ==
    ASSUME NEW F \in SUBSET (Users \X Actors), NEW list \in UserLists(F)
    PROVE  list \in Seq(Users)
<1>1. IsFiniteSet(F)
  BY FS_Product, FS_Subset, FiniteAssumption
<1>2. Cardinality(F) \in Nat
  BY <1>1, FS_CardinalityType
<1>3. PICK row \in Bijection(1..Cardinality(F), F) :
        list = [i \in 1..Cardinality(F) |-> row[i][1]]
  BY DEF UserLists
<1>4. row \in [1..Cardinality(F) -> F]
  BY <1>3 DEF Bijection, Injection
<1>5. \A i \in 1..Cardinality(F) : row[i][1] \in Users
  BY <1>4
<1>6. list \in [1..Cardinality(F) -> Users]
  BY <1>3, <1>5
<1>. QED
  BY <1>2, <1>6

\* While a page is fetched or handled the index names a user of the list.
LEMMA UserInList ==
    ASSUME PollerTypes, IndexWithinList,
           pc \in {"fetch", "followers", "enqueue"}
    PROVE  user \in Users
BY DEF PollerTypes, IndexWithinList, user

\* A page starts after the cursor and within the tweets posted.
LEMMA PageStartType ==
    ASSUME PollerTypes, WorldTypes, NEW u \in Users, posted[u] > Since(u)
    PROVE  /\ Since(u) \in 0..MaxPosts
           /\ PageStart(u) \in Tweets
           /\ Since(u) < PageStart(u)
           /\ PageStart(u) <= posted[u]
<1>1. Since(u) \in 0..MaxPosts
  BY DEF PollerTypes, Since
<1>2. posted[u] \in 0..MaxPosts
  BY DEF WorldTypes
<1>3. CASE posted[u] > Since(u) + MaxPage
  <2>1. PageStart(u) = posted[u] - MaxPage + 1
    BY <1>3 DEF PageStart
  <2>. QED
    BY <1>1, <1>2, <1>3, <2>1, MaxPostsAssumption, MaxPageAssumption DEF Tweets
<1>4. CASE ~(posted[u] > Since(u) + MaxPage)
  <2>1. PageStart(u) = Since(u) + 1
    BY <1>4 DEF PageStart
  <2>. QED
    BY <1>1, <1>2, <2>1, MaxPostsAssumption DEF Tweets
<1>. QED
  BY <1>3, <1>4

LEMMA TypeInit == Init => Typed
<1>. SUFFICES ASSUME Init PROVE Typed
  OBVIOUS
<1>1. PollerTyped
  BY MaxPostsAssumption
  DEF Init, PollerTyped, PollerTypes, IndexWithinList, LoadedAtZero, States,
      PollingStates, NoBatch, NoCursor
<1>2. WorldTypes /\ HistoryTypes
  BY MaxPostsAssumption, MaxFaultsAssumption DEF Init, WorldTypes, HistoryTypes
<1>. QED
  BY <1>1, <1>2 DEF Typed

LEMMA TypeStep ==
    ASSUME Typed, [Next]_vars
    PROVE  Typed'
<1>. USE MaxPostsAssumption
<1>. USE DEF Typed, PollerTyped
<1>p. UNCHANGED pollerVars => PollerTyped'
  BY DEF pollerVars, PollerTypes, IndexWithinList, LoadedAtZero
<1>w. UNCHANGED worldVars => WorldTypes'
  BY DEF worldVars, WorldTypes
<1>h. UNCHANGED historyVars => HistoryTypes'
  BY DEF historyVars, HistoryTypes
<1>1. ASSUME NEW u \in Users, Post(u)  PROVE Typed'
  <2>1. WorldTypes'
    BY <1>1 DEF Post, WorldTypes
  <2>. QED
    BY <1>1, <1>p, <1>h, <2>1 DEF Post
<1>2. ASSUME NEW u \in Users, NEW a \in Actors, Follow(u, a)  PROVE Typed'
  <2>1. WorldTypes'
    BY <1>2 DEF Follow, WorldTypes
  <2>2. HistoryTypes'
    BY <1>2 DEF Follow, WorldTypes, HistoryTypes
  <2>. QED
    BY <1>2, <1>p, <2>1, <2>2 DEF Follow
<1>3. ASSUME NEW u \in Users, NEW a \in Actors, UnFollow(u, a)  PROVE Typed'
  <2>1. WorldTypes'
    BY <1>3 DEF UnFollow, WorldTypes
  <2>2. HistoryTypes'
    BY <1>3 DEF UnFollow, HistoryTypes
  <2>. QED
    BY <1>3, <1>p, <2>1, <2>2 DEF UnFollow
<1>4. CASE StartProcess \/ NextUser \/ EndOfRound
  <2>1. PollerTypes'
    BY <1>4 DEF StartProcess, NextUser, EndOfRound, PollerTypes, States,
                PollingStates
  <2>2. IndexWithinList' /\ LoadedAtZero'
    BY <1>4 DEF StartProcess, NextUser, EndOfRound, PollerTypes,
                IndexWithinList, LoadedAtZero
  <2>. QED
    BY <1>4, <1>w, <1>h, <2>1, <2>2 DEF StartProcess, NextUser, EndOfRound
<1>5. CASE StartRefresh \/ RefreshUserList \/ RefreshFails
  <2>1. WorldTypes' /\ HistoryTypes'
    BY <1>5, <1>w, <1>h DEF StartRefresh, RefreshUserList, RefreshFails
  <2>2. userIndex' = 0 /\ userIndex = 0
    BY <1>5 DEF StartRefresh, RefreshUserList, RefreshFails, LoadedAtZero
  <2>3. users' \in Seq(Users)
    <3>1. CASE StartRefresh \/ RefreshUserList
      <4>1. PICK list \in UserLists(follows) : users' = list
        BY <3>1 DEF StartRefresh, RefreshUserList
      <4>. QED
        BY <4>1, UserListsType DEF WorldTypes
    <3>2. CASE RefreshFails
      BY <3>2 DEF RefreshFails
    <3>. QED
      BY <1>5, <3>1, <3>2
  <2>4. pc' \in States /\ (pc' = "fetch" => users' # <<>>)
    BY <1>5 DEF StartRefresh, RefreshUserList, RefreshFails, States,
                PollingStates
  <2>5. pc' \notin {"followers", "enqueue"}
    BY <1>5 DEF StartRefresh, RefreshUserList, RefreshFails
  <2>6. Len(users') \in Nat /\ (users' # <<>> => Len(users') > 0)
    BY <2>3
  <2>7. IndexWithinList' /\ LoadedAtZero'
    BY <2>2, <2>4, <2>5, <2>6 DEF IndexWithinList, LoadedAtZero
  <2>8. PollerTypes'
    BY <1>5, <2>2, <2>3, <2>4
    DEF StartRefresh, RefreshUserList, RefreshFails, PollerTypes
  <2>. QED
    BY <2>1, <2>7, <2>8
<1>6. CASE BeginPolling
  <2>1. PollerTyped'
    BY <1>6 DEF BeginPolling, PollerTypes, WorldTypes, IndexWithinList,
                LoadedAtZero, States, PollingStates
  <2>. QED
    BY <1>6, <1>w, <1>h, <2>1 DEF BeginPolling
<1>7. CASE FetchNothing
  <2>1. PollerTypes'
    BY <1>7 DEF FetchNothing, PollerTypes, States, PollingStates
  <2>2. IndexWithinList' /\ LoadedAtZero'
    BY <1>7 DEF FetchNothing, PollerTypes, IndexWithinList, LoadedAtZero
  <2>. QED
    BY <1>7, <1>w, <1>h, <2>1, <2>2 DEF FetchNothing
<1>8. CASE FetchPage
  <2>1. user \in Users
    BY <1>8, UserInList DEF FetchPage
  <2>2. /\ Since(user) \in 0..MaxPosts
        /\ PageStart(user) \in Tweets
        /\ posted[user] \in 0..MaxPosts
    BY <1>8, <2>1, PageStartType DEF FetchPage, WorldTypes
  <2>3. batch' \in [oldest: 0..MaxPosts, next: 0..MaxPosts,
                    newest: 0..MaxPosts]
    BY <1>8, <2>2 DEF FetchPage, Tweets
  <2>4. PollerTyped'
    BY <1>8, <2>3 DEF FetchPage, PollerTypes, IndexWithinList, LoadedAtZero,
                      States, PollingStates
  <2>5. (Since(user) + 1)..(PageStart(user) - 1) \subseteq Tweets
    BY <2>2 DEF Tweets
  <2>6. skipped' \in [Users -> SUBSET Tweets]
    BY <1>8, <2>1, <2>5 DEF FetchPage, HistoryTypes
  <2>7. HistoryTypes'
    BY <1>8, <2>6 DEF FetchPage, HistoryTypes
  <2>. QED
    BY <1>8, <1>w, <2>4, <2>7 DEF FetchPage
<1>9. CASE GetFollowers
  <2>1. PollerTyped'
    BY <1>9 DEF GetFollowers, PollerTypes, IndexWithinList, LoadedAtZero,
                States, PollingStates
  <2>. QED
    BY <1>9, <1>w, <1>h, <2>1 DEF GetFollowers
<1>10. ASSUME pc = "enqueue", NEW a \in todo, Deliver(user, batch.next, a),
              UNCHANGED <<posted, follows>>
       PROVE  WorldTypes' /\ late' \in [Users \X Actors -> Nat]
  <2>1. user \in Users /\ a \in Actors
    BY <1>10, UserInList DEF PollerTypes
  <2>2. WorldTypes'
    <3>. DEFINE task == <<user, batch.next, a>>
    <3>1. queue' = [queue EXCEPT ![task] = @ + 1]
      BY <1>10 DEF Deliver
    <3>. HIDE DEF task
    <3>2. queue' \in [Tasks -> Nat]
      BY <1>10, <3>1, CountUp DEF WorldTypes
    <3>. QED
      BY <1>10, <3>2 DEF WorldTypes
  <2>3. late' \in [Users \X Actors -> Nat]
    BY <1>10, <2>1 DEF Deliver, HistoryTypes
  <2>. QED
    BY <2>2, <2>3
<1>11. CASE Enqueue
  <2>1. WorldTypes' /\ HistoryTypes'
    BY <1>10, <1>11 DEF Enqueue, HistoryTypes
  <2>2. PollerTyped'
    BY <1>11 DEF Enqueue, PollerTypes, IndexWithinList, LoadedAtZero
  <2>. QED
    BY <2>1, <2>2
<1>12. CASE NextTweet
  <2>1. batch' = [oldest |-> batch.oldest, next |-> batch.next - 1,
                  newest |-> batch.newest]
    BY <1>12 DEF NextTweet, PollerTypes
  <2>2. batch.next - 1 \in 0..MaxPosts
    BY <1>12 DEF NextTweet, PollerTypes
  <2>3. batch' \in [oldest: 0..MaxPosts, next: 0..MaxPosts,
                    newest: 0..MaxPosts]
    BY <2>1, <2>2 DEF PollerTypes
  <2>4. PollerTyped'
    BY <1>12, <2>3 DEF NextTweet, PollerTypes, IndexWithinList, LoadedAtZero,
                       States, PollingStates
  <2>. QED
    BY <1>12, <1>w, <1>h, <2>4 DEF NextTweet
<1>13. CASE PageDone
  <2>1. user \in Users
    BY <1>13, UserInList DEF PageDone
  <2>2. PollerTypes'
    BY <1>13, <2>1 DEF PageDone, PollerTypes, NoBatch, States, PollingStates
  <2>3. IndexWithinList' /\ LoadedAtZero'
    BY <1>13 DEF PageDone, PollerTypes, IndexWithinList, LoadedAtZero
  <2>. QED
    BY <1>13, <1>w, <1>h, <2>2, <2>3 DEF PageDone
<1>14. ASSUME GiveUp, pc \in {"fetch", "followers", "enqueue"}
       PROVE  PollerTyped' /\ aborted' \in [Users -> 0..MaxFaults]
  <2>1. user \in Users
    BY <1>14, UserInList
  <2>2. aborted' \in [Users -> 0..MaxFaults]
    BY <1>14, <2>1, MaxFaultsAssumption DEF GiveUp, HistoryTypes
  <2>3. PollerTyped'
    BY <1>14 DEF GiveUp, PollerTypes, IndexWithinList, LoadedAtZero, NoBatch,
                 States, PollingStates
  <2>. QED
    BY <2>2, <2>3
<1>15. CASE ReadFails
  <2>1. PollerTyped' /\ aborted' \in [Users -> 0..MaxFaults]
    BY <1>14, <1>15 DEF ReadFails
  <2>2. WorldTypes' /\ HistoryTypes'
    BY <1>15, <2>1 DEF ReadFails, GiveUp, WorldTypes, HistoryTypes
  <2>. QED
    BY <2>1, <2>2
<1>16. CASE EnqueueFails
  <2>1. PollerTyped' /\ aborted' \in [Users -> 0..MaxFaults]
    BY <1>14, <1>16 DEF EnqueueFails
  <2>2. UNCHANGED <<posted, follows, followedAt, skipped>>
    BY <1>16 DEF EnqueueFails, GiveUp
  <2>3. WorldTypes' /\ late' \in [Users \X Actors -> Nat]
    <3>1. PICK a \in todo :
            UNCHANGED <<queue, late>> \/ Deliver(user, batch.next, a)
      BY <1>16 DEF EnqueueFails
    <3>2. CASE UNCHANGED <<queue, late>>
      BY <2>2, <3>2 DEF WorldTypes, HistoryTypes
    <3>3. CASE Deliver(user, batch.next, a)
      BY <1>10, <1>16, <2>2, <3>3 DEF EnqueueFails
    <3>. QED
      BY <3>1, <3>2, <3>3
  <2>4. HistoryTypes'
    BY <2>1, <2>2, <2>3 DEF HistoryTypes
  <2>. QED
    BY <2>1, <2>3, <2>4
<1>17. CASE Crash
  <2>1. PollerTypes'
    BY <1>17 DEF Crash, PollerTypes, NoBatch, NoCursor, States
  <2>2. IndexWithinList' /\ LoadedAtZero'
    BY <1>17 DEF Crash, IndexWithinList, LoadedAtZero
  <2>. QED
    BY <1>17, <1>w, <1>h, <2>1, <2>2 DEF Crash
<1>18. CASE UNCHANGED vars
  BY <1>18, <1>p, <1>w, <1>h DEF vars
<1>. QED
  BY <1>1, <1>2, <1>3, <1>4, <1>5, <1>6, <1>7, <1>8, <1>9, <1>11, <1>12,
     <1>13, <1>15, <1>16, <1>17, <1>18
  DEF Next, Environment, Start, FetchTweets
-----------------------------------------------------------------------------
(* What the actions do, in the terms the invariants need. *)

\* The steps of a poll that has no page in hand, and of the start.
Quiet == \/ StartProcess \/ StartRefresh \/ BeginPolling
         \/ NextUser \/ EndOfRound \/ RefreshUserList \/ RefreshFails
         \/ FetchNothing

LEMMA QuietStep ==
    ASSUME Quiet
    PROVE  /\ ~Handling /\ ~Handling'
           /\ UNCHANGED <<userCursors, batch, worldVars, historyVars>>
           /\ \/ UNCHANGED startTime /\ (pc' \in PollingStates <=> pc \in PollingStates)
              \/ startTime' = posted /\ pc \notin PollingStates
BY DEF Quiet, Handling, PollingStates, StartProcess, StartRefresh, BeginPolling,
       NextUser, EndOfRound, RefreshUserList, RefreshFails, FetchNothing

\* The page in hand: its user is in the list, its tweets have been posted.
LEMMA InHand ==
    ASSUME IInv, Handling
    PROVE  /\ user \in Users
           /\ Since(user) \in 0..MaxPosts
           /\ posted[user] \in 0..MaxPosts
           /\ batch.oldest \in Tweets
           /\ batch.next \in Tweets
           /\ batch.newest \in Tweets
           /\ batch.oldest <= batch.next
           /\ batch.next <= batch.newest
           /\ batch.newest <= posted[user]
           /\ Since(user) < batch.oldest
<1>1. user \in Users
  BY UserInList DEF IInv, Typed, PollerTyped, Handling
<1>2. /\ Since(user) \in 0..MaxPosts
      /\ posted[user] \in 0..MaxPosts
  BY <1>1 DEF IInv, Typed, PollerTyped, PollerTypes, WorldTypes, Since
<1>3. /\ batch.oldest \in Nat
      /\ batch.next \in Nat
      /\ batch.newest \in Nat
  BY DEF IInv, Typed, PollerTyped, PollerTypes
<1>. QED
  BY <1>1, <1>2, <1>3, MaxPostsAssumption DEF IInv, BatchFollowsCursor, Tweets

\* A delivery adds one copy of its task and leaves the others alone.
LEMMA Delivered ==
    ASSUME WorldTypes, NEW u \in Users, NEW n \in Tweets, NEW a \in Actors,
           Deliver(u, n, a)
    PROVE  \A v \in Users, m \in Tweets, b \in Actors :
            /\ queue[<<v, m, b>>] \in Nat
            /\ queue'[<<v, m, b>>] = IF v = u /\ m = n /\ b = a
                                 THEN queue[<<v, m, b>>] + 1 ELSE queue[<<v, m, b>>]
BY DEF Deliver, WorldTypes, Tasks

\* Giving up clears the page and charges the user.
LEMMA GaveUp ==
    ASSUME ReadFails \/ EnqueueFails
    PROVE  GiveUp
BY DEF ReadFails, EnqueueFails

-----------------------------------------------------------------------------
(* The cursor and the page in hand. *)

LEMMA CursorStep ==
    ASSUME IInv, [Next]_vars
    PROVE  CursorsKnown'
<1>. USE DEF IInv, CursorsKnown
<1>t. /\ userCursors \in [Users -> 0..MaxPosts]
      /\ startTime \in [Users -> 0..MaxPosts]
      /\ posted \in [Users -> 0..MaxPosts]
  BY DEF Typed, PollerTyped, PollerTypes, WorldTypes
<1>1. ASSUME NEW u \in Users, Post(u)  PROVE CursorsKnown'
  BY <1>1, <1>t, MaxPostsAssumption DEF Post, pollerVars
<1>2. ASSUME UNCHANGED <<pollerVars, posted>>  PROVE CursorsKnown'
  BY <1>2 DEF pollerVars
<1>3. CASE Quiet
  BY <1>3, <1>t, QuietStep DEF worldVars
<1>4. CASE FetchPage \/ GetFollowers \/ Enqueue \/ NextTweet
  <2>1. UNCHANGED <<userCursors, startTime, posted>>
    BY <1>4 DEF FetchPage, GetFollowers, Enqueue, NextTweet, worldVars
  <2>2. pc \in PollingStates /\ pc' \in PollingStates
    BY <1>4 DEF FetchPage, GetFollowers, Enqueue, NextTweet, PollingStates
  <2>. QED
    BY <2>1, <2>2
<1>5. CASE PageDone
  <2>1. user \in Users /\ batch.newest <= posted[user]
    BY <1>5, InHand DEF PageDone, Handling
  <2>. QED
    BY <1>5, <1>t, <2>1 DEF PageDone, worldVars, PollingStates
<1>6. CASE ReadFails \/ EnqueueFails
  BY <1>6, GaveUp DEF GiveUp, PollingStates
<1>7. CASE Crash
  BY <1>7, <1>t DEF Crash, worldVars, NoCursor
<1>8. CASE UNCHANGED vars
  BY <1>8, <1>2 DEF vars, worldVars
<1>. QED
  BY <1>1, <1>2, <1>3, <1>4, <1>5, <1>6, <1>7, <1>8
  DEF Next, Environment, Start, FetchTweets, Quiet, Follow, UnFollow

LEMMA BatchStep ==
    ASSUME IInv, [Next]_vars
    PROVE  BatchFollowsCursor'
<1>. USE DEF IInv
<1>1. ASSUME UNCHANGED pollerVars, UNCHANGED skipped,
             Handling => posted'[user] >= posted[user] /\ posted'[user] \in Nat
      PROVE  BatchFollowsCursor'
  <2>1. SUFFICES ASSUME Handling  PROVE BatchFollowsCursor'
    BY <1>1 DEF BatchFollowsCursor, Handling, pollerVars
  <2>2. user' = user /\ Since(user)' = Since(user)
    BY <1>1 DEF user, Since, pollerVars
  <2>3. batch' = batch
    BY <1>1 DEF pollerVars
  <2>. QED
    BY <1>1, <2>1, <2>2, <2>3, InHand DEF BatchFollowsCursor, Tweets
<1>2. ASSUME NEW u \in Users, Post(u)  PROVE BatchFollowsCursor'
  <2>1. Handling => posted'[user] >= posted[user] /\ posted'[user] \in Nat
    BY <1>2, InHand DEF Post, Typed, WorldTypes
  <2>. QED
    BY <1>1, <1>2, <2>1 DEF Post, historyVars
<1>3. ASSUME UNCHANGED <<pollerVars, posted, skipped>>
      PROVE  BatchFollowsCursor'
  <2>1. Handling => posted'[user] >= posted[user] /\ posted'[user] \in Nat
    BY <1>3, InHand
  <2>. QED
    BY <1>1, <1>3, <2>1
<1>4. ASSUME ~Handling'  PROVE BatchFollowsCursor'
  BY <1>4 DEF BatchFollowsCursor
<1>5. CASE FetchPage
  <2>1. user \in Users
    BY <1>5, UserInList DEF FetchPage, Typed, PollerTyped
  <2>2. /\ user' = user
        /\ Since(user)' = Since(user)
        /\ posted' = posted
    BY <1>5 DEF FetchPage, user, Since, worldVars
  <2>3. /\ Since(user) \in 0..MaxPosts
        /\ PageStart(user) \in Tweets
        /\ Since(user) < PageStart(user)
        /\ PageStart(user) <= posted[user]
        /\ posted[user] \in 0..MaxPosts
    BY <1>5, <2>1, PageStartType DEF FetchPage, Typed, PollerTyped, WorldTypes
  <2>4. batch' = [oldest |-> PageStart(user), next |-> posted[user],
                  newest |-> posted[user]]
    BY <1>5 DEF FetchPage
  <2>5. \A n \in Tweets :
          Since(user) < n /\ n < PageStart(user) => n \in skipped'[user]
    BY <1>5, <2>1, <2>3 DEF FetchPage, Typed, HistoryTypes, Tweets
  <2>. QED
    BY <2>2, <2>3, <2>4, <2>5 DEF BatchFollowsCursor, Tweets
<1>6. CASE GetFollowers \/ Enqueue
  <2>1. /\ UNCHANGED <<users, userIndex, userCursors, startTime, batch>>
        /\ UNCHANGED <<posted, skipped>>
        /\ Handling
    BY <1>6 DEF GetFollowers, Enqueue, worldVars, historyVars, Handling
  <2>2. user' = user /\ Since(user)' = Since(user)
    BY <2>1 DEF user, Since
  <2>. QED
    BY <2>1, <2>2 DEF BatchFollowsCursor
<1>7. CASE NextTweet
  <2>1. /\ UNCHANGED <<users, userIndex, userCursors, startTime>>
        /\ UNCHANGED <<posted, skipped>>
        /\ Handling
        /\ batch.next > batch.oldest
    BY <1>7 DEF NextTweet, worldVars, historyVars, Handling
  <2>2. user' = user /\ Since(user)' = Since(user)
    BY <2>1 DEF user, Since
  <2>3. batch' = [oldest |-> batch.oldest, next |-> batch.next - 1,
                  newest |-> batch.newest]
    BY <1>7 DEF NextTweet, Typed, PollerTyped, PollerTypes
  <2>. QED
    BY <2>1, <2>2, <2>3, InHand DEF BatchFollowsCursor, Tweets
<1>8. CASE Quiet
  BY <1>4, <1>8, QuietStep
<1>9. CASE PageDone \/ ReadFails \/ EnqueueFails \/ Crash
  BY <1>4, <1>9, GaveUp DEF PageDone, GiveUp, Crash, Handling
<1>10. CASE UNCHANGED vars
  BY <1>3, <1>10 DEF vars, worldVars, historyVars
<1>. QED
  BY <1>2, <1>3, <1>5, <1>6, <1>7, <1>8, <1>9, <1>10
  DEF Next, Environment, Start, FetchTweets, Quiet, Follow, UnFollow
-----------------------------------------------------------------------------
(* Nobody the cursor has passed is left out. *)

LEMMA FollowersServedStep ==
    ASSUME IInv, [Next]_vars
    PROVE  FollowersServed'
<1>. USE DEF IInv, FollowersServed
<1>t. /\ userCursors \in [Users -> 0..MaxPosts]
      /\ startTime \in [Users -> 0..MaxPosts]
      /\ posted \in [Users -> 0..MaxPosts]
      /\ followedAt \in [Users \X Actors -> 0..MaxPosts]
      /\ skipped \in [Users -> SUBSET Tweets]
      /\ queue \in [Tasks -> Nat]
  BY DEF Typed, PollerTyped, PollerTypes, WorldTypes, HistoryTypes
<1>1. ASSUME UNCHANGED <<userCursors, startTime, follows, followedAt, queue>>,
             \A u \in Users : skipped[u] \subseteq skipped'[u]
      PROVE  FollowersServed'
  BY <1>1
<1>2. ASSUME NEW u \in Users, Post(u)  PROVE FollowersServed'
  BY <1>1, <1>2 DEF Post, pollerVars, historyVars
<1>3. ASSUME NEW u \in Users, NEW a \in Actors, Follow(u, a)
      PROVE  FollowersServed'
  <2>1. userCursors[u] <= posted[u]
    BY DEF CursorsKnown
  <2>2. followedAt'[<<u, a>>] = posted[u]
    BY <1>3, <1>t DEF Follow
  <2>3. \A v \in Users, b \in Actors : v # u \/ b # a =>
            /\ followedAt'[<<v, b>>] = followedAt[<<v, b>>]
            /\ <<v, b>> \in follows' <=> <<v, b>> \in follows
    BY <1>3, <1>t DEF Follow
  <2>4. UNCHANGED <<userCursors, startTime, skipped, queue>>
    BY <1>3 DEF Follow, pollerVars
  <2>5. ASSUME NEW v \in Users, NEW b \in Actors, NEW n \in Tweets,
               <<v, b>> \in follows', followedAt'[<<v, b>>] < n, startTime'[v] < n,
               n <= userCursors'[v], n \notin skipped'[v]
        PROVE  queue'[<<v, n, b>>] > 0
    <3>1. CASE v = u /\ b = a
      BY <1>t, <2>1, <2>2, <2>4, <2>5, <3>1 DEF Tweets
    <3>2. CASE v # u \/ b # a
      BY <2>3, <2>4, <2>5, <3>2
    <3>. QED
      BY <3>1, <3>2
  <2>. QED
    BY <2>5
<1>4. ASSUME NEW u \in Users, NEW a \in Actors, UnFollow(u, a)
      PROVE  FollowersServed'
  BY <1>4 DEF UnFollow, pollerVars
<1>5. CASE Quiet
  <2>1. UNCHANGED startTime \/ \A u \in Users : userCursors[u] = NoCursor
    BY <1>5, QuietStep DEF CursorsKnown
  <2>2. UNCHANGED <<userCursors, worldVars, historyVars>>
    BY <1>5, QuietStep
  <2>3. CASE UNCHANGED startTime
    BY <1>1, <2>2, <2>3 DEF worldVars, historyVars
  <2>4. CASE \A u \in Users : userCursors[u] = NoCursor
    BY <2>2, <2>4 DEF NoCursor, Tweets
  <2>. QED
    BY <2>1, <2>3, <2>4
<1>6. CASE FetchPage
  <2>1. \A u \in Users : skipped[u] \subseteq skipped'[u]
    BY <1>6, <1>t DEF FetchPage
  <2>. QED
    BY <1>1, <1>6, <2>1 DEF FetchPage, worldVars
<1>7. CASE GetFollowers \/ NextTweet
  BY <1>1, <1>7 DEF GetFollowers, NextTweet, worldVars, historyVars
<1>8. ASSUME pc = "enqueue", NEW a \in todo, Deliver(user, batch.next, a),
             UNCHANGED <<userCursors, startTime, follows, followedAt, skipped>>
      PROVE  FollowersServed'
  <2>1. user \in Users /\ batch.next \in Tweets /\ a \in Actors
    BY <1>8, InHand DEF Handling, Typed, PollerTyped, PollerTypes
  <2>2. \A v \in Users, m \in Tweets, b \in Actors :
            queue[<<v, m, b>>] > 0 => queue'[<<v, m, b>>] > 0
    BY <1>8, <2>1, Delivered DEF Typed
  <2>. QED
    BY <1>8, <2>2
<1>9. CASE Enqueue
  BY <1>8, <1>9 DEF Enqueue
<1>10. CASE PageDone
  <2>1. user \in Users /\ batch.newest \in Tweets /\ batch.oldest \in Tweets
    BY <1>10, InHand DEF PageDone, Handling
  <2>2. SUFFICES
          ASSUME NEW a \in Actors, NEW n \in Tweets, <<user, a>> \in follows,
                 followedAt[<<user, a>>] < n, startTime[user] < n,
                 n <= batch.newest, n \notin skipped[user]
          PROVE  queue[<<user, n, a>>] > 0
    BY <1>10, <1>t, <2>1 DEF PageDone, worldVars, historyVars
  <2>3. CASE n <= Since(user)
    BY <1>t, <2>1, <2>2, <2>3 DEF Since, NoCursor, Tweets
  <2>4. CASE Since(user) < n /\ n < batch.oldest
    BY <1>10, <2>2, <2>4 DEF PageDone, BatchFollowsCursor, Handling
  <2>5. CASE n = batch.next
    BY <1>10, <2>2, <2>5 DEF PageDone, BatchServed
  <2>6. CASE batch.next < n
    BY <1>10, <2>2, <2>6 DEF PageDone, BatchServed, Handling
  <2>7. Since(user) \in Nat /\ batch.next = batch.oldest
    BY <1>10, InHand DEF PageDone, Handling
  <2>. QED
    BY <2>1, <2>3, <2>4, <2>5, <2>6, <2>7 DEF Tweets
<1>11. CASE ReadFails
  BY <1>1, <1>11 DEF ReadFails, GiveUp
<1>12. CASE EnqueueFails
  <2>1. UNCHANGED <<userCursors, startTime, follows, followedAt, skipped>>
    BY <1>12, GaveUp DEF GiveUp
  <2>2. PICK a \in todo :
          UNCHANGED <<queue, late>> \/ Deliver(user, batch.next, a)
    BY <1>12 DEF EnqueueFails
  <2>3. CASE UNCHANGED <<queue, late>>
    BY <1>1, <2>1, <2>3
  <2>4. CASE Deliver(user, batch.next, a)
    BY <1>8, <1>12, <2>1, <2>4 DEF EnqueueFails
  <2>. QED
    BY <2>2, <2>3, <2>4
<1>13. CASE Crash
  BY <1>13 DEF Crash, NoCursor, Tweets
<1>14. CASE UNCHANGED vars
  BY <1>1, <1>14 DEF vars, pollerVars, worldVars, historyVars
<1>. QED
  BY <1>2, <1>3, <1>4, <1>5, <1>6, <1>7, <1>9, <1>10, <1>11, <1>12, <1>13, <1>14
  DEF Next, Environment, Start, FetchTweets, Quiet

LEMMA BatchServedStep ==
    ASSUME IInv, [Next]_vars
    PROVE  BatchServed'
<1>. USE DEF IInv
<1>t. /\ followedAt \in [Users \X Actors -> 0..MaxPosts]
      /\ todo \in SUBSET Actors
  BY DEF Typed, PollerTyped, PollerTypes, HistoryTypes
<1>1. ASSUME ~Handling'  PROVE BatchServed'
  BY <1>1 DEF BatchServed, Handling
<1>2. ASSUME UNCHANGED <<pollerVars, queue>>,
             \A u \in Users, a \in Actors :
                <<u, a>> \in follows' =>
                    \/ <<u, a>> \in follows /\ followedAt'[<<u, a>>] = followedAt[<<u, a>>]
                    \/ followedAt'[<<u, a>>] = posted[u]
      PROVE  BatchServed'
  <2>1. SUFFICES ASSUME Handling  PROVE BatchServed'
    BY <1>1, <1>2 DEF Handling, pollerVars
  <2>2. user' = user /\ batch' = batch /\ todo' = todo /\ pc' = pc
    BY <1>2 DEF user, pollerVars
  <2>3. \A a \in Actors, n \in Tweets :
            <<user, a>> \in follows' /\ followedAt'[<<user, a>>] < n /\ n <= batch.newest
            => <<user, a>> \in follows /\ followedAt[<<user, a>>] < n
    BY <1>2, <2>1, InHand DEF Tweets
  <2>4. batch.next \in Tweets /\ batch.next <= batch.newest
    BY <2>1, InHand
  <2>. QED
    BY <1>2, <2>2, <2>3, <2>4 DEF BatchServed, Handling
<1>3. ASSUME NEW u \in Users, Post(u)  PROVE BatchServed'
  BY <1>2, <1>3 DEF Post, historyVars
<1>4. ASSUME NEW u \in Users, NEW a \in Actors, Follow(u, a)
      PROVE  BatchServed'
  BY <1>2, <1>4, <1>t DEF Follow
<1>5. ASSUME NEW u \in Users, NEW a \in Actors, UnFollow(u, a)
      PROVE  BatchServed'
  BY <1>2, <1>5 DEF UnFollow
<1>6. CASE Quiet
  BY <1>1, <1>6, QuietStep
<1>7. CASE FetchPage
  <2>1. pc' = "followers" /\ batch'.next = batch'.newest
    BY <1>7 DEF FetchPage
  <2>2. posted[user] \in Nat
    BY <1>7, UserInList DEF FetchPage, Typed, PollerTyped, WorldTypes
  <2>3. batch'.next \in Nat
    BY <1>7, <2>2 DEF FetchPage
  <2>. QED
    BY <2>1, <2>3 DEF BatchServed, Tweets
<1>8. CASE GetFollowers
  <2>1. user' = user
    BY <1>8 DEF GetFollowers, user
  <2>. QED
    BY <1>8, <2>1 DEF GetFollowers, BatchServed, Handling, worldVars, historyVars
<1>9. CASE Enqueue
  <2>1. PICK a \in todo : Deliver(user, batch.next, a) /\ todo' = todo \ {a}
    BY <1>9 DEF Enqueue
  <2>2. user' = user /\ batch' = batch /\ pc = "enqueue" /\ pc' = pc
    BY <1>9 DEF Enqueue, user
  <2>3. user \in Users /\ batch.next \in Tweets /\ a \in Actors
    BY <1>t, <2>2, InHand DEF Handling
  <2>4. \A b \in Actors, n \in Tweets :
            queue[<<user, n, b>>] > 0 => queue'[<<user, n, b>>] > 0
    BY <2>1, <2>3, Delivered DEF Typed
  <2>5. queue'[<<user, batch.next, a>>] > 0
    BY <2>1, <2>3, Delivered DEF Typed
  <2>. QED
    BY <1>9, <2>1, <2>2, <2>3, <2>4, <2>5 DEF Enqueue, BatchServed, Handling
<1>10. CASE NextTweet
  <2>1. /\ user' = user /\ pc = "enqueue" /\ pc' = "followers"
        /\ todo = {}
        /\ UNCHANGED <<follows, followedAt, queue>>
    BY <1>10 DEF NextTweet, user, worldVars, historyVars
  <2>2. batch'.next = batch.next - 1 /\ batch'.newest = batch.newest
    BY <1>10 DEF NextTweet, Typed, PollerTyped, PollerTypes
  <2>3. batch.next \in Tweets
    BY <2>1, InHand DEF Handling
  <2>4. \A n \in Tweets : batch'.next < n => n = batch.next \/ batch.next < n
    BY <2>2, <2>3 DEF Tweets
  <2>. QED
    BY <2>1, <2>2, <2>3, <2>4 DEF BatchServed, Handling
<1>11. CASE PageDone \/ ReadFails \/ EnqueueFails \/ Crash
  BY <1>1, <1>11, GaveUp DEF PageDone, GiveUp, Crash, Handling
<1>12. CASE UNCHANGED vars
  BY <1>2, <1>12 DEF vars, worldVars, historyVars
<1>. QED
  BY <1>3, <1>4, <1>5, <1>6, <1>7, <1>8, <1>9, <1>10, <1>11, <1>12
  DEF Next, Environment, Start, FetchTweets, Quiet
-----------------------------------------------------------------------------
(* Nothing is repeated without a failure. *)

\* A step that delivers, and what it delivers: one task of the tweet in hand.
LEMMA DeliveredWithin ==
    ASSUME IInv, pc = "enqueue", NEW a \in todo, Deliver(user, batch.next, a)
    PROVE  \A v \in Users, m \in Tweets, b \in Actors :
            /\ queue'[<<v, m, b>>] <= 1 + aborted[v]
            /\ posted[v] < m => queue'[<<v, m, b>>] = 0
            /\ v # user \/ m # batch.next \/ b # a =>
                queue'[<<v, m, b>>] = queue[<<v, m, b>>]
<1>. USE DEF IInv
<1>1. user \in Users /\ batch.next \in Tweets /\ a \in Actors
  BY InHand DEF Handling, Typed, PollerTyped, PollerTypes
<1>2. batch.next <= posted[user] /\ posted[user] \in Nat
  BY InHand DEF Handling, Tweets
<1>3. queue[<<user, batch.next, a>>] <= aborted[user]
  BY DEF HandCopies
<1>4. \A v \in Users : aborted[v] \in Nat
  BY DEF Typed, HistoryTypes
<1>5. SUFFICES ASSUME NEW v \in Users, NEW m \in Tweets, NEW b \in Actors
      PROVE  /\ queue'[<<v, m, b>>] <= 1 + aborted[v]
             /\ posted[v] < m => queue'[<<v, m, b>>] = 0
             /\ v # user \/ m # batch.next \/ b # a =>
                queue'[<<v, m, b>>] = queue[<<v, m, b>>]
  OBVIOUS
<1>6. CASE v = user /\ m = batch.next /\ b = a
  <2>1. queue'[<<v, m, b>>] = queue[<<v, m, b>>] + 1 /\ queue[<<v, m, b>>] \in Nat
    BY <1>1, <1>6, Delivered DEF Typed
  <2>2. ~(posted[v] < m)
    BY <1>1, <1>2, <1>6 DEF Tweets
  <2>. QED
    BY <1>3, <1>4, <1>6, <2>1, <2>2
<1>7. CASE v # user \/ m # batch.next \/ b # a
  <2>1. queue'[<<v, m, b>>] = queue[<<v, m, b>>]
    BY <1>1, <1>7, Delivered DEF Typed
  <2>. QED
    BY <2>1 DEF UnpostedUncopied, RepeatsOnlyAfterFailure
<1>. QED
  BY <1>6, <1>7

\* The steps that deliver nothing and charge nobody.
LEMMA DeliversNothing ==
    ASSUME Quiet \/ FetchPage \/ GetFollowers \/ NextTweet \/ PageDone \/ Crash
    PROVE  UNCHANGED <<posted, follows, queue, aborted, late>>
BY DEF Quiet, StartProcess, StartRefresh, BeginPolling, NextUser, EndOfRound,
       RefreshUserList, RefreshFails, FetchNothing, FetchPage, GetFollowers,
       NextTweet, PageDone, Crash, worldVars, historyVars

\* A step that gives up leaves every task with at most one copy more than the
\* failures before it, and charges the user for it.
LEMMA GivenUpWithin ==
    ASSUME IInv, ReadFails \/ EnqueueFails
    PROVE  /\ user \in Users
           /\ \A v \in Users : aborted'[v] = IF v = user THEN aborted[v] + 1
                                             ELSE aborted[v]
           /\ \A v \in Users, m \in Tweets, b \in Actors :
                /\ queue'[<<v, m, b>>] <= 1 + aborted[v]
                /\ posted[v] < m => queue'[<<v, m, b>>] = 0
                /\ v # user => queue'[<<v, m, b>>] = queue[<<v, m, b>>]
<1>. USE DEF IInv
<1>1. user \in Users
  BY UserInList DEF ReadFails, EnqueueFails, Typed, PollerTyped
<1>2. \A v \in Users : aborted'[v] = IF v = user THEN aborted[v] + 1
                                     ELSE aborted[v]
  BY <1>1, GaveUp DEF GiveUp, Typed, HistoryTypes
<1>3. CASE UNCHANGED queue
  BY <1>1, <1>2, <1>3 DEF UnpostedUncopied, RepeatsOnlyAfterFailure
<1>4. CASE EnqueueFails /\ ~UNCHANGED queue
  <2>1. pc = "enqueue" /\ \E a \in todo : Deliver(user, batch.next, a)
    BY <1>4 DEF EnqueueFails
  <2>. QED
    BY <1>1, <1>2, <2>1, DeliveredWithin
<1>. QED
  BY <1>3, <1>4 DEF ReadFails

LEMMA RepeatsStep ==
    ASSUME IInv, [Next]_vars
    PROVE  UnpostedUncopied' /\ RepeatsOnlyAfterFailure'
<1>. USE DEF IInv, UnpostedUncopied, RepeatsOnlyAfterFailure
<1>1. ASSUME UNCHANGED <<posted, queue, aborted>>
      PROVE  UnpostedUncopied' /\ RepeatsOnlyAfterFailure'
  BY <1>1
<1>2. ASSUME NEW u \in Users, Post(u)
      PROVE  UnpostedUncopied' /\ RepeatsOnlyAfterFailure'
  <2>1. \A v \in Users, n \in Tweets : posted'[v] < n => posted[v] < n
    BY <1>2 DEF Post, Typed, WorldTypes, Tweets
  <2>. QED
    BY <1>2, <2>1 DEF Post, historyVars
<1>3. CASE Enqueue
  <2>1. PICK a \in todo : Deliver(user, batch.next, a)
    BY <1>3 DEF Enqueue
  <2>2. pc = "enqueue" /\ UNCHANGED <<posted, aborted>>
    BY <1>3 DEF Enqueue
  <2>. QED
    BY <2>1, <2>2, DeliveredWithin
<1>4. CASE ReadFails \/ EnqueueFails
  <2>1. UNCHANGED posted
    BY <1>4, GaveUp DEF GiveUp
  <2>2. \A v \in Users : aborted[v] \in Nat /\ aborted'[v] \in Nat
                         /\ aborted'[v] >= aborted[v]
    BY <1>4, GivenUpWithin DEF Typed, HistoryTypes
  <2>3. \A v \in Users, m \in Tweets, b \in Actors :
            queue'[<<v, m, b>>] \in Nat
    BY TypeStep DEF Typed, WorldTypes, Tasks
  <2>4. UnpostedUncopied'
    BY <1>4, <2>1, GivenUpWithin
  <2>5. \A v \in Users, m \in Tweets, b \in Actors :
            queue'[<<v, m, b>>] <= 1 + aborted[v]
    BY <1>4, GivenUpWithin
  <2>. QED
    BY <2>2, <2>3, <2>4, <2>5
<1>5. CASE UNCHANGED vars
  BY <1>1, <1>5 DEF vars, worldVars, historyVars
<1>6. ASSUME NEW u \in Users, NEW a \in Actors, Follow(u, a) \/ UnFollow(u, a)
      PROVE  UnpostedUncopied' /\ RepeatsOnlyAfterFailure'
  BY <1>1, <1>6 DEF Follow, UnFollow
<1>. QED
  BY <1>1, <1>2, <1>3, <1>4, <1>5, <1>6, DeliversNothing
  DEF Next, Environment, Start, FetchTweets, Quiet

LEMMA PendingStep ==
    ASSUME IInv, [Next]_vars
    PROVE  PendingCopies'
<1>. USE DEF IInv
<1>1. ASSUME UNCHANGED <<pollerVars, queue, aborted>>
      PROVE  PendingCopies'
  <2>1. \A u \in Users : Since(u)' = Since(u) /\ Handled(u)' = Handled(u)
    BY <1>1 DEF Since, Handled, Handling, user, pollerVars
  <2>. QED
    BY <1>1, <2>1 DEF PendingCopies, pollerVars
<1>2. ASSUME NEW u \in Users, Post(u)  PROVE PendingCopies'
  BY <1>1, <1>2 DEF Post, historyVars
<1>3. ASSUME NEW u \in Users, NEW a \in Actors, Follow(u, a) \/ UnFollow(u, a)
      PROVE  PendingCopies'
  BY <1>1, <1>3 DEF Follow, UnFollow
<1>4. CASE Quiet
  <2>1. \A u \in Users : Handled(u) = {} /\ Handled(u)' = {}
    BY <1>4, QuietStep DEF Handled
  <2>2. UNCHANGED <<userCursors, posted, queue, aborted>>
    BY <1>4, QuietStep DEF worldVars, historyVars
  <2>3. CASE UNCHANGED startTime /\ (pc' \in PollingStates <=> pc \in PollingStates)
    BY <2>1, <2>2, <2>3 DEF PendingCopies, Since
  <2>4. CASE startTime' = posted /\ pc \notin PollingStates
    <3>1. \A u \in Users : Since(u)' = posted[u]
      BY <2>2, <2>4 DEF CursorsKnown, Since
    <3>2. \A u \in Users, a \in Actors, n \in Tweets :
            posted[u] < n => queue'[<<u, n, a>>] <= aborted'[u]
      BY <2>2 DEF UnpostedUncopied, Typed, HistoryTypes
    <3>. QED
      BY <3>1, <3>2 DEF PendingCopies
  <2>. QED
    BY <1>4, <2>3, <2>4, QuietStep
<1>5. CASE FetchPage \/ GetFollowers \/ NextTweet
  <2>1. /\ UNCHANGED <<users, userIndex, userCursors, startTime, queue, aborted>>
        /\ pc \in PollingStates
    BY <1>5 DEF FetchPage, GetFollowers, NextTweet, worldVars, historyVars,
                PollingStates
  <2>2. \A u \in Users : Since(u)' = Since(u)
    BY <2>1 DEF Since
  <2>3. \A u \in Users : Handled(u) \subseteq Handled(u)'
    <3>1. user' = user
      BY <2>1 DEF user
    <3>2. CASE FetchPage
      BY <3>2 DEF FetchPage, Handled, Handling
    <3>3. CASE GetFollowers
      BY <3>1, <3>3 DEF GetFollowers, Handled, Handling
    <3>4. CASE NextTweet
      <4>1. batch'.next = batch.next - 1 /\ batch'.newest = batch.newest
        BY <3>4 DEF NextTweet, Typed, PollerTyped, PollerTypes
      <4>2. batch.next \in Nat /\ batch.newest \in Nat
        BY DEF Typed, PollerTyped, PollerTypes
      <4>3. (batch.next)..(batch.newest) \subseteq (batch'.next)..(batch'.newest)
        BY <4>1, <4>2
      <4>. QED
        BY <3>1, <3>4, <4>3 DEF NextTweet, Handled, Handling
    <3>. QED
      BY <1>5, <3>2, <3>3, <3>4
  <2>. QED
    BY <2>1, <2>2, <2>3 DEF PendingCopies
<1>6. CASE Enqueue
  <2>1. PICK a \in todo : Deliver(user, batch.next, a)
    BY <1>6 DEF Enqueue
  <2>2. /\ UNCHANGED <<pc, users, userIndex, userCursors, startTime, batch>>
        /\ UNCHANGED aborted
        /\ pc = "enqueue"
    BY <1>6 DEF Enqueue
  <2>3. \A u \in Users : Since(u)' = Since(u) /\ Handled(u)' = Handled(u)
    BY <2>2 DEF Since, Handled, Handling, user
  <2>4. batch.next \in Handled(user)
    BY <2>2, InHand DEF Handled, Handling, Tweets
  <2>5. ASSUME NEW u \in Users, NEW b \in Actors, NEW n \in Tweets,
               n \notin Handled(u)
        PROVE  queue'[<<u, n, b>>] = queue[<<u, n, b>>]
    BY <2>1, <2>2, <2>4, <2>5, DeliveredWithin
  <2>. QED
    BY <2>2, <2>3, <2>5 DEF PendingCopies
<1>7. CASE PageDone
  <2>1. /\ user \in Users
        /\ Since(user) \in Nat
        /\ batch.newest \in Nat
        /\ Since(user) < batch.newest
        /\ batch.newest # NoCursor
    BY <1>7, InHand DEF PageDone, Handling, Tweets, NoCursor
  <2>2. UNCHANGED <<startTime, queue, aborted>> /\ pc \in PollingStates
    BY <1>7 DEF PageDone, worldVars, historyVars, PollingStates
  <2>3. \A u \in Users : Since(u)' = IF u = user THEN batch.newest ELSE Since(u)
    BY <1>7, <2>1, <2>2 DEF PageDone, Since, Typed, PollerTyped, PollerTypes
  <2>4. \A u \in Users : Handled(u) = IF u = user THEN batch.next..batch.newest
                                      ELSE {}
    BY <1>7 DEF PageDone, Handled, Handling
  <2>5. ASSUME NEW u \in Users, NEW n \in Tweets, Since(u)' < n
        PROVE  Since(u) < n /\ n \notin Handled(u)
    <3>1. CASE u = user
      <4>1. batch.newest < n
        BY <2>3, <2>5, <3>1
      <4>2. n \in Nat /\ Since(user) < n
        BY <2>1, <4>1 DEF Tweets
      <4>3. n \notin batch.next..batch.newest
        BY <2>1, <4>1, <4>2
      <4>. QED
        BY <2>4, <3>1, <4>2, <4>3
    <3>2. CASE u # user
      BY <2>3, <2>4, <2>5, <3>2
    <3>. QED
      BY <3>1, <3>2
  <2>. QED
    BY <2>2, <2>5 DEF PendingCopies
<1>8. CASE ReadFails \/ EnqueueFails
  <2>1. UNCHANGED <<userCursors, startTime>>
    BY <1>8, GaveUp DEF GiveUp
  <2>2. \A u \in Users : Since(u)' = Since(u) /\ (u # user => Handled(u) = {})
    BY <2>1 DEF Since, Handled
  <2>3. pc \in PollingStates
    BY <1>8 DEF ReadFails, EnqueueFails, PollingStates
  <2>4. ASSUME NEW u \in Users, NEW b \in Actors, NEW n \in Tweets, Since(u) < n
        PROVE  queue'[<<u, n, b>>] <= aborted'[u]
    <3>1. CASE u = user
      BY <1>8, <3>1, GivenUpWithin DEF Typed, HistoryTypes
    <3>2. CASE u # user
      BY <1>8, <2>2, <2>3, <2>4, <3>2, GivenUpWithin DEF PendingCopies
    <3>. QED
      BY <3>1, <3>2
  <2>. QED
    BY <2>2, <2>4 DEF PendingCopies
<1>9. CASE Crash
  BY <1>9 DEF Crash, PendingCopies, PollingStates
<1>10. CASE UNCHANGED vars
  BY <1>1, <1>10 DEF vars, worldVars, historyVars
<1>. QED
  BY <1>2, <1>3, <1>4, <1>5, <1>6, <1>7, <1>8, <1>9, <1>10
  DEF Next, Environment, Start, FetchTweets, Quiet

LEMMA HandStep ==
    ASSUME IInv, [Next]_vars
    PROVE  HandCopies'
<1>. USE DEF IInv
<1>1. ASSUME pc' \notin {"followers", "enqueue"}  PROVE HandCopies'
  BY <1>1 DEF HandCopies
<1>2. ASSUME UNCHANGED <<pollerVars, queue, aborted>>  PROVE HandCopies'
  <2>1. user' = user
    BY <1>2 DEF user, pollerVars
  <2>. QED
    BY <1>2, <2>1 DEF HandCopies, pollerVars
<1>3. CASE Environment
  BY <1>2, <1>3 DEF Environment, Post, Follow, UnFollow, historyVars
<1>4. CASE Quiet \/ PageDone \/ ReadFails \/ EnqueueFails \/ Crash
  BY <1>1, <1>4, QuietStep, GaveUp DEF Handling, PageDone, GiveUp, Crash
<1>5. CASE FetchPage
  <2>1. /\ user' = user
        /\ batch'.next = posted[user]
        /\ pc' = "followers"
        /\ UNCHANGED <<queue, aborted>>
        /\ pc \in PollingStates
        /\ posted[user] > Since(user)
        /\ \A u \in Users : Handled(u) = {}
    BY <1>5 DEF FetchPage, user, worldVars, PollingStates, Handled, Handling
  <2>2. user \in Users /\ posted[user] \in Tweets
    <3>1. user \in Users
      BY <1>5, UserInList DEF FetchPage, Typed, PollerTyped
    <3>2. posted[user] \in 0..MaxPosts /\ Since(user) \in 0..MaxPosts
      BY <2>1, <3>1, PageStartType DEF Typed, PollerTyped, WorldTypes
    <3>. QED
      BY <2>1, <3>1, <3>2 DEF Tweets
  <2>3. \A a \in Actors : queue[<<user, posted[user], a>>] <= aborted[user]
    BY <2>1, <2>2 DEF PendingCopies
  <2>. QED
    BY <2>1, <2>3 DEF HandCopies
<1>6. CASE GetFollowers
  <2>1. /\ user' = user
        /\ pc = "followers" /\ pc' = "enqueue"
        /\ todo' \subseteq Actors
        /\ UNCHANGED <<batch, queue, aborted>>
    BY <1>6 DEF GetFollowers, user, worldVars, historyVars
  <2>. QED
    BY <2>1 DEF HandCopies
<1>7. CASE Enqueue
  <2>1. PICK a \in todo : Deliver(user, batch.next, a) /\ todo' = todo \ {a}
    BY <1>7 DEF Enqueue
  <2>2. /\ user' = user
        /\ pc = "enqueue" /\ pc' = "enqueue"
        /\ UNCHANGED <<batch, aborted>>
    BY <1>7 DEF Enqueue, user
  <2>3. user \in Users /\ batch.next \in Tweets /\ todo \subseteq Actors
    BY <2>2, InHand DEF Handling, Typed, PollerTyped, PollerTypes
  <2>4. \A b \in todo \ {a} :
            queue'[<<user, batch.next, b>>] = queue[<<user, batch.next, b>>]
    BY <2>1, <2>2, <2>3, DeliveredWithin
  <2>. QED
    BY <2>1, <2>2, <2>4 DEF HandCopies
<1>8. CASE NextTweet
  <2>1. /\ user' = user
        /\ pc = "enqueue" /\ pc' = "followers"
        /\ batch.next > batch.oldest
        /\ UNCHANGED <<queue, aborted>>
        /\ pc \in PollingStates
    BY <1>8 DEF NextTweet, user, worldVars, historyVars, PollingStates
  <2>2. batch'.next = batch.next - 1
    BY <1>8 DEF NextTweet, Typed, PollerTyped, PollerTypes
  <2>3. /\ user \in Users
        /\ batch.next - 1 \in Tweets
        /\ Since(user) < batch.next - 1
        /\ batch.next - 1 \notin batch.next..batch.newest
    <3>1. /\ user \in Users
          /\ Since(user) \in Nat
          /\ batch.oldest \in Tweets
          /\ batch.next \in Tweets
          /\ Since(user) < batch.oldest
      BY <2>1, InHand DEF Handling
    <3>. QED
      BY <2>1, <3>1, MaxPostsAssumption DEF Tweets
  <2>4. batch.next - 1 \notin Handled(user)
    BY <2>1, <2>3 DEF Handled, Handling
  <2>5. \A a \in Actors : queue[<<user, batch.next - 1, a>>] <= aborted[user]
    BY <2>1, <2>3, <2>4 DEF PendingCopies
  <2>. QED
    BY <2>1, <2>2, <2>5 DEF HandCopies
<1>9. CASE UNCHANGED vars
  BY <1>2, <1>9 DEF vars, worldVars, historyVars
<1>. QED
  BY <1>3, <1>4, <1>5, <1>6, <1>7, <1>8, <1>9 DEF Next, Start, FetchTweets, Quiet

-----------------------------------------------------------------------------
(* An unfollow takes effect at the next tweet. *)

LEMMA LateStep ==
    ASSUME IInv, [Next]_vars
    PROVE  LateOnce' /\ UnfollowTakesEffect'
<1>. USE DEF IInv, LateOnce, UnfollowTakesEffect
<1>t. /\ late \in [Users \X Actors -> Nat]
      /\ todo \in SUBSET Actors
      /\ follows \in SUBSET (Users \X Actors)
  BY DEF Typed, PollerTyped, PollerTypes, WorldTypes, HistoryTypes
<1>1. ASSUME UNCHANGED <<pollerVars, follows, late>>
      PROVE  LateOnce' /\ UnfollowTakesEffect'
  BY <1>1 DEF pollerVars, user
<1>2. ASSUME pc' # "enqueue", UNCHANGED late
      PROVE  LateOnce' /\ UnfollowTakesEffect'
  BY <1>2
<1>3. ASSUME NEW u \in Users, Post(u)
      PROVE  LateOnce' /\ UnfollowTakesEffect'
  BY <1>1, <1>3 DEF Post, historyVars
<1>4. ASSUME NEW u \in Users, NEW a \in Actors, Follow(u, a) \/ UnFollow(u, a)
      PROVE  LateOnce' /\ UnfollowTakesEffect'
  <2>1. /\ UNCHANGED pollerVars
        /\ late' = [late EXCEPT ![<<u, a>>] = 0]
        /\ \A v \in Users, b \in Actors : v # u \/ b # a =>
            (<<v, b>> \in follows' <=> <<v, b>> \in follows)
    BY <1>4 DEF Follow, UnFollow
  <2>2. \A v \in Users, b \in Actors :
            late'[<<v, b>>] = IF v = u /\ b = a THEN 0 ELSE late[<<v, b>>]
    BY <1>t, <2>1
  <2>3. UnfollowTakesEffect'
    <3>1. \A v \in Users, b \in Actors : late[<<v, b>>] <= 1
      OBVIOUS
    <3>2. ASSUME NEW v \in Users, NEW b \in Actors  PROVE late'[<<v, b>>] <= 1
      <4>1. CASE v = u /\ b = a
        <5>1. late'[<<v, b>>] = 0
          BY <2>2, <4>1
        <5>. QED
          BY <5>1
      <4>2. CASE v # u \/ b # a
        <5>1. late'[<<v, b>>] = late[<<v, b>>]
          BY <2>2, <4>2
        <5>. QED
          BY <3>1, <5>1
      <4>. QED
        BY <4>1, <4>2
    <3>. QED
      BY <3>2
  <2>4. user' = user
    BY <2>1 DEF pollerVars, user
  <2>5. pc = "enqueue" => user \in Users
    BY InHand DEF Handling
  <2>6. LateOnce'
    BY <1>t, <2>1, <2>2, <2>4, <2>5 DEF pollerVars
  <2>. QED
    BY <2>3, <2>6
<1>5. CASE Quiet \/ FetchPage \/ NextTweet \/ PageDone \/ Crash
  <2>1. pc' # "enqueue"
    BY <1>5, QuietStep DEF Handling, FetchPage, NextTweet, PageDone, Crash
  <2>. QED
    BY <1>2, <1>5, <2>1, DeliversNothing
<1>6. CASE GetFollowers
  <2>1. /\ user' = user
        /\ \A a \in todo' : <<user, a>> \in follows
        /\ UNCHANGED <<follows, late>>
    BY <1>6 DEF GetFollowers, user, worldVars, historyVars
  <2>. QED
    BY <2>1
<1>7. ASSUME pc = "enqueue", NEW a \in todo, Deliver(user, batch.next, a)
      PROVE  /\ user \in Users
             /\ \A v \in Users, b \in Actors :
                  /\ v # user \/ b # a => late'[<<v, b>>] = late[<<v, b>>]
                  /\ late'[<<v, b>>] <= 1
  <2>1. user \in Users /\ a \in Actors
    BY <1>7, <1>t, InHand DEF Handling
  <2>2. CASE <<user, a>> \in follows
    BY <1>7, <2>1, <2>2 DEF Deliver
  <2>3. CASE <<user, a>> \notin follows
    <3>1. late[<<user, a>>] = 0
      BY <1>7, <2>3
    <3>2. late' = [late EXCEPT ![<<user, a>>] = 1]
      BY <1>7, <2>3, <3>1 DEF Deliver
    <3>3. \A v \in Users, b \in Actors :
            late'[<<v, b>>] = IF v = user /\ b = a THEN 1 ELSE late[<<v, b>>]
      BY <1>t, <2>1, <3>1, <3>2
    <3>. QED
      BY <2>1, <3>3
  <2>. QED
    BY <2>2, <2>3
<1>8. CASE Enqueue
  <2>1. PICK a \in todo : Deliver(user, batch.next, a) /\ todo' = todo \ {a}
    BY <1>8 DEF Enqueue
  <2>2. user' = user /\ pc = "enqueue" /\ UNCHANGED follows
    BY <1>8 DEF Enqueue, user
  <2>3. UnfollowTakesEffect'
    BY <1>7, <2>1, <2>2
  <2>4. \A b \in todo' : late'[<<user, b>>] = late[<<user, b>>]
    BY <1>7, <1>t, <2>1, <2>2
  <2>5. LateOnce'
    BY <2>1, <2>2, <2>4
  <2>. QED
    BY <2>3, <2>5
<1>9. CASE ReadFails \/ EnqueueFails
  <2>1. pc' # "enqueue"
    BY <1>9, GaveUp DEF GiveUp
  <2>2. CASE UNCHANGED late
    BY <1>2, <2>1, <2>2
  <2>3. CASE EnqueueFails /\ ~UNCHANGED late
    <3>1. pc = "enqueue" /\ \E a \in todo : Deliver(user, batch.next, a)
      BY <2>3 DEF EnqueueFails
    <3>. QED
      BY <1>7, <2>1, <3>1
  <2>. QED
    BY <1>9, <2>2, <2>3 DEF ReadFails
<1>10. CASE UNCHANGED vars
  BY <1>1, <1>10 DEF vars, worldVars, historyVars
<1>. QED
  BY <1>3, <1>4, <1>5, <1>6, <1>8, <1>9, <1>10
  DEF Next, Environment, Start, FetchTweets, Quiet

-----------------------------------------------------------------------------
(* The invariants. *)

LEMMA IInvInit == Init => IInv
<1>. SUFFICES ASSUME Init PROVE IInv
  OBVIOUS
<1>1. Typed
  BY TypeInit
<1>2. /\ pc = "down"
      /\ \A u \in Users : /\ userCursors[u] = 0
                          /\ startTime[u] = 0
                          /\ posted[u] = 0
                          /\ aborted[u] = 0
      /\ \A u \in Users, a \in Actors : late[<<u, a>>] = 0
      /\ \A u \in Users, a \in Actors, n \in Tweets : queue[<<u, n, a>>] = 0
  BY DEF Init, NoCursor, Tasks
<1>3. CursorsKnown /\ BatchFollowsCursor /\ BatchServed
  BY <1>2 DEF CursorsKnown, BatchFollowsCursor, BatchServed, Handling, NoCursor
<1>4. FollowersServed
  BY <1>2 DEF FollowersServed, Tweets
<1>5. UnpostedUncopied /\ PendingCopies /\ HandCopies /\ RepeatsOnlyAfterFailure
  BY <1>2 DEF UnpostedUncopied, PendingCopies, HandCopies,
              RepeatsOnlyAfterFailure, PollingStates
<1>6. LateOnce /\ UnfollowTakesEffect
  BY <1>2 DEF LateOnce, UnfollowTakesEffect
<1>. QED
  BY <1>1, <1>3, <1>4, <1>5, <1>6 DEF IInv

LEMMA IInvStep == IInv /\ [Next]_vars => IInv'
<1>. SUFFICES ASSUME IInv, [Next]_vars PROVE IInv'
  OBVIOUS
<1>1. Typed'
  BY TypeStep DEF IInv
<1>. QED
  BY <1>1, CursorStep, BatchStep, BatchServedStep, FollowersServedStep,
     RepeatsStep, PendingStep, HandStep, LateStep
  DEF IInv

LEMMA Inductive == Spec => []IInv
BY IInvInit, IInvStep, PTL DEF Spec

\* The poller's variables keep their types.
THEOREM TypeCorrect == Spec => []TypeOK
<1>1. IInv => TypeOK
  BY DEF IInv, Typed, PollerTyped, TypeOK
<1>. QED
  BY <1>1, Inductive, PTL

\* FetchTweets never indexes outside its list of users, for any sequence of
\* refreshes, failed refreshes and crashes.
THEOREM NoIndexPanic == Spec => []IndexWithinList
<1>1. IInv => IndexWithinList
  BY DEF IInv, Typed, PollerTyped
<1>. QED
  BY <1>1, Inductive, PTL

\* A tweet the cursor has passed was enqueued for everyone who followed its
\* author when it was posted and still does, unless it fell off a full page.
THEOREM NobodyLeftOut == Spec => []FollowersServed
<1>1. IInv => FollowersServed
  BY DEF IInv
<1>. QED
  BY <1>1, Inductive, PTL

\* The copies of a task are bounded by the failures met polling its user.
THEOREM RepeatsBounded == Spec => []RepeatsOnlyAfterFailure
<1>1. IInv => RepeatsOnlyAfterFailure
  BY DEF IInv
<1>. QED
  BY <1>1, Inductive, PTL

\* At most one task is enqueued for an actor after it unfollowed.
THEOREM AtMostOneLateTask == Spec => []UnfollowTakesEffect
<1>1. IInv => UnfollowTakesEffect
  BY DEF IInv
<1>. QED
  BY <1>1, Inductive, PTL

-----------------------------------------------------------------------------
(* The poller implements Feed. *)

\* The page in hand is the newest that fits, and no followers are left over
\* when no tweet is in hand.
PageFits ==
    /\ Handling =>
        batch.oldest = IF batch.newest > Since(user) + MaxPage
                       THEN batch.newest - MaxPage + 1
                       ELSE Since(user) + 1
    /\ pc # "enqueue" => todo = {}

LEMMA PageFitsStep ==
    ASSUME IInv, PageFits, [Next]_vars
    PROVE  PageFits'
<1>1. CASE UNCHANGED pollerVars
  BY <1>1 DEF pollerVars, PageFits, Handling, user, Since
<1>2. CASE Quiet
  <2>1. todo' = {}
    BY <1>2 DEF Quiet, PageFits, StartProcess, StartRefresh, BeginPolling,
                NextUser, EndOfRound, RefreshUserList, RefreshFails, FetchNothing
  <2>. QED
    BY <1>2, <2>1, QuietStep DEF PageFits
<1>3. CASE FetchPage
  <2>1. user' = user /\ Since(user)' = Since(user) /\ todo' = {}
    BY <1>3 DEF FetchPage, user, Since, PageFits
  <2>2. batch' = [oldest |-> PageStart(user), next |-> posted[user],
                  newest |-> posted[user]]
    BY <1>3 DEF FetchPage
  <2>. QED
    BY <2>1, <2>2 DEF PageFits, PageStart
<1>4. CASE GetFollowers \/ Enqueue
  <2>1. /\ UNCHANGED <<users, userIndex, userCursors, startTime, batch>>
        /\ Handling /\ pc' = "enqueue"
    BY <1>4 DEF GetFollowers, Enqueue, Handling
  <2>. QED
    BY <2>1 DEF PageFits, user, Since
<1>5. CASE NextTweet
  <2>1. /\ UNCHANGED <<users, userIndex, userCursors, startTime>>
        /\ Handling /\ todo' = {}
    BY <1>5 DEF NextTweet, Handling
  <2>2. batch'.oldest = batch.oldest /\ batch'.newest = batch.newest
    BY <1>5 DEF NextTweet, IInv, Typed, PollerTyped, PollerTypes
  <2>. QED
    BY <2>1, <2>2 DEF PageFits, user, Since
<1>6. CASE PageDone \/ ReadFails \/ EnqueueFails \/ Crash
  BY <1>6, GaveUp DEF PageDone, GiveUp, Crash, Handling, PageFits
<1>. QED
  BY <1>1, <1>2, <1>3, <1>4, <1>5, <1>6
  DEF Next, Environment, Start, FetchTweets, Quiet, Post, Follow, UnFollow, vars

\* What Feed sees of the page in hand, and of everything when none is.
InHandPoll ==
    [newest |-> batch.newest,
     tweet  |-> IF pc = "enqueue" THEN batch.next ELSE batch.next + 1,
     left   |-> todo]

LEMMA OnePoll ==
    ASSUME Handling, user \in Users
    PROVE  /\ poll = [u \in Users |-> IF u = user THEN InHandPoll ELSE Promised!Idle]
           /\ poll[user] = InHandPoll
BY DEF poll, Handling, InHandPoll, Promised!Idle

LEMMA NoPoll ==
    ASSUME ~Handling
    PROVE  poll = [u \in Users |-> Promised!Idle]
BY DEF poll, Handling, Promised!Idle

\* The mark of each user: how far it is, while the feed is on.
LEMMA MarkOf ==
    ASSUME NEW u \in Users
    PROVE  mark[u] = IF on THEN Since(u) ELSE 0
BY DEF mark

\* A poll in hand is not idle, and it has taken everything exactly when its
\* last tweet is the oldest of the page.
LEMMA PollInHand ==
    ASSUME IInv, PageFits, Handling
    PROVE  /\ user \in Users /\ on
           /\ poll[user] = InHandPoll
           /\ InHandPoll # Promised!Idle
           /\ pc = "followers" => ~Promised!Complete(user)
           /\ pc = "enqueue" => (Promised!Complete(user) <=> batch.next = batch.oldest)
<1>1. /\ user \in Users
      /\ Since(user) < batch.oldest
      /\ batch.oldest <= batch.next
      /\ batch.next <= batch.newest
  BY InHand DEF IInv, BatchFollowsCursor
<1>2. on /\ mark[user] = Since(user)
  BY <1>1, MarkOf DEF on, Handling, PollingStates
<1>3. poll[user] = InHandPoll
  BY <1>1, OnePoll
<1>4. Since(user) \in Nat /\ batch.oldest \in Nat /\ batch.next \in Nat
      /\ batch.newest \in Nat
  BY <1>1 DEF IInv, Typed, PollerTyped, PollerTypes, Since
<1>5. InHandPoll # Promised!Idle
  BY <1>1, <1>4 DEF InHandPoll, Promised!Idle
<1>6. batch.oldest = IF batch.newest > Since(user) + MaxPage
                     THEN batch.newest - MaxPage + 1
                     ELSE Since(user) + 1
  BY DEF PageFits
<1>7. ASSUME pc = "followers" PROVE ~Promised!Complete(user)
  <2>1. poll[user].tweet = batch.next + 1 /\ poll[user].newest = batch.newest
    BY <1>3, <1>7 DEF InHandPoll
  <2>. QED
    BY <1>1, <1>2, <1>4, <1>6, <2>1, MaxPageAssumption DEF Promised!Complete
<1>8. ASSUME pc = "enqueue"
      PROVE  Promised!Complete(user) <=> batch.next = batch.oldest
  <2>1. poll[user].tweet = batch.next /\ poll[user].newest = batch.newest
    BY <1>3, <1>8 DEF InHandPoll
  <2>. QED
    BY <1>1, <1>2, <1>4, <1>6, <2>1, MaxPageAssumption DEF Promised!Complete
<1>. QED
  BY <1>1, <1>2, <1>3, <1>5, <1>7, <1>8

\* A step that leaves Feed's variables alone is a stutter of Feed.
LEMMA FeedStutter ==
    ASSUME UNCHANGED <<posted, follows, queue>>, on' = on, poll' = poll,
           \A u \in Users : on => Since(u)' = Since(u)
    PROVE  UNCHANGED Promised!feed
<1>1. mark' = mark
  BY DEF mark
<1>. QED
  BY <1>1 DEF Promised!feed

\* What the calls between the pages do is not seen, but for the start.
LEMMA FeedQuiet ==
    ASSUME IInv, Quiet
    PROVE  [Promised!Next]_(Promised!feed)
<1>1. poll' = [u \in Users |-> Promised!Idle] /\ poll = [u \in Users |-> Promised!Idle]
  BY QuietStep DEF poll, Handling, Promised!Idle
<1>2. UNCHANGED <<posted, follows, queue>>
  BY QuietStep DEF worldVars
<1>3. CASE BeginPolling
  <2>1. ~on /\ on'
    BY <1>3 DEF BeginPolling, on, PollingStates
  <2>2. ASSUME NEW u \in Users PROVE Since(u)' = posted[u]
    BY <1>3, <2>1 DEF BeginPolling, Since, IInv, CursorsKnown, on
  <2>3. posted = [u \in Users |-> posted[u]]
    BY DEF IInv, Typed, WorldTypes
  <2>4. mark' = posted
    BY <2>1, <2>2, <2>3 DEF mark
  <2>. QED
    BY <1>1, <1>2, <2>1, <2>4 DEF Promised!Next, Promised!TurnOn
<1>4. CASE ~BeginPolling
  <2>1. on' = on /\ UNCHANGED <<userCursors, startTime>>
    BY <1>4 DEF Quiet, StartProcess, StartRefresh, NextUser, EndOfRound,
                RefreshUserList, RefreshFails, FetchNothing, on, PollingStates
  <2>. QED
    BY <1>1, <1>2, <2>1, FeedStutter DEF Since
<1>. QED
  BY <1>3, <1>4

\* Twitter, and the inbox, do in Feed what they do in Poller.
LEMMA FeedEnvironment ==
    ASSUME Environment
    PROVE  Promised!Next
<1>1. UNCHANGED pollerVars
  BY DEF Environment, Post, Follow, UnFollow
<1>2. on' = on /\ mark' = mark /\ poll' = poll
  BY <1>1 DEF pollerVars, on, mark, poll, Since, user
<1>3. ASSUME NEW u \in Users, Post(u) PROVE Promised!Post(u)
  BY <1>2, <1>3 DEF Post, Promised!Post
<1>4. ASSUME NEW u \in Users, NEW a \in Actors, Follow(u, a)
      PROVE  Promised!Follow(u, a)
  BY <1>2, <1>4 DEF Follow, Promised!Follow
<1>5. ASSUME NEW u \in Users, NEW a \in Actors, UnFollow(u, a)
      PROVE  Promised!UnFollow(u, a)
  BY <1>2, <1>5 DEF UnFollow, Promised!UnFollow
<1>. QED
  BY <1>3, <1>4, <1>5 DEF Environment, Promised!Next, Promised!Advance

\* Steps that handle a page leave the users' order and marks alone.
LEMMA SamePage ==
    ASSUME UNCHANGED <<users, userIndex, userCursors, startTime>>,
           pc \in PollingStates, pc' \in PollingStates
    PROVE  user' = user /\ on' = on /\ mark' = mark
BY DEF user, on, mark, Since

LEMMA FeedPage ==
    ASSUME IInv, PageFits, FetchPage \/ GetFollowers \/ Enqueue \/ NextTweet
    PROVE  [Promised!Next]_(Promised!feed)
<1>1. user' = user /\ on' = on /\ mark' = mark /\ Handling' /\ on
  BY SamePage DEF FetchPage, GetFollowers, Enqueue, NextTweet, PollingStates,
                  Handling, on
<1>2. user \in Users
  BY UserInList
  DEF FetchPage, GetFollowers, Enqueue, NextTweet, IInv, Typed, PollerTyped
<1>3. /\ poll' = [u \in Users |-> IF u = user THEN InHandPoll' ELSE Promised!Idle]
  BY <1>1, <1>2 DEF poll, InHandPoll, Promised!Idle, Handling
<1>4. CASE FetchPage
  <2>1. poll = [u \in Users |-> Promised!Idle]
    BY <1>4, NoPoll DEF FetchPage, Handling
  <2>2. InHandPoll' = [newest |-> posted[user], tweet |-> posted[user] + 1, left |-> {}]
    BY <1>4 DEF FetchPage, InHandPoll, PageFits
  <2>3. posted[user] > mark[user]
    BY <1>1, <1>2, <1>4 DEF FetchPage, mark
  <2>4. poll' = [poll EXCEPT ![user] =
            [newest |-> posted[user], tweet |-> posted[user] + 1, left |-> {}]]
    BY <1>2, <1>3, <2>1, <2>2
  <2>5. Promised!Begin(user)
    BY <1>1, <1>2, <1>4, <2>1, <2>3, <2>4 DEF FetchPage, Promised!Begin, worldVars
  <2>. QED
    BY <1>2, <2>5 DEF Promised!Next, Promised!Advance
<1>5. ASSUME Handling
      PROVE  poll = [u \in Users |-> IF u = user THEN InHandPoll ELSE Promised!Idle]
  BY <1>2, <1>5, OnePoll
<1>6. CASE GetFollowers
  <2>. DEFINE follower == {a \in Actors : <<user, a>> \in follows}
  <2>1. Handling /\ pc = "followers" /\ pc' = "enqueue" /\ batch' = batch
    BY <1>6 DEF GetFollowers, Handling
  <2>2. todo = {} /\ todo' = follower
    BY <1>6 DEF GetFollowers, PageFits
  <2>3. batch.next \in Nat
    BY DEF IInv, Typed, PollerTyped, PollerTypes
  <2>4. InHandPoll = [newest |-> batch.newest, tweet |-> batch.next + 1, left |-> {}]
    BY <2>1, <2>2 DEF InHandPoll
  <2>5. InHandPoll' = [newest |-> batch.newest, tweet |-> batch.next, left |-> follower]
    BY <2>1, <2>2 DEF InHandPoll
  <2>. HIDE DEF follower
  <2>6. InHandPoll' = [newest |-> InHandPoll.newest,
                       tweet  |-> InHandPoll.tweet - 1,
                       left   |-> follower]
    BY <2>3, <2>4, <2>5
  <2>7. poll' = [poll EXCEPT ![user] = InHandPoll']
    BY <1>2, <1>3, <1>5, <2>1
  <2>8. poll' = [poll EXCEPT ![user] = [newest |-> @.newest, tweet |-> @.tweet - 1,
                                        left |-> follower]]
    BY <1>2, <1>5, <2>1, <2>6, <2>7
  <2>9. Promised!Take(user)
    BY <1>1, <1>6, <2>1, <2>4, <2>8, PollInHand
    DEF GetFollowers, Promised!Take, worldVars, follower
  <2>. QED
    BY <1>2, <2>9 DEF Promised!Next, Promised!Advance
<1>7. CASE Enqueue
  <2>1. PICK a \in todo : Deliver(user, batch.next, a) /\ todo' = todo \ {a}
    BY <1>7 DEF Enqueue
  <2>2. Handling /\ pc = "enqueue" /\ pc' = "enqueue" /\ batch' = batch
    BY <1>7 DEF Enqueue, Handling
  <2>3. InHandPoll = [newest |-> batch.newest, tweet |-> batch.next, left |-> todo]
    BY <2>2 DEF InHandPoll
  <2>4. InHandPoll' = [newest |-> batch.newest, tweet |-> batch.next, left |-> todo \ {a}]
    BY <2>1, <2>2 DEF InHandPoll
  <2>5. poll' = [poll EXCEPT ![user].left = @ \ {a}]
    <3>1. InHandPoll' = [InHandPoll EXCEPT !.left = @ \ {a}]
      BY <2>3, <2>4
    <3>2. poll' = [poll EXCEPT ![user] = InHandPoll']
      BY <1>2, <1>3, <1>5, <2>2
    <3>3. poll[user] = InHandPoll
      BY <1>2, <1>5, <2>2
    <3>. QED
      BY <1>2, <3>1, <3>2, <3>3
  <2>6. poll[user] = InHandPoll
    BY <2>2, PollInHand
  <2>7. Promised!Enqueue(user, a)
    <3>1. a \in poll[user].left /\ poll[user].tweet = batch.next
      BY <2>1, <2>3, <2>6
    <3>2. Promised!Copy(user, a)
      BY <2>1, <3>1 DEF Deliver, Promised!Copy
    <3>. QED
      BY <1>1, <1>7, <2>5, <3>1, <3>2 DEF Enqueue, Promised!Enqueue
  <2>8. a \in Actors
    BY <2>1 DEF IInv, Typed, PollerTyped, PollerTypes
  <2>. QED
    BY <1>2, <2>7, <2>8 DEF Promised!Next, Promised!Advance
<1>8. CASE NextTweet
  <2>1. Handling /\ pc = "enqueue" /\ pc' = "followers" /\ todo' = todo
    BY <1>8 DEF NextTweet, Handling
  <2>2. /\ batch.next \in Nat
        /\ batch' = [oldest |-> batch.oldest, next |-> batch.next - 1,
                     newest |-> batch.newest]
    <3>1. batch \in [oldest: 0..MaxPosts, next: 0..MaxPosts, newest: 0..MaxPosts]
      BY DEF IInv, Typed, PollerTyped, PollerTypes
    <3>2. batch' = [batch EXCEPT !.next = @ - 1]
      BY <1>8 DEF NextTweet
    <3>. QED
      BY <3>1, <3>2
  <2>3. InHandPoll' = InHandPoll
    BY <2>1, <2>2 DEF InHandPoll
  <2>4. poll' = poll
    BY <1>3, <1>5, <2>1, <2>3
  <2>. QED
    BY <1>1, <1>8, <2>4 DEF NextTweet, worldVars, Promised!feed
<1>. QED
  BY <1>4, <1>6, <1>7, <1>8

LEMMA FeedPageOver ==
    ASSUME IInv, PageFits, PageDone \/ ReadFails \/ EnqueueFails \/ Crash
    PROVE  [Promised!Next]_(Promised!feed)
<1>1. poll' = [u \in Users |-> Promised!Idle]
  BY GaveUp DEF PageDone, GiveUp, Crash, poll, Promised!Idle
<1>2. CASE Crash
  <2>1. ~on' /\ mark' = [u \in Users |-> 0]
    BY <1>2 DEF Crash, on, PollingStates, mark
  <2>. QED
    BY <1>1, <1>2, <2>1 DEF Crash, worldVars, Promised!Next, Promised!TurnOff, on
<1>3. ASSUME Handling
      PROVE  /\ poll = [u \in Users |-> IF u = user THEN InHandPoll ELSE Promised!Idle]
             /\ poll[user] # Promised!Idle
             /\ user \in Users
             /\ poll' = [poll EXCEPT ![user] = Promised!Idle]
  <2>1. user \in Users /\ poll[user] # Promised!Idle
    BY <1>3, PollInHand
  <2>2. poll = [u \in Users |-> IF u = user THEN InHandPoll ELSE Promised!Idle]
    BY <1>3, <2>1, OnePoll
  <2>. QED
    BY <1>1, <2>1, <2>2
<1>4. CASE PageDone
  <2>1. Handling /\ pc = "enqueue" /\ todo = {} /\ batch.next = batch.oldest
    BY <1>4 DEF PageDone, Handling
  <2>2. on /\ on' /\ Promised!Complete(user) /\ poll[user] = InHandPoll
    BY <1>4, <2>1, PollInHand DEF PageDone, on, PollingStates
  <2>3. poll[user].left = {} /\ poll[user].newest = batch.newest
    BY <2>1, <2>2 DEF InHandPoll
  <2>4. batch.newest # NoCursor
    BY <2>1, InHand DEF IInv, BatchFollowsCursor, NoCursor, Since, Typed,
                        PollerTyped, PollerTypes
  <2>5. userCursors \in [Users -> 0..MaxPosts]
    BY DEF IInv, Typed, PollerTyped, PollerTypes
  <2>6. \A u \in Users : Since(u)' = IF u = user THEN batch.newest ELSE Since(u)
    BY <1>4, <2>4, <2>5 DEF PageDone, Since
  <2>7. mark' = [mark EXCEPT ![user] = batch.newest]
    BY <2>2, <2>6 DEF mark
  <2>8. Promised!Finish(user)
    BY <1>3, <1>4, <2>1, <2>2, <2>3, <2>7 DEF PageDone, worldVars, Promised!Finish
  <2>. QED
    BY <1>3, <2>1, <2>8 DEF Promised!Next, Promised!Advance
<1>5. CASE ReadFails \/ EnqueueFails
  <2>1. user' = user /\ on' = on /\ mark' = mark /\ UNCHANGED <<posted, follows>>
    BY <1>5, GaveUp, SamePage DEF GiveUp, ReadFails, EnqueueFails, PollingStates
  <2>2. CASE ~Handling
    <3>1. poll' = poll /\ ReadFails
      BY <1>1, <1>5, <2>2, NoPoll DEF EnqueueFails, Handling
    <3>. QED
      BY <2>1, <3>1 DEF ReadFails, Promised!feed
  <2>3. CASE Handling
    <3>1. UNCHANGED queue \/ \E a \in poll[user].left : Promised!Copy(user, a)
      <4>1. CASE UNCHANGED queue
        BY <4>1
      <4>2. CASE EnqueueFails /\ ~UNCHANGED queue
        <5>1. poll[user].left = todo /\ poll[user].tweet = batch.next
          BY <2>3, <4>2, PollInHand DEF EnqueueFails, InHandPoll
        <5>2. \E a \in todo : Deliver(user, batch.next, a)
          BY <4>2 DEF EnqueueFails
        <5>. QED
          BY <5>1, <5>2 DEF Deliver, Promised!Copy
      <4>. QED
        BY <1>5, <4>1, <4>2 DEF ReadFails
    <3>2. Promised!Fail(user)
      BY <1>3, <2>1, <2>3, <3>1 DEF Promised!Fail
    <3>. QED
      BY <1>3, <2>3, <3>2 DEF Promised!Next, Promised!Advance
  <2>. QED
    BY <2>2, <2>3
<1>. QED
  BY <1>2, <1>4, <1>5

LEMMA FeedStep ==
    ASSUME IInv, PageFits, [Next]_vars
    PROVE  [Promised!Next]_(Promised!feed)
<1>1. CASE UNCHANGED vars
  <2>1. poll' = poll /\ on' = on
    BY <1>1 DEF vars, pollerVars, poll, on, user
  <2>. QED
    BY <1>1, <2>1, FeedStutter DEF vars, pollerVars, worldVars, Since
<1>. QED
  BY <1>1, FeedQuiet, FeedEnvironment, FeedPage, FeedPageOver
  DEF Next, Start, FetchTweets, Quiet

\* The poller implements Feed, for any users, followers, page size and number
\* of failures: what is enqueued, when and for whom, is what one independent
\* poll per user would enqueue that takes its tweets newest first, reads the
\* followers of each, and moves its mark only when all is done.
THEOREM PollerImplementsFeed == Spec => FeedsAsPromised
<1>1. Init => Promised!Init /\ PageFits
  <2>. SUFFICES ASSUME Init PROVE Promised!Init /\ PageFits
    OBVIOUS
  <2>1. ~on /\ ~Handling
    BY DEF Init, on, PollingStates, Handling
  <2>2. mark = [u \in Users |-> 0] /\ poll = [u \in Users |-> Promised!Idle]
    BY <2>1, NoPoll DEF mark
  <2>. QED
    BY <2>1, <2>2 DEF Init, Promised!Init, PageFits, Tasks, Tweets, on
<1>. QED
  BY <1>1, Inductive, PageFitsStep, FeedStep, PTL
  DEF Spec, FeedsAsPromised, Promised!Spec
=============================================================================
