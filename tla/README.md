# Estrys: a verification project

Estrys bridges Twitter to the fediverse: remote (Mastodon) actors follow the
Twitter users an instance bridges, and get their tweets as ActivityPub notes.
This directory holds TLA+ models of the Go code under `src/`, the TLC runs that
check them on small instances, and theorems about them that TLAPS checks for
every instance. All paths below are relative to the repository.

- [1. The system](#1-the-system)
- [2. Modules and how they correspond to the code](#2-modules-and-how-they-correspond-to-the-code)
- [3. Runs](#3-runs)
- [4. Proofs](#4-proofs)
- [5. What disagrees with the code's own words](#5-what-disagrees-with-the-codes-own-words)
- [6. Not modelled](#6-not-modelled)
- [7. Plan](#7-plan)

## 1. The system

Two programs share Postgres and Redis: `cmd/estrys` (HTTP server, poller and,
unless it is disabled, an embedded worker) and `cmd/worker` (worker only).

```
 remote server --activity--> HandleInbox ---+--> followers, actors (Postgres)
                                            +--> accept / reject task --+
 Twitter --timeline--> poller --send task---------------------------->  asynq queue (Redis)
                         |  reads followers                             |
                         +-- users, followers                           v
 remote server <--post-- PostInbox <-- task handlers <---------------- worker
                                         |  SaveTweetAndReferences
                                         +--> Twitter, users (Postgres), tweets (Redis)
```

| Component | State | Operations | Hard about it | What makes it correct |
|---|---|---|---|---|
| Twitter poller (`twitter/poller`) | user list, index, cursor per user, start time; all in memory | `Start`, `FetchTweets`, `RefreshUserList`, `handleTweet` | calls fail in the middle of a page; follows come and go while the list is walked; restarts forget cursors | nobody who follows misses a tweet; repeats have a cause; the index fits the list; an unfollow takes effect; it gets round to everybody |
| Inbox (`activitypub/handlers`, `domain/inbox.go`) | `actors`, `followers` tables | `HandleInbox`, `Follow`, `UnFollow`, `createActorIfNoExist` | concurrent handlers without transactions; activities repeated and reordered; failures and exits between two writes | a follow is accepted once; a stored follow is accepted; tasks find what they refer to; what was not done is not acknowledged |
| Worker (`worker/...`) and ActivityPub client | asynq's task states in Redis | `HandleAcceptFollow`, `HandleRejectFollow`, `HandleSendTweet`, `ErrorHandler`, `PostInbox` | timeouts, retries, shutdown, crash, late and lost posts; errors whose meaning is their text | every task ends; answers to follows use all their retries unless the handler calls a failure final; tweets are not repeated without cause; refusals are final |
| Tweet service and store (`domain/tweet.go`, `twitter/repository`, `cache`) | tweets in Redis with a time to live | `SaveTweetAndReferences` | many sends of related tweets at once; store reads and writes far apart; a partial failure between writes | stored tweets have authors; references are kept as they are; sends do not break each other |
| User service (`domain/users.go`) | `users` table with a key pair per user | `BatchCreateUsers` at start-up, `BatchCreateUsersFromIDs` in sends, `GetFullUser` for pages | lookup then insert, concurrently; usernames that are numbers; users that are renamed | one key pair per user, for good; every configured user has a row when pages are served |
| Twitter client (`twitter/client.go`) | cache of Twitter users in Redis, under two keys | `GetUser`, `GetUserByIDs`, `GetTweets`, `GetUserTweets` | entries that outlive the user; either key may be lost; late answers are cached | answers who was asked for; who left Twitter is forgotten |
| Status, actor and WebFinger pages (`activitypub/handlers`, `domain/status`, `errors`) | none | `HandleStatus`, `HandleUser`, `HandleFollowing`, `HandleFollowers`, `HandleOutbox`, `HandleWebFinger`, `HTTPErrorHandler` | tweets that expired; two sources, database and Twitter, joined by a name | a page shows one account; the link of a note resolves |
| ActivityPub vocabulary (`activitypub/vocab.go`) and signing (`activitypub/client`) | one signer with a hash, behind a mutex | `GetAccept`, `GetReject`, `GetCreateNoteFromTweet`, `GetActor`, collections; `RoundTrip` | tasks share the signer and fail in it; the receiver looks up the key by a name | who receives a post can verify it; links lead back to what they name |
| Key manager, signatures (`crypto`, `activitypub/auth`) | LRU cache of remote keys | `FetchKey`, `HTTPSigMiddleware` | concurrent fetches, evictions, keys that change, restarts | an actor that keeps its key is trusted, one given up is forgotten |
| Authorization (`authorization`) | none (configuration) | `IsGranted`, `canFollow` | - | only allowed actors follow |
| Start-up and shutdown (`cmd`, `server.go`), container, configuration | the process context; the registered services | `Bootstrap`, `BuildContainer`, `main`, `StartServer` | order of start-up; signals at any point; exit without waiting | nothing works before what it works on; a program that is told to stop does; an exit says what it cut |
| Logging, tracing, templates, mocks | - | formatting | - | - |

`PROJECT.json` lists the same components with what is modelled of each, and
under `hazards` the places where this code can go wrong in a way a unit test
would hardly reach, with the properties that watch over them.

### How the modules compose

```
 Poller --> Feed   Inbox --> Following   Worker --> Delivery   Tweets
 MCPoller          MCInbox               MCWorker              MCTweets
 PollerProofs      InboxProofs           WorkerProofs          TweetsProofs

 Users <-- Pages   Posts                 Signatures <-- Server --> Trust
           MCPages MCPosts                              MCServer
           PagesProofs  PostsProofs                     ServerProofs

 Ticker
 TickerProofs
```

`A --> B` reads "A implements B": `Feed`, `Following`, `Delivery` and `Trust` are
abstract specifications, what a component promises to those who do not know how it
works. They name no code; each is instantiated, with a refinement mapping, at
the end of the module that implements it.

`A <-- B` reads "B extends A": `Pages` runs the page handlers and the tweet store
on top of the user service, `Server` runs the inbox's key check inside the life of
the programs.

## 2. Modules and how they correspond to the code

One TLA+ action is one call that another goroutine, process or server can come
between: a query, an enqueue, a request to Twitter or to a remote server. What
happens in memory between two calls is part of the action.

### Poller

`poller.go`, one goroutine. `pc` is the call about to be made. `users`,
`userIndex`, `userCursors` and `startTime` are the fields of `twitterPoller`.
`batch` and `todo` are the loop variables of `FetchTweets` and `handleTweet`.
`posted`, `follows` and `queue` stand for Twitter, the followers table and the
asynq queue.

- `StartProcess`, `StartRefresh` and `BeginPolling` are `Start` up to its loop;
  `BeginPolling` is a step of its own because up to five seconds pass between
  the list that was read and the start time.
- `NextUser`, `EndOfRound`, `RefreshUserList`, `RefreshFails`, `FetchNothing`,
  `FetchPage`, `GetFollowers`, `Enqueue`, `NextTweet`, `PageDone`, `ReadFails`
  and `EnqueueFails` are one tick. Index and cursor move only in `PageDone` and
  `FetchNothing`: this is what makes a failed page come again.
- `UserLists` is `GetWithFollowers`: the join without `DISTINCT`, any order.
- `Crash` is every way the process stops; it forgets all in-memory fields.

`Feed` is what an actor that follows somebody may rely on, without the list, the
index, the rounds and the order in which users are asked: each user has polls of
its own, which begin with the tweets since the last complete one, as many as a page
holds, take the followers of the moment for each tweet, and are complete when the
oldest was enqueued for all of them; one that fails is made again from where it
began. `on`, `mark` and `poll` of `Poller` are the mapping: whether the process
polls, each user's cursor or the start time, and the poll in hand.

Tweets of a user are numbered in the order they are posted, and replies, which
the request excludes, have no number. The start time is the number of the last
tweet then posted: that it is sent with a precision of one second is left out.

### Inbox

`HandleInbox` and `domain/inbox.go`; any number of requests at a time, each
with its activity, step and answer in `req`. What is decided before the first
database call (signature, Twitter lookup, JSON, kind and host of the object)
only picks an answer: `Early` and `Triage`. Then `GetUser`, `GetActor`,
`FetchKey`, `CreateActor`, `StoreFollow`, `EnqueueAccept`, `EnqueueReject` and
`DeleteFollow` are the calls, in the order of the code; in particular the actor
is stored before the instance's rules are checked. `CallFails` and
`WriteDoneButFails` are the error returns, the second when the write was done
all the same. The unique keys of the migrations are the guards of the inserts; `Insert`,
`AddActors` and `RemoveActors` are the generated statements. `IsGranted` asks
`canFollow`, whose suffixes of the configuration are the set `Allowed`.
`Crash` cuts every request in flight: `StartServer` calls `Shutdown` with a
context that is cancelled already, so main does not wait for handlers either.

`Following` is what a remote actor may rely on: each request takes effect in one
step, or a follow in two (stored, then accepted), or not at all, and the status it
is answered with says which. Only 500 and silence leave it open. The table of
actors, the keys, the lookups and the five calls of a handler are not in it; `ask`
of `Inbox` maps a request's step to what has become of it.

### Ticker

The rate of the poller by itself, because `Poller` has no time: the `time.Ticker`
of `Start` (external: a channel with room for one tick; a late tick moves the next
to the next multiple of the period), the loop that takes ticks, and the calls of
`GetUserTweets`, each at some time after its tick. A new process has a new ticker,
and Twitter counts the requests of both.

### Worker

The three handlers, `ErrorHandler` and `PostInbox`, on top of what they use of
asynq v0.23 (external): states pending, active, retry, completed and archived,
`MaxRetry`, timeout, `SkipRetry`, lease recovery, and shutdown through
`BaseContext`. A post is on the `wire` from the moment it is sent: it outlives
the attempt that sent it, and may arrive late or never. `Receive` is the remote
server. The functions `AcceptFollowError`, `RejectFollowError` and
`SendTweetError` say what asynq sees of the error a handler returns. What the
handlers mean is another matter (section 5): `CallsFinal` are the failures into whose
text they write `SkipRetry`, and `final` the tasks given up over one of those. The
accept handler means a refusal to be final and a 5xx to be retried, the reject handler
the opposite. `Shutdown` cuts what is in progress and ends the process at once; a
worker that stays up with a cancelled context (section 5) cuts what it takes up too,
which is `Expire` here.

`Delivery` says what the rest of the instance may rely on, without attempts,
timeouts, wire or processes: a task waits, is tried at most `MaxRetry + 1` times,
its activity is processed at most once per try, however late, and it is called
delivered only after its activity was processed. The variable `delivery` of
`Worker` is the refinement mapping, and `DeliversAsPromised` the claim.

### Tweets

`SaveTweetAndReferences`, `BatchCreateUsersFromIDs` and the Redis store, by any
number of concurrent `Sends`. The record `send[s]` holds the local variables of
the call: the tweet, the references left to look up (`todo`), to fetch
(`missing`), in hand (`got`) and not yet stored (`unsaved`), and the authors
still to be looked up. A store write may be lost, because `redisCache.Set`
drops the error of the Redis call; a read may miss or fail; `Expire` is the time
to live. `Found` is `userRepo.Get`, which takes a number for an id first and for a
username after: an author whose id is the username of another row counts as found,
and gets no row. A tweet is reduced to the references it keeps and the type under which
it was itself referred to; text and media have no part in any property.

### Users and Pages

`Users` is `domain/users.go` with the users table and the cache of Twitter users.
Three kinds of callers, main, sends and page requests, each make one call at a
time, whose local variables are in `call[p]`; the steps are the queries
(`GetRow`, `CreateUser`), the reads and the write of the cache (`CacheHit`,
`CacheMiss`, `SaveUser`, `CacheIdHit`, `CacheIdMiss`) and the requests to Twitter
(`UserNameLookup`, `UserLookup`). `CallFails` is every error return. `byName` and
`byId` are the two keys a user is cached under; each of them expires on its own, and either
write may be lost. Meanwhile accounts change their names and leave (`Rename`,
`Leave`); `held` remembers which names they had. A username may look like an id:
`Ids` and `Names` may overlap, and `Get` first takes what looks like an id for
one, which the table does not keep unique. Upper case is left out: the code
lowers it where it stores and where it looks up.

`Pages` adds the handlers. `AskActorPage`, `AskWebFinger` and `AskStatus` are a
handler up to its `GetFullUser`, `AskRetweet` is the second one of `HandleStatus`,
and `Status` is what `HTTPErrorHandler` answers at the end, 500 for a panic too.
The tweet store holds one tweet, which sends store under the name Twitter
includes for the author at that moment.

### Posts

`RoundTrip` of any number of tasks on the signer they share: `Lock`, then the two
halves of `SignRequest` (`WriteHash`, `SignRequest` or `SignFails`), then
`Unlock`. go-fed's signer writes a request into its hash before it signs the hash; the two
halves are steps so that a missing mutex would show. The activities of
`vocab.go` are records of the URLs in them, a URL is a route and a
username. A remote server (`Receive`) gets the page the key id names, through
`GetFullUser` (`Answers`), and verifies signature, key id, owner and actor.

### Signatures and Server

`Signatures` is `HTTPSigMiddleware` and `FetchKey`. A key is a number that grows
when its actor changes it, a signature the number it was made with. The cache is
golang-lru's: a sequence, the entry used last first. `AskKey` and `AddKey` are
apart because the actor's server answers in between. `Algorithm` is the type
switch of the middleware, which never matches the type in which Ed25519 keys are
parsed.

`Server` is the main goroutine of each program, step by step (`phase`): `Start`
and `Build` (container and configuration), `Connect`, `Ping`, then `Migrate`,
`CreateUsers` and `Shutdown`, or `StartBroker` and `StopBroker`. `Registrations` lists the services in the
order `BuildContainer` registers them, each with those its constructor asks
for. There are two subscriptions to signals: Bootstrap's, which cancels the context,
and asynq's, made later by its `Run`, which does not look at the context. So `Signal`
ends a program in which there is neither, cancels the context of one with the first
only (the worker in phase "starting"), and makes a worker that has both stop.
`BatchCreateUsers` of no users, the default, asks nothing, so that an instance that
does not migrate either starts its server without tables; `StartPoller` needs them in
any case. `Exit` takes everything in memory with it, the key
cache included. `StartPoller` and `ListenAndServe` are the goroutines; their
insides are in `Poller` and `Inbox`.

`Trust` is what a remote actor may rely on: a signed request is compared with one
of the keys the actor has had since the server was restarted, or could not be
compared, whatever is cached, evicted, asked for and added by other requests. `up`
and `seen` of `Server` are the mapping.

### MC modules and proof modules

The `MC` modules add symmetry sets and the small tweet graph, users tables and
authors; the `Proofs` modules hold the theorems. A definition whose comment begins
"Mutant of" is no part of a specification: it is the neighbouring definition
with a plausible bug, used to see that a property notices it.

## 3. Runs

Run one with `tlc -workers 2 -config X.cfg MCY`.

| Run | Config | Shows |
|---|---|---|
| poller_page | one user, two actors, 3 tweets, pages of 2, 1 failure per user, restarts | `FollowersServed`, `RepeatsOnlyAfterFailure`, `UnfollowTakesEffect`, the refinement `FeedsAsPromised`, types |
| poller_live | two users, one actor, fairness | `EventuallyScheduled`; `IndexWithinList` |
| inbox | three requests, two actors (one allowed), a bridged and an unknown user | `OneAcceptPerRow`, `StrandedOnlyByFailure`, `TasksFindTheirActor`, `OnlyUndoRepairs`, the refinement `FollowsAsPromised`, types |
| worker | an accept and a tweet, two at a time, one retry, fairness | `TweetRepeatsOnlyIfCut`, `FollowAnswersUseEveryRetry`, `EveryTaskEnds`, the refinement `DeliversAsPromised`, types |
| worker_refusal | one accept, 5 retries | `RefusalIsFinal` is violated |
| tweets | three sends of five tweets by four authors, two of them bridged; the username of one unknown author is the id of the other | `AuthorsKnown`, `KeysNeverChange`, types |
| tweets_retweets, tweets_race | two sends | `OnlyRetweetsAreReplaced`, `SendsSucceed` are violated |
| pages | two accounts, three names of which one is an id, one rename or departure, start-up, a send and a page request, restarts | `ConfiguredUsersHaveRows`, `SecondRowNeedsRename`, `OneAccountPerPage`, `NoteLinksResolve`, `DeletedUsersAreForgotten`, types |
| pages_expired | the same without renames, status pages only | `ExpiredTweetsAreNotFound` is violated |
| posts | an accept, a reject and a note, two posts each, two names of which one is an id | `SignedByItself`, `PostsVerify`, `UnverifiedOnlyIfRenamed`, `LinksLeadBack`, `EveryPostIsMade`, types |
| server | both programs, two requests, two actors (one with an Ed25519 key), a cache of one key, one change of each key; one configured user, migrations on | `OneKeyIsTrusted`, `OldKeysAreForgotten`, `NothingStartsEarly`, `ExitZeroCutsNothing`, `SignalledProgramsEnd`, the refinement `VerifiesAsPromised`, types |

What the properties say is written above each of them in its module. The longest
runs take two to three minutes.

**Bounds.**
`MaxPage` 2 and `MaxPosts` 3 (100 and unbounded in the code) are the least with
which a page overflows and a page holds two tweets, between which followers
change; a failure per user (`MaxFaults` 1) repeats a page, and two actors make
the list of one user longer than one. Three requests are a follow, its
repetition and its undo in every interleaving, or two undos around a follow.
`MaxRetry` 1 (5 in the code) is the least with a first and a last attempt, and
`worker_refusal` has the 5 of the code; no handler looks at the number of an
attempt. The reject handler, the accept's twin, has no task in `worker` (with
a third task TLC does not finish in minutes), but the proofs cover it. In the
runs about the race and the retweet "o" is quoted by "q", "qt" refers to both and "rt"
retweets "q": a reference that is itself a referrer, a tweet with two references and
one referred to in both ways. In `tweets` "q" is by a bridged user and refers to
tweets of two unknown authors at once, of whom one has the other's id as its username;
"qt" and "rt", by another bridged user, refer to "q" in both ways.

In `pages` one account is first called "ann" and the other by the first one's id,
the two configured names; the third name is free. `MaxMoves` 1 is one rename
or one departure (a name that changes hands needs two, and is left to the proofs);
one send and one page beside the start-up are every pair of the three operations at once. `Kinds`
leaves out following, followers and outbox, whose handlers answer as the actor
page does. In `posts` three tasks are a holder of the mutex, one that waits for
it and one that overtakes; two posts each, so that a task meets what its own
first post left. In `server` a cache of one key
(`Capacity`, 1000 in the code) for two actors evicts at every other fetch; one
change of key has an old and a new one. `TwitterAllowedUsers` has one user, so that
creating it may fail; that main has nothing to create or does not migrate is left to
the proofs, which take any settings. The safety results
do not depend on these bounds: section 4.

**Symmetry** is used in safety runs only, over sets of model values no
specification distinguishes.

**Fairness.** In the poller, the ticker keeps ticking and calls return
(successfully or not), failures are bounded, and neither posts, follows nor
crashes have to happen; that a user's timeline always fails would block all
others is the reason for the bound. In the worker, a process that is down is started
again (weak fairness); asynq's dequeue, forward and recovery happen when they
are possible again and again (strong fairness: the process may go up and down
for ever); and asynq ends an attempt whose timeout is over (weak fairness),
because every task is made with `asynq.Timeout`. In `pages`, entries of the Redis cache of Twitter
users expire, because each is stored with the time to live of the configuration.
In `posts`, a goroutine that may go on does, and the mutex starves nobody (strong
fairness: Go's mutex hands over to a waiter after a millisecond). In `server`, the
main goroutines go on and what they call (connecting, migrating, `Shutdown`)
returns, successfully or not; asynq's `Run` goes on to subscribe to signals, and
returns once it got one. That it stops because its context is cancelled is not
assumed, for it does not. Nothing is assumed of remote servers, of key
servers, of handlers or of the network.

**Deadlock** is checked in every run: a finished Inbox or Tweets run stutters by
the action `Over`, which is enabled in no other state.

## 4. Proofs

`tlapm PollerProofs.tla`, and the same for `InboxProofs`, `WorkerProofs`,
`TweetsProofs`, `PagesProofs`, `PostsProofs`, `ServerProofs` and `TickerProofs`,
checks everything listed under `theorems` in `PROJECT.json`, for all values of the constants that satisfy the named assumptions (finite `Users` and `Actors`
and positive `MaxPage` in the poller; disjoint sorts of names and tasks;
`MaxRetry` a natural number; in the tweet service at least one tweet, each with
an author, and one username for each author; the row of each username and the user of each task where they are
constants; a cache of at least one key and two settings that are Booleans; a positive
period). None bounds the number of requests, tasks,
users or tweets, and none says that ids and usernames differ.

*Poller.* `IndexWithinList`, `FollowersServed`, `RepeatsOnlyAfterFailure` and
`UnfollowTakesEffect`. None is inductive. `IInv` adds what the loop in progress
has done: between two calls of a page, the tweets above `batch.next` have been
enqueued for all who followed before them, the one at `batch.next` for all
but `todo`; whatever lies above the cursor was enqueued at most as often as pages of
that user were given up; and `pc` fixes whether index and list fit.

*Poller implements Feed.* `PollerImplementsFeed` needs one part more, `PageFits`: the
page in hand begins right above the user's mark or `MaxPage` below its newest tweet,
and is walked from the newest down to the oldest. Then fetching a page begins a poll,
`GetFollowers` and `Enqueue` take and serve a tweet, `PageDone` and `GiveUp` end the
poll, `Crash` and `BeginPolling` turn all users off and on; moving the index and
refreshing the list are stutters. In one detail the two differ in grain: the poller
moves on to the next tweet in a step of its own, which Feed's next `Take` includes.

*Inbox.* What a request has done is read off its step. `IInv` says that a
request past `GetUser` names a bridged user, one past `createActorIfNoExist`
has its actor in the table, and the request that stored a row is past storing
it. A handler's step is reduced to six kinds of writes (`Writes`), and each
part of the invariant is kept by each kind. `AcceptedOnce` counts: accepts of a
pair, and requests about to accept it, never outnumber the rows inserted for
it, the removed ones and the one that is there. `RepairNeedsUndo` is an action
property: no request but one that is over can have stored a stranded row, and the unique
key keeps all others out.

*Inbox implements Following.* `InboxImplementsFollowing` needs that a step tells the
purpose (`Purposes`: only follows get to `insert`, `accept` and `reject`, only undos
to `delete`, and the actor is allowed or not as the step says). Every call of a
handler is then a stutter or the one step in which the request takes effect; a
failure whose write was done is that step too, answered 500. A crash leaves all open
requests at once without an answer (`Stop`).

*Worker.* `TweetRepeatsOnlyIfCut` bounds what was processed. The inductive
form (`CopiesBounded`) bounds the sum of copies processed, posts on
the wire and the one post an attempt may still make by one more than the
attempts that were cut: a post leaves the sum only by being lost, and a new
attempt of a tweet exists only where the last was cut or never posted.
`FollowsAreRetried` exempts what the handler itself calls final, so it does not
depend on whether asynq understands the handlers: what it says of timeouts, cuts and
a remote server in trouble holds for the code as it is, and as its comments mean it.

*Tweets.* `AuthorsKnown` relates two stores, Redis and Postgres, that a send
writes in separate calls. `IInv` says of each send (`SendOK`) that the author of
every tweet it has in hand is found or is still on its list of authors, that the
list is empty when it starts to store, and that what it got from the store comes
with references whose authors are found. One send's writes leave this true of all
others because rows are only added (`RowsStay`), which is also `KeysAreFinal`.

*Worker implements Delivery.* `WorkerImplementsDelivery` maps every step of
`Worker` to a step of `Delivery` or a stutter. A step moves each task on its own: a crash or a
shutdown moves many at once, which is why `Delivery` lets it. Needed on top of types:
copies processed and posts still on the wire of a task are at most its attempts
(so that a late post is one of the tries), and an answer 202 in hand means that a
copy was processed (so that "completed" is "delivered").

*Pages.* The history of names carries the argument. `IInv` says that whatever
joins an account with a name (a row, an entry of the cache, a user in the hands of
a call, a tweet) joins it with a name the account has had, and that a row a call
holds was found for its argument. Rows are only added, so both survive what the
others do. `ConfiguredUsersHaveRows` then follows because main drops a username
from its list only with a row in hand or one just inserted, and the other three
because two names of one account mean a rename.

*Posts.* `IInv` says that the mutex is held exactly between `Lock` and `Unlock`, and
that the hash holds the request of the task about to sign and nothing else; hence
every request on the wire is `Alone(t)` for its task. With it, the answer of a remote
server depends only on the page its key id leads to.

*Server.* What the cache holds, and what a request is about to add, are keys the
actor has had since the process started (`Recent`); the cache is a sequence of any
capacity, so that is shown for the entries that move to the front and for those that
stay. A phase fixes which goroutines were started, and requests are in flight only
while the server listens. `StartsInOrder` holds for any settings: with neither
migrations nor users to create, all it says of the tables is that the poller's loop
needs them.

*Server implements Trust.* In `ServerImplementsTrust` a hit in the cache and `AddKey`
are the judgement, with the cached or told key, which `IInv` knows to be recent;
a miss and `AskKey` are stutters; an exit of estrys is the restart, and everything
else in the life of the programs is not seen.

*Ticker.* `AtMostThreeTooMany` bounds the timelines asked for in any window of
`MaxRequests` periods (1500 of 0.6 s: 15 minutes) by `MaxRequests + 3`. The inductive
form relates each past request, at time t, with the ticks taken into account since,
made into requests or held (`After`): if these are n > 1, the ticker is due no
earlier than t + (n - 2) periods (`DueLater`); a request comes no earlier than a
period before that. No run checks it, because time is unbounded and the proof needs
no instance; the bound is the least: with a period of 2 and two requests a window,
requests at 7, 9, 9, 9 and 10 are possible.

**Only model-checked:** the liveness properties `EventuallyScheduled`,
`EveryTaskEnds`, `DeletedUsersAreForgotten`, `EveryPostIsMade` and
`SignalledProgramsEnd` (fairness is out of the prover's reach).

## 5. What disagrees with the code's own words

Each of the first four is the counterexample of one run; `findings` in
`PROJECT.json` quotes the lines.

1. `worker_refusal`: a refused accept is retried, because the text of
   `asynq.SkipRetry` is not the error (`accept_follow.go:103`).
2. `tweets_retweets`: a quote of a tweet stored as a retweet is kept, and shown,
   as a retweet (`domain/tweet.go:108`).
3. `tweets_race`: of two sends that meet a new author the slower one is
   archived (`domain/users.go:110`).
4. `pages_expired`: the page of a tweet that left the store answers 500 and not
   404, because a miss is nil without an error (`domain/status/handler.go:36`).

More was seen while modelling:

- README.md line 85 says that the rate limit is managed. The ticker alone does not keep
  it: a request that is late after its tick is followed at once by the tick that
  waited (`poller.go:179`). `AtMostThreeTooMany` is what holds instead: 1503 and not
  1500 requests in 15 minutes.
- The list of a polling round has an entry per follow and not per user
  (`repository/user.go:102`), so requests and waiting time grow with followers,
  while README.md line 83 speaks of users.
- An undo of several objects is answered 202 and ignored, because the error that
  is wrapped is nil (`domain/inbox.go:208`).
- A tweet stored as a reference is later taken for complete, though its own
  references were never fetched (`domain/tweet.go:209`; line 196 promises all of
  them).
- A worker that is signalled after `Bootstrap` subscribed and before asynq did
  (`worker/worker.go:43`) logs "signal received, stopping" (`cmd/bootstrap.go:67`) and
  stays up: its context is cancelled, which `Run` does not watch, so each task it takes
  fails until it is signalled again. `SignalledProgramsEnd` promises the end of the
  worker from the moment asynq is told, and the end of estrys in any case.
- Without migrations and with an empty `TWITTER_ALLOWED_USERS` (the default,
  `.env:21`) estrys listens without tables, until the poller's first list fails and
  `log.Fatalf` ends it (`cmd/estrys/main.go:69`).
- The author of a tweet whose id is the username of another row is taken for that
  row's user and is never bridged (`repository/user.go:82`, from
  `domain/users.go:104`).

Some results that hold are limits worth knowing: a follow whose accept could
not be enqueued stays unaccepted until the remote server sends an undo
(`OnlyUndoRepairs`); a page that overflows loses its oldest tweets for good (the
exception in `FollowersServed`); a user that was renamed is still posted for, and
no remote server can verify its posts (`UnverifiedOnlyIfRenamed`); a user whose
name is the id of another is served under the other's row (the exceptions in
`PostsVerify`, `LinksLeadBack` and `ConfiguredUsersHaveRows`, and what `AuthorsKnown`
calls found); an actor that
changes its key is refused until its entry is evicted or the process restarts
(`OneKeyIsTrusted`); Ed25519 keys never verify (`Algorithm`); a restart loses what was posted meanwhile (the
start time in `FollowersServed`; the repository's README says that resuming is
not implemented).

## 6. Not modelled

Texts, dates, numbers and media of activities and pages; templates; the static
host-meta page; logging and tracing; what single settings mean beyond those that
change the control flow; those of the generated database functions that nothing
calls, and mocks. Time itself, but in `Ticker`: delays of retries and times to live are
nondeterministic choices. Cryptography: a signature is valid for the key it was
made with and for no other. `Pages` and `Poller` each have their own view of
Twitter, as do `Inbox` and `Server` of a request: the properties that would need them at once
are about data, which passes from one to the other through the database and the
queue only.

## 7. Plan

Done in this order, the most important behaviour first: Poller, Inbox, Worker,
Tweets; Delivery, Users and Pages, Posts, Signatures and Server; each with its
proofs; then the abstract Feed, Following and Trust with their refinements, and Ticker.

What would be next:

1. **Feed and Delivery together.** A tweet posted while an actor follows is enqueued
   (`Feed`), and what is enqueued is delivered, given up, or still tried
   (`Delivery`): one specification of the whole way, which the composition of
   `Poller` and `Worker` implements through the two there are.
2. **Users and Tweets.** The users table of `Tweets`, where a batch of authors is
   created row by row, as an abstraction of `Users`, where every query and cache
   access is a step.
3. **Keys and inbox.** `Inbox` inside `Server`, so that the statuses of requests
   are those of verified and refused signatures.
