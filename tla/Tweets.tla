------------------------------- MODULE Tweets -------------------------------
(***************************************************************************)
(* Saving a tweet and what it refers to: SaveTweetAndReferences of         *)
(* src/internal/domain/tweet.go with BatchCreateUsersFromIDs of            *)
(* src/internal/domain/users.go, the tweet store                           *)
(* (src/internal/twitter/repository, a Redis cache) and the users table.   *)
(*                                                                         *)
(* The worker runs one send-tweet task per follower of a tweet, several at *)
(* a time: each is a send here, and each of its calls a step.  A send that *)
(* is retried after a rate limit is another send.                          *)
(***************************************************************************)
EXTENDS Naturals, FiniteSets

CONSTANTS
    Sends,      \* the executions of HandleSendTweet
    TweetIds,
    Authors,    \* Twitter ids
    Username,   \* the username of an author, which may be another's id
    Bridged,    \* the authors with a row from the start: those polled
    Author,     \* who wrote a tweet
    Refs        \* what a tweet refers to: <<tweet, type>> pairs

Retweeted == "retweeted"
Quoted == "quoted"
NoType == ""

ASSUME TweetsAssumption == TweetIds # {}
ASSUME BridgedAssumption == Bridged \subseteq Authors
ASSUME UsernameAssumption ==  \* Twitter gives no two accounts one username
    \A a, b \in Authors : Username[a] = Username[b] => a = b
ASSUME AuthorAssumption == Author \in [TweetIds -> Authors]
ASSUME RefsAssumption ==
    Refs \in [TweetIds -> SUBSET (TweetIds \X {Retweeted, Quoted})]

ASSUME SendsAssumption == "none" \notin Sends  \* no send is taken for NoKey

VARIABLES
    tweets,     \* the tweet store: a record per tweet, or Absent
    users,      \* the users table: per author the key pair made, or NoKey
    send        \* the sends: step, and the local variables of the call

vars == <<tweets, users, send>>

Types == {NoType, Retweeted, Quoted}
Absent == [type |-> "absent", refs |-> {}]
Records == [type: Types, refs: SUBSET (TweetIds \X Types)]
NoKey == "none"
FirstKey == "first"
Keys == Sends \cup {FirstKey}

\* A tweet in memory: its id and what the store would keep of it.
InMemory == TweetIds \X Records

Idle == [step |-> "idle", tweet |-> CHOOSE t \in TweetIds : TRUE,
         todo |-> {}, missing |-> {}, got |-> {}, unsaved |-> {},
         own |-> FALSE, authors |-> {}, creating |-> {},
         result |-> Absent, fault |-> FALSE]

At(s, step) == send[s].step = step
my(s) == send[s]
HasRow(a) == users[a] # NoKey

\* userRepo.Get finds an id in the row of its author, or else in that of another
\* author who has it as a username.
Found(a) == HasRow(a) \/ \E b \in Authors : HasRow(b) /\ Username[b] = a

-----------------------------------------------------------------------------
Init ==
    /\ tweets = [t \in TweetIds |-> Absent]
    /\ users = [a \in Authors |-> IF a \in Bridged THEN FirstKey ELSE NoKey]
    /\ send = [s \in Sends |-> Idle]

\* A task is executed; it names a tweet of a polled user.
Begin(s) ==
    /\ At(s, "idle")
    /\ \E t \in TweetIds :
        /\ Author[t] \in Bridged
        /\ send' = [send EXCEPT ![s].step = "get", ![s].tweet = t]
    /\ UNCHANGED <<tweets, users>>

-----------------------------------------------------------------------------
(* SaveTweetAndReferences. *)

\* Mutant of KnownTweet: a miss, which is no error, is taken for a hit.
KnownTweetOrNil(s) ==
    /\ At(s, "get")
    /\ send' = [send EXCEPT ![s].step = "done", ![s].result = tweets[my(s).tweet]]
    /\ UNCHANGED <<tweets, users>>

\* A tweet in the store is returned as it is there, ...
KnownTweet(s) ==
    /\ At(s, "get")
    /\ tweets[my(s).tweet] # Absent
    /\ send' = [send EXCEPT ![s].step = "done", ![s].result = tweets[my(s).tweet]]
    /\ UNCHANGED <<tweets, users>>

\* ... and one that is not, or cannot be read, is asked of Twitter.
UnknownTweet(s) ==
    /\ At(s, "get")
    /\ send' = [send EXCEPT ![s].step = "fetch"]
    /\ UNCHANGED <<tweets, users>>

FetchRawTweet(s) ==
    /\ At(s, "fetch")
    /\ LET refs == Refs[my(s).tweet]
       IN  send' = [send EXCEPT
                     ![s].step = IF refs = {} THEN "authors" ELSE "refs",
                     ![s].own = (refs = {}),
                     ![s].todo = refs]
    /\ UNCHANGED <<tweets, users>>

\* fetchReferencedTweets looks each reference up in the store: it keeps a hit
\* as it was stored, whatever it refers to and whatever it was stored as.
GetReference(s) ==
    /\ At(s, "refs")
    /\ \E ref \in my(s).todo :
        \/ /\ tweets[ref[1]] # Absent
           /\ send' = [send EXCEPT ![s].todo = @ \ {ref},
                                   ![s].got = @ \cup {<<ref[1], tweets[ref[1]]>>}]
        \/ send' = [send EXCEPT ![s].todo = @ \ {ref},
                                ![s].missing = @ \cup {ref}]
    /\ UNCHANGED <<tweets, users>>

\* It asks Twitter for the others at once, and does not follow what they
\* refer to.
FetchMissing(s) ==
    /\ At(s, "refs")
    /\ my(s).todo = {}
    /\ send' = [send EXCEPT
                 ![s].step = "authors",
                 ![s].missing = {},
                 ![s].got = @ \cup
                    {<<ref[1], [type |-> ref[2], refs |-> {}]>> :
                        ref \in my(s).missing}]
    /\ UNCHANGED <<tweets, users>>

\* Mutant of LookupAuthors: the rows of the authors are not made.
LookupAuthorsLater(s) ==
    /\ At(s, "authors")
    /\ send' = [send EXCEPT ![s].step = IF my(s).own THEN "store" ELSE "storerefs",
                            ![s].unsaved = my(s).got]
    /\ UNCHANGED <<tweets, users>>

\* BatchCreateUsersFromIDs, of the authors of the references first and of the
\* tweet's own author last: Twitter is asked who they are, ...
LookupAuthors(s) ==
    /\ At(s, "authors")
    /\ send' = [send EXCEPT
                 ![s].step = "users",
                 ![s].authors = IF my(s).own THEN {Author[my(s).tweet]}
                                ELSE {Author[g[1]] : g \in my(s).got}]
    /\ UNCHANGED <<tweets, users>>

\* ... each is looked up by its id in the users table ...
GetUser(s) ==
    /\ At(s, "users")
    /\ \E a \in my(s).authors :
        IF Found(a)
        THEN send' = [send EXCEPT ![s].authors = @ \ {a}]
        ELSE send' = [send EXCEPT ![s].step = "create", ![s].creating = {a}]
    /\ UNCHANGED <<tweets, users>>

\* Mutant of CreateUser: the row of the user is replaced.
CreateOrReplaceUser(s) ==
    /\ At(s, "create")
    /\ \E a \in my(s).creating :
        /\ users' = [users EXCEPT ![a] = s]
        /\ send' = [send EXCEPT ![s].step = "users", ![s].creating = {},
                                ![s].authors = @ \ {a}]
    /\ UNCHANGED tweets

\* ... and inserted with a new key pair.  A send that inserts second fails on
\* the primary key, and so does its task.
CreateUser(s) ==
    /\ At(s, "create")
    /\ \E a \in my(s).creating :
        IF HasRow(a)
        THEN /\ send' = [send EXCEPT ![s].step = "failed", ![s].creating = {}]
             /\ UNCHANGED users
        ELSE /\ users' = [users EXCEPT ![a] = s]
             /\ send' = [send EXCEPT ![s].step = "users", ![s].creating = {},
                                     ![s].authors = @ \ {a}]
    /\ UNCHANGED tweets

AuthorsSaved(s) ==
    /\ At(s, "users")
    /\ my(s).authors = {}
    /\ send' = [send EXCEPT ![s].step = IF my(s).own THEN "store" ELSE "storerefs",
                            ![s].unsaved = my(s).got]
    /\ UNCHANGED <<tweets, users>>

\* saveReferencedTweets stores the references, those it found in the store
\* included.  redisCache.Set drops the error of a write that fails.
StoreReference(s) ==
    /\ At(s, "storerefs")
    /\ \E g \in my(s).unsaved :
        /\ \/ tweets' = [tweets EXCEPT ![g[1]] = g[2]]
           \/ UNCHANGED tweets
        /\ send' = [send EXCEPT ![s].unsaved = @ \ {g}]
    /\ UNCHANGED users

ReferencesSaved(s) ==
    /\ At(s, "storerefs")
    /\ my(s).unsaved = {}
    /\ send' = [send EXCEPT ![s].step = "authors", ![s].own = TRUE]
    /\ UNCHANGED <<tweets, users>>

StoreTweet(s) ==
    /\ At(s, "store")
    /\ LET tweet == [type |-> NoType,
                     refs |-> {<<g[1], g[2].type>> : g \in my(s).got}]
       IN  /\ \/ tweets' = [tweets EXCEPT ![my(s).tweet] = tweet]
              \/ UNCHANGED tweets
           /\ send' = [send EXCEPT ![s].step = "done", ![s].result = tweet]
    /\ UNCHANGED users

\* A call to Twitter or the database fails, Twitter does not return all it was
\* asked for, or the process dies.
Fails(s) ==
    /\ send[s].step \in {"fetch", "refs", "authors", "users", "create"}
    /\ send' = [send EXCEPT ![s].step = "failed", ![s].creating = {},
                            ![s].fault = TRUE]
    /\ UNCHANGED <<tweets, users>>

\* Redis drops a tweet whose time to live is over.
Expire(t) ==
    /\ tweets[t] # Absent
    /\ tweets' = [tweets EXCEPT ![t] = Absent]
    /\ UNCHANGED <<users, send>>

SaveTweetAndReferences(s) ==
    \/ KnownTweet(s) \/ UnknownTweet(s) \/ FetchRawTweet(s)
    \/ GetReference(s) \/ FetchMissing(s)
    \/ LookupAuthors(s) \/ GetUser(s) \/ CreateUser(s) \/ AuthorsSaved(s)
    \/ StoreReference(s) \/ ReferencesSaved(s) \/ StoreTweet(s)
    \/ Fails(s)

Over ==
    /\ \A s \in Sends : send[s].step \in {"done", "failed"}
    /\ UNCHANGED vars

Next ==
    \/ \E s \in Sends : Begin(s) \/ SaveTweetAndReferences(s)
    \/ \E t \in TweetIds : Expire(t)
    \/ Over

Spec == Init /\ [][Next]_vars

-----------------------------------------------------------------------------
(* Properties. *)

\* The type invariant.  A send that succeeds returns a tweet: GetTweet answers
\* a miss with nil and no error, and HandleSendTweet dereferences the result.
TypeOK ==
    /\ tweets \in [TweetIds -> Records \cup {Absent}]
    /\ users \in [Authors -> Keys \cup {NoKey}]
    /\ \A s \in Sends :
        /\ send[s].step \in {"idle", "get", "fetch", "refs", "authors", "users",
                             "create", "storerefs", "store", "done", "failed"}
        /\ send[s].tweet \in TweetIds
        /\ send[s].got \subseteq InMemory
        /\ send[s].unsaved \subseteq send[s].got
        /\ send[s].authors \subseteq Authors
        /\ send[s].creating \subseteq send[s].authors
        /\ IF send[s].step = "done"
           THEN send[s].result \in Records
           ELSE send[s].result = Absent

\* The author of every tweet in the store, and of every tweet it refers to, has
\* a row for the status page and the actor page: rows are written before
\* tweets, also when a send overwrites what another stored, or fails half-way.
\* Only an author whose id is the username in another row may have none: the
\* repository finds that row instead, and the author's pages are not found.
AuthorsKnown ==
    \A t \in TweetIds :
        tweets[t] # Absent =>
            /\ Found(Author[t])
            /\ \A ref \in tweets[t].refs : Found(Author[ref[1]])

\* The key pair of a user is made once: sends that meet the same unknown
\* author never replace the key remote servers may have fetched already.
KeysNeverChange ==
    [][\A a \in Authors : HasRow(a) => users'[a] = users[a]]_vars

\* Retweet() of twitter/models/tweet.go, which the status page calls.
Retweet(rec) == {ref[1] : ref \in {r \in rec.refs : r[2] = Retweeted}}

\* status/handler.go line 69: "If we have a retweet, then fetch the retweet
\* author and replace the current tweet by the retweet": a tweet that is no
\* retweet is not replaced.
OnlyRetweetsAreReplaced ==
    \A t \in TweetIds :
        Retweet(tweets[t]) \subseteq Retweet([refs |-> Refs[t]])

\* README.md line 83: "poll for tweets, if not already stored, store them and
\* publish them".  A send none of whose calls fails is not given up.
SendsSucceed ==
    \A s \in Sends : At(s, "failed") => send[s].fault
=============================================================================
