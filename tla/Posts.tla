-------------------------------- MODULE Posts --------------------------------
(***************************************************************************)
(* What leaves the instance and how it is verified: the activities of      *)
(* src/internal/activitypub/vocab.go, the signing of posts by RoundTrip    *)
(* (src/internal/activitypub/client/client.go), whose signer all tasks of  *)
(* a worker share, and the actor page from which a remote server takes     *)
(* the key.                                                                *)
(*                                                                         *)
(* The signer writes a request into its hash, and then signs the hash: it  *)
(* may not be used by two goroutines at once, hence the mutex.             *)
(***************************************************************************)
EXTENDS Naturals, FiniteSets

CONSTANTS
    Ids,        \* Twitter accounts
    Names,      \* usernames, lower case; they may look like ids
    IdOf,       \* the users table: the account of each username
    Accepts,    \* tasks that post an Accept
    Rejects,    \* tasks that post a Reject
    Notes,      \* tasks that post a Create of a Note
    From,       \* the user each task posts for
    MaxPosts,   \* bound: how often a task posts
    MaxRenames  \* bound: how many accounts are renamed or deleted

Tasks == Accepts \cup Rejects \cup Notes
None == "none"  \* nobody, nothing

ASSUME RowsAssumption == IdOf \in [Names -> Ids]
ASSUME FromAssumption == From \in [Tasks -> Names]
ASSUME NobodyAssumption == None \notin Tasks
ASSUME BoundsAssumption == MaxPosts \in Nat /\ MaxRenames \in Nat

VARIABLES
    bears,    \* Twitter: the usernames that are still their account's
    mu,       \* who holds the mutex of the signer
    hash,     \* whose requests have been written into the signer's hash
    step,     \* what each task's post does next
    posts,    \* how often each task has posted
    wire,     \* signed requests under way
    answered  \* the requests a remote server answered: <<task, status>>

vars == <<bears, mu, hash, step, posts, wire, answered>>

Steps == {"idle", "lock", "write", "sign", "unlock", "failed"}
At(t, s) == step[t] = s
Goto(t, s) == step' = [step EXCEPT ![t] = s]

-----------------------------------------------------------------------------
(* The vocabulary.  A URL is its route and the username in it. *)

URL(route, username) == [route |-> route, username |-> username]

GetAccept(user) ==
    [type |-> "Accept", id |-> URL("user", user), actor |-> URL("user", user),
     object |-> [type |-> "Follow"]]

GetReject(user) ==
    [type |-> "Reject", id |-> URL("user", user), actor |-> URL("user", user),
     object |-> [type |-> "Follow"]]

\* The Create and its Note have one id, the URL of the status page.
GetCreateNoteFromTweet(username) ==
    [type |-> "Create", id |-> URL("status", username), actor |-> URL("user", username),
     object |-> [type |-> "Note", id |-> URL("status", username),
                 attributedTo |-> URL("user", username),
                 cc |-> URL("followers", username)]]

GetActorURL(act) == act.actor

\* Mutant of GetActor: the key gets an id of its own, which posts do not name.
GetActorKeyApart(row) ==
    [id |-> URL("user", row), inbox |-> URL("inbox", row), outbox |-> URL("outbox", row),
     followers |-> URL("followers", row), following |-> URL("following", row),
     publicKey |-> [id |-> URL("key", row), owner |-> URL("user", row), pem |-> row]]

\* The key of a row is named by its username.
GetActor(row) ==
    [id |-> URL("user", row), inbox |-> URL("inbox", row), outbox |-> URL("outbox", row),
     followers |-> URL("followers", row), following |-> URL("following", row),
     publicKey |-> [id |-> URL("user", row), owner |-> URL("user", row), pem |-> row]]

\* The collections hold no items, only the numbers Twitter counts.
GetFollowers(row) == [id |-> URL("followers", row), totalItems |-> IdOf[row]]
GetFollowing(row) == [id |-> URL("following", row), totalItems |-> IdOf[row]]

\* Mutant of GetOutbox: made from a copy of GetFollowers.
GetOutboxCopied(row) == [id |-> URL("followers", row), totalItems |-> IdOf[row]]

GetOutbox(row) == [id |-> URL("outbox", row), totalItems |-> IdOf[row]]

\* The answer of WebFinger names the row's user and links to its actor.
HandleWebFinger(row) == [subject |-> row, href |-> URL("user", row)]

Links(row) ==
    LET actor == GetActor(row)
    IN  {HandleWebFinger(row).href, actor.outbox, actor.followers, actor.following}

Activity(t) ==
    IF t \in Accepts THEN GetAccept(From[t])
    ELSE IF t \in Rejects THEN GetReject(From[t])
    ELSE GetCreateNoteFromTweet(From[t])

-----------------------------------------------------------------------------
(* The instance's pages, as a remote server gets them. *)

\* userRepo.Get takes a number for an id first.
Get(username) ==
    LET byID == {n \in Names : IdOf[n] = username}
    IN  IF byID # {} THEN byID ELSE {username} \cap Names

NoPage == [id |-> None]

\* The page of a route.
Page(route, row) ==
    CASE route = "user" -> GetActor(row)
      [] route = "followers" -> GetFollowers(row)
      [] route = "following" -> GetFollowing(row)
      [] route = "outbox" -> GetOutbox(row)
      [] OTHER -> NoPage

\* GetFullUser finds the row, and then asks Twitter for the username, where no
\* account may bear it any more (a cached user hides that); a call may fail.
Answers(url) ==
    {[status |-> 200, page |-> Page(url.route, row)] : row \in Get(url.username)}
    \cup {[status |-> 500, page |-> NoPage]}
    \cup IF url.username \in bears THEN {} ELSE {[status |-> 404, page |-> NoPage]}

-----------------------------------------------------------------------------
Init ==
    /\ bears = Names
    /\ mu = None
    /\ hash = {}
    /\ step = [t \in Tasks |-> "idle"]
    /\ posts = [t \in Tasks |-> 0]
    /\ wire = {}
    /\ answered = {}

-----------------------------------------------------------------------------
(* A post: PostInbox and RoundTrip. *)

\* A handler makes the activity and calls PostInbox, which calls RoundTrip; the
\* goroutine then waits for the mutex.
Begin(t) ==
    /\ At(t, "idle")
    /\ posts[t] < MaxPosts
    /\ Goto(t, "lock")
    /\ UNCHANGED <<bears, mu, hash, posts, wire, answered>>

\* Mutant of Lock: there is no mutex.
NoLock(t) ==
    /\ At(t, "lock")
    /\ Goto(t, "write")
    /\ UNCHANGED <<bears, mu, hash, posts, wire, answered>>

\* Mutant of Lock: every user has a mutex of its own.
LockOfUser(t) ==
    /\ At(t, "lock")
    /\ mu # From[t]
    /\ mu' = From[t]
    /\ Goto(t, "write")
    /\ UNCHANGED <<bears, hash, posts, wire, answered>>

Lock(t) ==
    /\ At(t, "lock")
    /\ mu = None
    /\ mu' = t
    /\ Goto(t, "write")
    /\ UNCHANGED <<bears, hash, posts, wire, answered>>

\* SignRequest, first half: digest, headers and target are written.
WriteHash(t) ==
    /\ At(t, "write")
    /\ hash' = hash \cup {t}
    /\ Goto(t, "sign")
    /\ UNCHANGED <<bears, mu, posts, wire, answered>>

\* Mutant of KeyId: the user is named by its id.
KeyIdOfAccount(t) == URL("user", IdOf[From[t]])

\* The key is named by the user the activity is posted for.
KeyId(t) == URL("user", From[t])

Request(t) ==
    [task |-> t, keyId |-> KeyId(t), key |-> From[t], covers |-> hash,
     activity |-> Activity(t)]

\* SignRequest, second half: what is in the hash is signed, and the hash reset.
\* The signed request is sent only after the mutex is given back.
SignRequest(t) ==
    /\ At(t, "sign")
    /\ hash' = {}
    /\ wire' = wire \cup {Request(t)}
    /\ posts' = [posts EXCEPT ![t] = @ + 1]
    /\ Goto(t, "unlock")
    /\ UNCHANGED <<bears, mu, answered>>

\* It fails, and the hash is reset all the same.
SignFails(t) ==
    /\ At(t, "sign")
    /\ hash' = {}
    /\ Goto(t, "failed")
    /\ UNCHANGED <<bears, mu, posts, wire, answered>>

\* Mutant of Unlock: the error is returned before the mutex is given back.
UnlockUnlessFailed(t) ==
    /\ step[t] \in {"unlock", "failed"}
    /\ mu' = IF At(t, "failed") THEN mu ELSE None
    /\ Goto(t, "idle")
    /\ UNCHANGED <<bears, hash, posts, wire, answered>>

\* Error or not, the mutex is given back before RoundTrip goes on.
Unlock(t) ==
    /\ step[t] \in {"unlock", "failed"}
    /\ mu' = None
    /\ Goto(t, "idle")
    /\ UNCHANGED <<bears, hash, posts, wire, answered>>

\* The process is gone, with the signer it made.
Crash ==
    /\ mu' = None
    /\ hash' = {}
    /\ step' = [t \in Tasks |-> "idle"]
    /\ UNCHANGED <<bears, posts, wire, answered>>

-----------------------------------------------------------------------------
(* The others. *)

\* An account is renamed or deleted; its row stays.
Rename ==
    /\ Cardinality(Names \ bears) < MaxRenames
    /\ \E n \in bears : bears' = bears \ {n}
    /\ UNCHANGED <<mu, hash, step, posts, wire, answered>>

Verifies(m, page) ==
    /\ m.covers = {m.task}
    /\ m.key = page.publicKey.pem
    /\ m.keyId = page.publicKey.id
    /\ GetActorURL(m.activity) = page.publicKey.owner

\* A remote server gets the page the key id names, and takes the post (202) if
\* it verifies with the key there.
Receive(m) ==
    /\ \E answer \in Answers(m.keyId) :
        LET status == IF answer.status # 200 THEN answer.status
                      ELSE IF Verifies(m, answer.page) THEN 202 ELSE 401
        IN  answered' = answered \cup {<<m.task, status>>}
    /\ wire' = wire \ {m}
    /\ UNCHANGED <<bears, mu, hash, step, posts>>

Lose(m) ==
    /\ wire' = wire \ {m}
    /\ UNCHANGED <<bears, mu, hash, step, posts, answered>>

-----------------------------------------------------------------------------
Post(t) ==
    \/ Begin(t) \/ Lock(t) \/ WriteHash(t)
    \/ SignRequest(t) \/ SignFails(t) \/ Unlock(t)

Next ==
    \/ \E t \in Tasks : Post(t)
    \/ \E m \in wire : Receive(m) \/ Lose(m)
    \/ Crash
    \/ Rename

Spec == Init /\ [][Next]_vars

\* A goroutine goes on, and Go's mutex starves nobody.
Fairness ==
    \A t \in Tasks :
        /\ SF_vars(Lock(t))
        /\ WF_vars(WriteHash(t))
        /\ WF_vars(SignRequest(t) \/ SignFails(t))
        /\ WF_vars(Unlock(t))

FairSpec == Spec /\ Fairness

-----------------------------------------------------------------------------
(* Properties. *)

TypeOK ==
    /\ bears \subseteq Names
    /\ mu \in Tasks \cup {None}
    /\ hash \subseteq Tasks
    /\ step \in [Tasks -> Steps]
    /\ posts \in [Tasks -> 0..MaxPosts]
    /\ answered \subseteq Tasks \X {202, 401, 404, 500}

\* However many tasks post at once, every request leaves signed over itself and
\* with the key of the user it is posted for.
SignedByItself ==
    \A m \in wire : m.covers = {m.task} /\ m.key = From[m.task]

\* A remote server that gets the page of the key id verifies the post with it:
\* id, key and owner there are those of the activity.  Only a username that is
\* the id of another row leads to another page.
PostsVerify ==
    \A t \in Tasks : <<t, 401>> \in answered => From[t] \in Ids

\* The page of the key is missing only for a user that lost the name it was
\* bridged under: its tweets are still polled and posted, and none verifies.
UnverifiedOnlyIfRenamed ==
    \A t \in Tasks : <<t, 404>> \in answered => From[t] \notin bears

\* From WebFinger to the actor to its collections, each link leads to the page
\* that claims that link as its id, of the same row, whatever the usernames: only
\* one that is the id of another row leads astray.
LinksLeadBack ==
    \A row \in Names : \A link \in Links(row) : \A answer \in Answers(link) :
        answer.status = 200 /\ row \notin Ids => answer.page.id = link

\* Every post that reaches the mutex gets past it, though others fail to sign
\* or are killed while they hold it.
EveryPostIsMade ==
    \A t \in Tasks : At(t, "lock") ~> At(t, "idle")
=============================================================================
