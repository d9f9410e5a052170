------------------------------- MODULE Inbox --------------------------------
(***************************************************************************)
(* The inbox: src/internal/activitypub/handlers/users.go (HandleInbox) and *)
(* src/internal/domain/inbox.go (Follow, UnFollow, createActorIfNoExist).  *)
(*                                                                         *)
(* Remote servers deliver activities over HTTP, each in a request that the *)
(* server handles in a goroutine of its own.  A handler makes its database *)
(* and queue calls one after the other, with no lock and no transaction    *)
(* around them; each call is a step here, and any call may fail.  A remote *)
(* server may deliver one activity several times and in any order: the     *)
(* same activity may arrive in several requests.                           *)
(*                                                                         *)
(* What a request finds before its first call (signature, Twitter lookup,  *)
(* JSON, host of the object) only decides its answer: it is the status     *)
(* that Triage allows for its activity.                                    *)
(***************************************************************************)
EXTENDS Naturals, FiniteSets

CONSTANTS
    Requests,   \* the HTTP requests of the run (bound: each is sent once)
    Bridged,    \* Twitter users with a row in the users table
    Strangers,  \* names without a row
    Actors,     \* remote actors
    Allowed     \* the actors the instance lets follow its users

ASSUME AllowedAssumption == Allowed \subseteq Actors
ASSUME NamesAssumption == Bridged \cap Strangers = {}

VARIABLES
    req,        \* the request being handled: its activity, step and answer
    actors,     \* the actors table (unique url)
    followers,  \* the followers table (unique pair)
    accepts,    \* requests that put an accept-follow task on the queue
    rejects,    \* requests that put a reject-follow task on the queue
    \* history
    storedBy,   \* the request that inserted the row of a pair
    removals    \* requests whose delete removed a row

vars == <<req, actors, followers, accepts, rejects, storedBy, removals>>

Names == Bridged \cup Strangers
Pairs == Bridged \X Actors

\* An undo names one follow, another activity, or (unwrapped) none or several.
Kinds == {"follow", "foreign follow", "undo", "undo other", "undo many",
          "delete", "other"}

Steps == {"unsent", "received", "user", "actor", "key", "create", "insert",
          "accept", "reject", "delete", "answered", "cut"}
NoStatus == 0
NoRequest == "none"

\* Mutant of Triage: the answer to an activity that is not supported is 409.
TriageConflict(kind) == {409}

\* Answers a request may get before its first call to the database: refused
\* signature, unknown Twitter user, failed Twitter or JSON call, and then
\* what the kind of the activity alone decides.
Early == {403, 404, 500}
Triage(kind) ==
    IF kind \in {"foreign follow", "undo other", "other"} THEN {400}
    ELSE IF kind \in {"undo many", "delete"}
         THEN {202}  \* for "undo many" too: errors.Wrap of a nil error is nil
         ELSE {}

pair(r) == <<req[r].user, req[r].actor>>

At(r, step) == req[r].step = step
Goto(r, step) == req' = [req EXCEPT ![r].step = step]
Answer(r, status) ==
    req' = [req EXCEPT ![r].step = "answered", ![r].status = status]

tables == <<actors, followers, accepts, rejects, storedBy, removals>>

-----------------------------------------------------------------------------
Init ==
    /\ req = [r \in Requests |->
                [step |-> "unsent", kind |-> "other", user |-> "none",
                 actor |-> "none", status |-> NoStatus]]
    /\ actors = {}
    /\ followers = {}
    /\ accepts = {}
    /\ rejects = {}
    /\ storedBy = [p \in Pairs |-> NoRequest]
    /\ removals = {}

\* A remote server posts an activity to an inbox.
Receive(r) ==
    /\ At(r, "unsent")
    /\ \E kind \in Kinds, u \in Names, a \in Actors :
        req' = [req EXCEPT ![r] = [step |-> "received", kind |-> kind,
                                   user |-> u, actor |-> a,
                                   status |-> NoStatus]]
    /\ UNCHANGED tables

\* The checks of HandleInbox, Follow and UnFollow that precede every call to
\* the database.
Refuse(r) ==
    /\ At(r, "received")
    /\ \E status \in Early \cup Triage(req[r].kind) : Answer(r, status)
    /\ UNCHANGED tables

\* A follow of a user of this instance, or the undo of one.
Resolve(r) ==
    /\ At(r, "received")
    /\ req[r].kind \in {"follow", "undo"}
    /\ Goto(r, "user")
    /\ UNCHANGED tables

\* getUserFromURL.
GetUser(r) ==
    /\ At(r, "user")
    /\ IF req[r].user \in Bridged
       THEN Goto(r, "actor")
       ELSE Answer(r, IF req[r].kind = "follow" THEN 400 ELSE 500)
    /\ UNCHANGED tables

\* The voters: the actor is one of the configuration's.
canFollow(actor) == actor \in Allowed
IsGranted(actor) == canFollow(actor)

\* Mutant of Proceed: an undo is checked against the rules too.
ProceedIfGranted(r) ==
    IF ~IsGranted(req[r].actor) THEN "reject"
    ELSE IF req[r].kind = "undo" THEN "delete" ELSE "insert"

\* Where a handler goes once the row of its actor is in hand; only a follow
\* is checked against the instance's rules, and only now.
Proceed(r) ==
    IF req[r].kind = "undo" THEN "delete"
    ELSE IF IsGranted(req[r].actor) THEN "insert" ELSE "reject"

\* Mutant of GetActor: no row is made for an actor that will be refused.
GetActorIfAllowed(r) ==
    /\ At(r, "actor")
    /\ Goto(r, IF req[r].actor \in actors \/ req[r].actor \notin Allowed
               THEN Proceed(r) ELSE "key")
    /\ UNCHANGED tables

\* createActorIfNoExist: the row is looked up, ...
GetActor(r) ==
    /\ At(r, "actor")
    /\ Goto(r, IF req[r].actor \in actors THEN Proceed(r) ELSE "key")
    /\ UNCHANGED tables

\* ... the key is fetched from the remote server, ...
FetchKey(r) ==
    /\ At(r, "key")
    /\ Goto(r, "create")
    /\ UNCHANGED tables

\* A row of the actors table, whose urls are unique.
Insert(actor) ==
    /\ actor \notin actors
    /\ actors' = actors \cup {actor}

\* ... and the row is inserted, unless another request did it meanwhile.
CreateActor(r) ==
    /\ At(r, "create")
    /\ \/ Insert(req[r].actor) /\ Goto(r, Proceed(r))
       \/ req[r].actor \in actors /\ Answer(r, 500) /\ UNCHANGED actors
    /\ UNCHANGED <<followers, accepts, rejects, storedBy, removals>>

\* A follow the instance does not allow is answered by a task and refused.
EnqueueReject(r) ==
    /\ At(r, "reject")
    /\ rejects' = rejects \cup {r}
    /\ Answer(r, 403)
    /\ UNCHANGED <<actors, followers, accepts, storedBy, removals>>

\* Mutant of StoreFollow: storing a follow again is not an error.
StoreFollowAgain(r) ==
    /\ At(r, "insert")
    /\ followers' = followers \cup {pair(r)}
    /\ storedBy' = [storedBy EXCEPT ![pair(r)] = r]
    /\ Goto(r, "accept")
    /\ UNCHANGED <<actors, accepts, rejects, removals>>

\* A plain insert, refused when the pair is there.
AddActors(r) ==
    /\ pair(r) \notin followers
    /\ followers' = followers \cup {pair(r)}
    /\ storedBy' = [storedBy EXCEPT ![pair(r)] = r]

\* userRepo.Follow.
StoreFollow(r) ==
    /\ At(r, "insert")
    /\ \/ AddActors(r) /\ Goto(r, "accept")
       \/ /\ pair(r) \in followers
          /\ Answer(r, 500)
          /\ UNCHANGED <<followers, storedBy>>
    /\ UNCHANGED <<actors, accepts, rejects, removals>>

\* Mutant of EnqueueAccept: the task is forgotten.
AnswerWithoutAccept(r) ==
    /\ At(r, "accept")
    /\ Answer(r, 202)
    /\ UNCHANGED tables

\* The accept-follow task is enqueued once the follow is stored.
EnqueueAccept(r) ==
    /\ At(r, "accept")
    /\ accepts' = accepts \cup {r}
    /\ Answer(r, 202)
    /\ UNCHANGED <<actors, followers, rejects, storedBy, removals>>

\* Deleting a pair that is not there is not an error.
RemoveActors(r) ==
    /\ followers' = followers \ {pair(r)}
    /\ removals' = IF pair(r) \in followers THEN removals \cup {r} ELSE removals

\* userRepo.UnFollow.
DeleteFollow(r) ==
    /\ At(r, "delete")
    /\ RemoveActors(r)
    /\ Answer(r, 202)
    /\ UNCHANGED <<actors, accepts, rejects, storedBy>>

-----------------------------------------------------------------------------
(* Failures: the caller of a failed call answers 500 and makes no other.  A *)
(* write may have been done all the same.                                   *)

CallFails(r) ==
    /\ req[r].step \in {"user", "actor", "key", "create", "insert", "accept",
                        "reject", "delete"}
    /\ Answer(r, 500)
    /\ UNCHANGED tables

WriteDoneButFails(r) ==
    /\ Answer(r, 500)
    /\ \/ /\ At(r, "create")
          /\ Insert(req[r].actor)
          /\ UNCHANGED <<followers, accepts, rejects, storedBy, removals>>
       \/ /\ At(r, "insert")
          /\ AddActors(r)
          /\ UNCHANGED <<actors, accepts, rejects, removals>>
       \/ /\ At(r, "accept")
          /\ accepts' = accepts \cup {r}
          /\ UNCHANGED <<actors, followers, rejects, storedBy, removals>>
       \/ /\ At(r, "reject")
          /\ rejects' = rejects \cup {r}
          /\ UNCHANGED <<actors, followers, accepts, storedBy, removals>>
       \/ /\ At(r, "delete")
          /\ RemoveActors(r)
          /\ UNCHANGED <<actors, accepts, rejects, storedBy>>

InFlight == {r \in Requests : req[r].step \notin {"unsent", "answered", "cut"}}

\* The process dies, or stops without waiting for its requests: what they had
\* not done yet is never done.
Crash ==
    /\ InFlight # {}
    /\ req' = [r \in Requests |->
                IF r \in InFlight THEN [req[r] EXCEPT !.step = "cut"] ELSE req[r]]
    /\ UNCHANGED tables

Follow(r) ==
    \/ GetUser(r) \/ GetActor(r) \/ FetchKey(r) \/ CreateActor(r)
    \/ EnqueueReject(r) \/ StoreFollow(r) \/ EnqueueAccept(r)

UnFollow(r) == DeleteFollow(r)

HandleInbox(r) ==
    \/ Refuse(r) \/ Resolve(r)
    \/ Follow(r) \/ UnFollow(r)
    \/ CallFails(r) \/ WriteDoneButFails(r)

\* Every request of the run was sent and is over.
Over ==
    /\ \A r \in Requests : req[r].step \in {"answered", "cut"}
    /\ UNCHANGED vars

Next ==
    \/ \E r \in Requests : Receive(r) \/ HandleInbox(r)
    \/ Crash
    \/ Over

Spec == Init /\ [][Next]_vars

-----------------------------------------------------------------------------
(* Properties. *)

TypeOK ==
    /\ req \in [Requests -> [step: Steps, kind: Kinds,
                             user: Names \cup {"none"},
                             actor: Actors \cup {"none"},
                             status: {NoStatus, 202, 400, 403, 404, 500}]]
    /\ actors \subseteq Actors
    /\ followers \subseteq Pairs
    /\ accepts \subseteq Requests
    /\ rejects \subseteq Requests
    /\ storedBy \in [Pairs -> Requests \cup {NoRequest}]
    /\ removals \subseteq Requests

\* However often and however concurrently one follow is delivered, it is
\* accepted once: a second accept task for a pair needs an undo that removed
\* the row of the first.  Only the unique key of the table holds it together.
OneAcceptPerRow ==
    \A p \in Pairs :
        Cardinality({r \in accepts : pair(r) = p})
            <= 1 + Cardinality({r \in removals : pair(r) = p})

\* A follow that is stored is accepted, or is about to be, unless the request
\* that stored it failed or was cut between its last two calls.
StrandedOnlyByFailure ==
    \A p \in followers :
        LET r == storedBy[p]
        IN  \/ r \in accepts
            \/ At(r, "accept")
            \/ At(r, "cut")
            \/ At(r, "answered") /\ req[r].status = 500

Stranded(p) ==
    /\ p \in followers
    /\ storedBy[p] \notin accepts
    /\ ~At(storedBy[p], "accept")

\* A follow stored but never accepted stays so: the remote server that sends
\* it again only meets the unique key, until it sends an undo.
OnlyUndoRepairs ==
    [][\A p \in Pairs : Stranded(p) /\ p \in followers' => Stranded(p)']_vars

\* The task handlers look up the actor of the follow they answer: its row is
\* there before the task is, for refused actors too.
TasksFindTheirActor ==
    /\ \A r \in accepts \cup rejects : req[r].actor \in actors
    /\ \A p \in followers : p[2] \in actors

\* The requests as the actors that send them see them.
View(q) ==
    [stage  |-> CASE q.step = "unsent" -> "unsent"
                  [] q.step = "accept" -> "stored"
                  [] q.step \in {"answered", "cut"} -> "over"
                  [] OTHER -> "open",
     wants  |-> IF q.kind \in {"follow", "undo"} THEN q.kind ELSE "nothing",
     user   |-> q.user,
     actor  |-> q.actor,
     status |-> IF q.step = "answered" THEN q.status ELSE NoStatus]

ask == [r \in Requests |-> View(req[r])]

Promised == INSTANCE Following

\* The inbox implements Following: though a handler makes up to six calls, no
\* two of them in a transaction, and other requests of the same actor come
\* between, each request does what it asks in one step (a follow in two) or
\* not at all, and is not told 202 or 40x of something else.
FollowsAsPromised == Promised!Spec
=============================================================================
