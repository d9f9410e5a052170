-------------------------------- MODULE Users --------------------------------
(***************************************************************************)
(* The user service (src/internal/domain/users.go) with the users table    *)
(* (src/internal/repository/user.go) and the Twitter client's cache of     *)
(* users (src/internal/twitter/client.go, a Redis cache).                  *)
(*                                                                         *)
(* Three kinds of calls run at a time: BatchCreateUsers when main starts,  *)
(* BatchCreateUsersFromIDs of the worker's sends, and GetFullUser of the   *)
(* pages.  Meanwhile Twitter users change their names or leave.  A Twitter *)
(* id is a number, and so may a username be: Ids and Names may overlap.    *)
(***************************************************************************)
EXTENDS Naturals, FiniteSets

CONSTANTS
    Ids,         \* Twitter accounts
    Names,       \* Twitter usernames, lower case
    FirstName,   \* the name each account has at first
    Configured,  \* conf.TwitterAllowedUsers
    Sends,       \* executions of send-tweet tasks
    Requests,    \* page requests
    Main,        \* the goroutine that starts the process
    MaxMoves     \* bound: how often accounts are renamed or deleted

Gone == "gone"   \* the name of an account that left
None == "none"   \* no row, no entry, no user

ASSUME CallersAssumption == Main \notin Sends \cup Requests /\ Sends \cap Requests = {}
ASSUME NamesAssumption == FirstName \in [Ids -> Names] /\ Configured \subseteq Names
ASSUME NoneAssumption == {None, Gone} \cap (Ids \cup Names) = {}

VARIABLES
    account,   \* Twitter: the name of each account
    held,      \* history: the names each account has had
    users,     \* the users table: the id in the row of a username
    byName,    \* the cache, by username: the id of the cached user
    byId,      \* the cache, by id: the name of the cached user
    todo,      \* BatchCreateUsers: the usernames left
    call       \* the calls in progress, with their local variables

userVars == <<account, held, users, byName, byId, todo, call>>
stores == <<users, byName, byId>>

Callers == {Main} \cup Sends \cup Requests
Keys == Names \cup Ids   \* what a page may be asked for

\* op: what is called, with argument arg; row: the row found; id and name: the
\* Twitter user found; result: what the call returned.
Local(op, step, arg, row, id, name, result) ==
    [op |-> op, step |-> step, arg |-> arg,
     row |-> row, id |-> id, name |-> name, result |-> result]
Idle == Local(None, "idle", None, None, None, None, None)
Call(op, arg) ==
    Local(op, IF op = "ids" THEN "cacheId" ELSE "row", arg, None, None, None, None)

my(p) == call[p]
At(p, step) == my(p).step = step

\* The next step of a call, with what it has found; main's list stays.
Go(p, step, row, id, name) ==
    /\ call' = [call EXCEPT ![p] = Local(my(p).op, step, my(p).arg, row, id, name, None)]
    /\ UNCHANGED todo
Goto(p, step) == Go(p, step, my(p).row, my(p).id, my(p).name)

\* The call ends; an error ends main with it.
Done(p, row, id, result) ==
    /\ call' = [call EXCEPT ![p] =
                    Local(my(p).op, "done", my(p).arg, row, id, None, result)]
    /\ UNCHANGED todo
Fail(p, result) == Done(p, None, None, result)

\* The user has a row: main goes on to the next username.
Return(p) ==
    \/ /\ p = Main
       /\ call' = [call EXCEPT ![p] = Idle]
       /\ todo' = todo \ {my(p).arg}
    \/ p # Main /\ Done(p, None, None, "ok")

Renamed(i) == \E m, n \in Names : m # n /\ {<<i, m>>, <<i, n>>} \subseteq held
ChangedHands(n) == \E i, j \in Ids : i # j /\ {<<i, n>>, <<j, n>>} \subseteq held

-----------------------------------------------------------------------------
UsersInit ==
    /\ account = FirstName
    /\ held = {<<i, FirstName[i]>> : i \in Ids}
    /\ users = [n \in Names |-> None]
    /\ byName = [n \in Keys |-> None]
    /\ byId = [i \in Ids |-> None]
    /\ todo = Configured
    /\ call = [p \in Callers |-> Idle]

-----------------------------------------------------------------------------
(* Twitter. *)

Moves == Cardinality(held) - Cardinality(Ids) + Cardinality({i \in Ids : account[i] = Gone})

Rename(i, n) ==
    /\ Moves < MaxMoves
    /\ account[i] # Gone
    /\ \A j \in Ids : account[j] # n
    /\ account' = [account EXCEPT ![i] = n]
    /\ held' = held \cup {<<i, n>>}
    /\ UNCHANGED <<stores, todo, call>>

Leave(i) ==
    /\ Moves < MaxMoves
    /\ account[i] # Gone
    /\ account' = [account EXCEPT ![i] = Gone]
    /\ UNCHANGED <<held, stores, todo, call>>

\* The time to live of either entry of a user is over.
ExpireName(n) ==
    /\ byName[n] # None
    /\ byName' = [byName EXCEPT ![n] = None]
    /\ UNCHANGED <<account, held, users, byId, todo, call>>

ExpireId(i) ==
    /\ byId[i] # None
    /\ byId' = [byId EXCEPT ![i] = None]
    /\ UNCHANGED <<account, held, users, byName, todo, call>>

-----------------------------------------------------------------------------
(* The users table. *)

\* A query for one row returns any of those that match, or none.
One(rows) == IF rows = {} THEN {None} ELSE rows

\* Mutant of Get: the condition of the query is lost.
GetAnyRow(usernameOrID) == One({n \in Names : users[n] # None})

\* userRepo.Get: what looks like a number is first taken for an id, which is
\* not unique in the table.
Get(usernameOrID) ==
    LET byID == {n \in Names : users[n] = usernameOrID}
    IN  One(IF byID # {} THEN byID
            ELSE {n \in Names : n = usernameOrID /\ users[n] # None})

\* Mutant of Insert: the username of the row is what was asked for, which is an
\* id when a send creates the user.
InsertArg(p) ==
    LET username == IF my(p).arg \in Names THEN my(p).arg ELSE my(p).name
    IN  /\ users[username] = None
        /\ users' = [users EXCEPT ![username] = my(p).id]
        /\ Return(p)

\* Mutant of Insert: the fields of CreateUserRequest are swapped.
InsertSwapped(p) ==
    /\ users[my(p).name] = None
    /\ users' = [users EXCEPT ![my(p).name] = my(p).name]
    /\ Return(p)

\* An insert fails on the primary key, the username.
Insert(p) ==
    LET username == my(p).name
    IN  /\ users[username] = None
        /\ users' = [users EXCEPT ![username] = my(p).id]
        /\ Return(p)

\* createUserFromTwitter, with a new key pair.
CreateUser(p) ==
    /\ At(p, "insert")
    /\ \/ Insert(p)
       \/ /\ users[my(p).name] # None
          /\ Fail(p, "error")
          /\ UNCHANGED users
    /\ UNCHANGED <<account, held, byName, byId>>

-----------------------------------------------------------------------------
(* BatchCreateUsers, GetFullUser and BatchCreateUsersFromIDs. *)

\* Mutant of GotUser: the username is done with, row or not, if it was cached.
GotUserOrCached(p, i, n) ==
    \/ p = Main /\ my(p).row = None /\ ~At(p, "cache") /\ Go(p, "insert", None, i, n)
    \/ p = Main /\ (my(p).row # None \/ At(p, "cache")) /\ Return(p)
    \/ p # Main /\ Done(p, my(p).row, i, "ok")

\* What follows GetUser: start-up inserts a row if it had found none.
GotUser(p, i, n) ==
    \/ p = Main /\ my(p).row = None /\ Go(p, "insert", None, i, n)
    \/ p = Main /\ my(p).row # None /\ Return(p)
    \/ p # Main /\ Done(p, my(p).row, i, "ok")

\* main creates the configured users one after the other, before it serves.
StartUser ==
    /\ At(Main, "idle")
    /\ \E n \in todo : call' = [call EXCEPT ![Main] = Call("create", n)]
    /\ UNCHANGED <<account, held, stores, todo>>

Started == todo = {} /\ At(Main, "idle")

\* The row is read before Twitter is asked, except by BatchCreateUsersFromIDs.
GetRow(p) ==
    /\ At(p, "row")
    /\ \E row \in Get(my(p).arg) :
        \/ my(p).op = "full" /\ row = None /\ Fail(p, "noRow")
        \/ my(p).op = "ids" /\ row = None /\ Goto(p, "insert")
        \/ my(p).op = "ids" /\ row # None /\ Return(p)
        \/ my(p).op = "full" /\ row # None /\ Go(p, "cache", row, None, None)
        \/ my(p).op = "create" /\ Go(p, "cache", row, None, None)
    /\ UNCHANGED <<account, held, stores>>

\* GetUser answers from the cache ...
CacheHit(p) ==
    /\ At(p, "cache")
    /\ byName[my(p).arg] # None
    /\ GotUser(p, byName[my(p).arg], my(p).arg)
    /\ UNCHANGED <<account, held, stores>>

CacheMiss(p) ==
    /\ At(p, "cache")
    /\ byName[my(p).arg] = None
    /\ Goto(p, "ask")
    /\ UNCHANGED <<account, held, stores>>

\* Mutant of UserNameLookup: a user Twitter does not know is answered from the
\* row, and cached.
UserNameLookupOrRow(p) ==
    /\ At(p, "ask")
    /\ LET ids == {i \in Ids : account[i] = my(p).arg}
       IN  IF ids = {} /\ my(p).row = None
           THEN Fail(p, "notFound")
           ELSE \E i \in IF ids = {} THEN {users[my(p).row]} ELSE ids :
                    Go(p, "save", my(p).row, i, my(p).arg)
    /\ UNCHANGED <<account, held, stores>>

\* ... or asks Twitter, ...
UserNameLookup(p) ==
    /\ At(p, "ask")
    /\ \/ /\ \A i \in Ids : account[i] # my(p).arg
          /\ Fail(p, "notFound")
       \/ \E i \in Ids :
            account[i] = my(p).arg /\ Go(p, "save", my(p).row, i, my(p).arg)
    /\ UNCHANGED <<account, held, stores>>

\* ... and stores what it was told under both keys, each of which may be lost.
SaveUser(p) ==
    /\ At(p, "save")
    /\ byName' \in {byName, [byName EXCEPT ![my(p).name] = my(p).id]}
    /\ byId' \in {byId, [byId EXCEPT ![my(p).id] = my(p).name]}
    /\ GotUser(p, my(p).id, my(p).name)
    /\ UNCHANGED <<account, held, users>>

\* GetUserByIDs reads the other key, and stores nothing.
CacheIdHit(p) ==
    /\ At(p, "cacheId")
    /\ byId[my(p).arg] # None
    /\ Go(p, "row", None, my(p).arg, byId[my(p).arg])
    /\ UNCHANGED <<account, held, stores>>

CacheIdMiss(p) ==
    /\ At(p, "cacheId")
    /\ byId[my(p).arg] = None
    /\ Goto(p, "askId")
    /\ UNCHANGED <<account, held, stores>>

UserLookup(p) ==
    /\ At(p, "askId")
    /\ \/ /\ account[my(p).arg] = Gone
          /\ Fail(p, "error")
       \/ /\ account[my(p).arg] # Gone
          /\ Go(p, "row", None, my(p).arg, account[my(p).arg])
    /\ UNCHANGED <<account, held, stores>>

\* A call to Redis, Twitter or the database fails.
CallFails(p) ==
    /\ my(p).step \in {"row", "cache", "ask", "insert", "cacheId", "askId"}
    /\ Fail(p, "error")
    /\ UNCHANGED <<account, held, stores>>

\* main exits on an error of BatchCreateUsers, and the process is stopped at
\* any time; it is started again with the same configuration.
Restart ==
    /\ todo' = Configured
    /\ call' = [p \in Callers |-> Idle]
    /\ UNCHANGED <<account, held, stores>>

Step(p) ==
    \/ GetRow(p) \/ CacheHit(p) \/ CacheMiss(p) \/ UserNameLookup(p)
    \/ SaveUser(p)
    \/ CacheIdHit(p) \/ CacheIdMiss(p) \/ UserLookup(p)
    \/ CreateUser(p) \/ CallFails(p)

UsersNext ==
    \/ \E i \in Ids : Leave(i) \/ ExpireId(i) \/ \E n \in Names : Rename(i, n)
    \/ \E n \in Keys : ExpireName(n)
    \/ StartUser
    \/ \E p \in Callers : Step(p)

\* An entry of the cache has a time to live.
UsersFairness ==
    /\ \A n \in Keys : WF_userVars(ExpireName(n))
    /\ \A i \in Ids : WF_userVars(ExpireId(i))

-----------------------------------------------------------------------------
(* Properties. *)

UsersTypeOK ==
    /\ account \in [Ids -> Names \cup {Gone}]
    /\ held \subseteq Ids \X Names
    /\ users \in [Names -> Ids \cup {None}]
    /\ byName \in [Keys -> Ids \cup {None}]
    /\ byId \in [Ids -> Names \cup {None}]
    /\ todo \subseteq Configured
    /\ \A p \in Callers :
        /\ my(p).row \in Names \cup {None}
        /\ my(p).id \in Ids \cup {None}
        /\ my(p).name \in Names \cup {None}

\* When main starts to serve, every configured user has a row, whatever the
\* sends of the embedded worker inserted meanwhile and however often start-up
\* failed half-way; only a username that is the id of another row has none.
ConfiguredUsersHaveRows ==
    Started =>
        \A n \in Configured : users[n] # None \/ \E m \in Names : users[m] = n

\* The users table keeps an account under the names it had; a second row of one
\* account, with a second key pair, needs a rename.  Two callers that meet an
\* unknown account at once do not make one.
SecondRowNeedsRename ==
    \A m, n \in Names :
        m # n /\ users[m] = users[n] /\ users[m] # None => Renamed(users[m])

\* GetFullUser joins a row with what Twitter, or the cache, says of a username:
\* both are of one account, unless the username changed hands or is a number.
OneAccountPerPage ==
    \A p \in Requests :
        my(p).result = "ok" /\ my(p).id # users[my(p).row] =>
            ChangedHands(my(p).arg) \/ my(p).arg \in Ids

\* A deleted account leaves the cache for good: no hit, no late answer of
\* Twitter and no row brings it back for ever.
DeletedUsersAreForgotten ==
    \A i \in Ids :
        <>[](account[i] = Gone =>
                byId[i] = None /\ \A n \in Keys : byName[n] # i)
=============================================================================
