-------------------------------- MODULE Server --------------------------------
(***************************************************************************)
(* The life of the two programs: Bootstrap (src/cmd/bootstrap.go),         *)
(* BuildContainer (src/internal/dic/container), the main functions of      *)
(* src/cmd and StartServer (src/internal/server.go), around the inbox      *)
(* requests and the key cache of module Signatures, which live and die     *)
(* with the program estrys.                                                *)
(***************************************************************************)
EXTENDS Signatures

CONSTANTS
    RunMigrations,        \* settings of estrys
    DisableEmbedWorker,
    TwitterAllowedUsers   \* the set of users it is configured with

ASSUME ServerSettings == RunMigrations \in BOOLEAN /\ DisableEmbedWorker \in BOOLEAN

Programs == {"estrys", "worker"}

VARIABLES
    phase,      \* what the main goroutine of each program is about to do
    cancelled,  \* its context is cancelled
    exit,       \* how it ended, while it is down
    tables,     \* the tables are migrated
    users,      \* estrys has seen to the users of its configuration
    embedded,   \* the goroutines of estrys that were started: embedded worker,
    poller,     \* poller
    http,       \* and server
    cut         \* history: the exit of estrys cut requests off

lifeVars == <<phase, cancelled, exit, tables, users, embedded, poller, http, cut>>
goroutines == <<embedded, poller, http>>
vars == <<sigVars, lifeVars>>

Phases == {"down", "build", "connect", "ping", "migrate", "users", "serve",
           "starting", "broker", "stopping"}
Exits == {"running", "0", "1", "panic", "killed"}
Begun(p, s) == phase[p] = s
Become(p, s) == phase' = [phase EXCEPT ![p] = s]

InFlight == {r \in Requests : req[r].step \in {"get", "ask", "add"}}

-----------------------------------------------------------------------------
(* The container: services in the order they are registered, each with those *)
(* its constructor gets from the container.                                  *)

Registrations == <<
    [service |-> "Config", needs |-> {}],
    [service |-> "Logger", needs |-> {}],
    [service |-> "Router", needs |-> {"Logger"}],
    [service |-> "URLGenerator", needs |-> {"Router"}],
    [service |-> "VocabService", needs |-> {"URLGenerator"}],
    [service |-> "Database", needs |-> {"Logger"}],
    [service |-> "RedisClient", needs |-> {}],
    [service |-> "UserCache", needs |-> {}],
    [service |-> "TweetCache", needs |-> {}],
    [service |-> "BackgroundWorkerClient", needs |-> {}],
    [service |-> "Backend", needs |-> {"Logger"}],
    [service |-> "TwitterClient", needs |-> {"Logger", "UserCache", "Backend"}],
    [service |-> "TweetRepository", needs |-> {"TweetCache"}],
    [service |-> "ActivityPubClient", needs |-> {"Logger", "URLGenerator"}],
    [service |-> "UserRepository", needs |-> {"Database"}],
    [service |-> "ActorRepository", needs |-> {"Database"}],
    [service |-> "AuthorizationChecker", needs |-> {}],
    [service |-> "KeyManager", needs |-> {"Logger"}],
    [service |-> "UserService",
     needs |-> {"Logger", "KeyManager", "UserRepository", "TwitterClient"}],
    [service |-> "InboxService",
     needs |-> {"Logger", "Database", "ActorRepository", "UserRepository", "KeyManager",
                "ActivityPubClient", "VocabService", "BackgroundWorkerClient",
                "AuthorizationChecker"}],
    [service |-> "TweetService",
     needs |-> {"Logger", "UserService", "TwitterClient", "TweetRepository"}],
    [service |-> "TwitterPoller",
     needs |-> {"Logger", "TwitterClient", "UserRepository", "BackgroundWorkerClient"}]>>

Registered(n) == {Registrations[i].service : i \in 1..n}

\* GetService panics if what is asked for is not registered.
GetService(services, registered) == services \subseteq registered

BuildContainer ==
    \A i \in DOMAIN Registrations :
        GetService(Registrations[i].needs, Registered(i - 1))

-----------------------------------------------------------------------------
Init ==
    /\ SigInit
    /\ phase = [p \in Programs |-> "down"]
    /\ cancelled = [p \in Programs |-> FALSE]
    /\ exit = [p \in Programs |-> "0"]
    /\ tables \in BOOLEAN
    /\ users = FALSE
    /\ embedded = "off"
    /\ poller = "off"
    /\ http = "off"
    /\ cut = FALSE

\* A program ends, with everything that is only in its memory.
Exit(p, code) ==
    /\ Become(p, "down")
    /\ exit' = [exit EXCEPT ![p] = code]
    /\ cancelled' = [cancelled EXCEPT ![p] = FALSE]
    /\ UNCHANGED tables
    /\ IF p = "estrys"
       THEN /\ cut' = (InFlight # {})
            /\ users' = FALSE
            /\ embedded' = "off"
            /\ poller' = "off"
            /\ http' = "off"
            /\ ForgetKeys
       ELSE UNCHANGED <<sigVars, users, goroutines, cut>>

-----------------------------------------------------------------------------
(* Bootstrap, of both programs. *)

Start(p) ==
    /\ Begun(p, "down")
    /\ Become(p, "build")
    /\ exit' = [exit EXCEPT ![p] = "running"]
    /\ cut' = IF p = "estrys" THEN FALSE ELSE cut
    /\ UNCHANGED <<sigVars, cancelled, tables, users, goroutines>>

\* main of estrys panics on an error of Bootstrap; main of the worker logs it,
\* if there is a logger, and exits.
BootstrapError(p) == IF p = "estrys" \/ Begun(p, "build") THEN "panic" ELSE "1"

\* The configuration is loaded and the container is built.
Build(p) ==
    /\ Begun(p, "build")
    /\ \/ /\ BuildContainer
          /\ Become(p, "connect")
          /\ UNCHANGED <<sigVars, cancelled, exit, tables, users, goroutines, cut>>
       \/ Exit(p, BootstrapError(p))

\* Sentry is initialised and Postgres connected to.
Connect(p) ==
    /\ Begun(p, "connect")
    /\ \/ /\ Become(p, "ping")
          /\ UNCHANGED <<sigVars, cancelled, exit, tables, users, goroutines, cut>>
       \/ Exit(p, BootstrapError(p))

\* Redis is pinged; from then on signals cancel the context.
Ping(p) ==
    /\ Begun(p, "ping")
    /\ \/ /\ Become(p, IF p = "estrys" THEN "migrate" ELSE "starting")
          /\ UNCHANGED <<sigVars, cancelled, exit, tables, users, goroutines, cut>>
       \/ Exit(p, BootstrapError(p))

\* A signal: before anybody has subscribed to signals it ends the program; after
\* Bootstrap has, the first one cancels the context and all others do nothing;
\* and asynq, once it has too, stops for any, be the context cancelled or not.
Signal(p) ==
    \/ /\ phase[p] \in {"build", "connect", "ping"}
       /\ Exit(p, "killed")
    \/ /\ phase[p] \in {"migrate", "users", "serve", "starting"}
       /\ ~cancelled[p]
       /\ cancelled' = [cancelled EXCEPT ![p] = TRUE]
       /\ UNCHANGED <<sigVars, phase, exit, tables, users, goroutines, cut>>
    \/ /\ Begun(p, "broker")
       /\ Become(p, "stopping")
       /\ cancelled' = [cancelled EXCEPT ![p] = TRUE]
       /\ UNCHANGED <<sigVars, exit, tables, users, goroutines, cut>>

-----------------------------------------------------------------------------
(* main of estrys. *)

\* Mutant of Migrate: the embedded worker is started, then the tables are
\* migrated (where CreateUsers may find them missing).
MigrateLater ==
    /\ Begun("estrys", "migrate")
    /\ Become("estrys", "users")
    /\ tables' \in {tables, TRUE}
    /\ embedded' = IF DisableEmbedWorker THEN "off" ELSE "running"
    /\ UNCHANGED <<sigVars, cancelled, exit, users, poller, http, cut>>

\* The tables are migrated, unless that is not wanted, and the embedded worker
\* is started.
Migrate ==
    /\ Begun("estrys", "migrate")
    /\ \/ /\ Become("estrys", "users")
          /\ tables' = (tables \/ RunMigrations)
          /\ embedded' = IF DisableEmbedWorker THEN "off" ELSE "running"
          /\ UNCHANGED <<sigVars, cancelled, exit, users, poller, http, cut>>
       \/ RunMigrations /\ Exit("estrys", "1")

\* BatchCreateUsers looks each of the users up in the tables, with the context of
\* the program; of no users, the default, it asks nothing.
BatchCreateUsers ==
    \/ TwitterAllowedUsers = {}
    \/ tables /\ ~cancelled["estrys"]

\* The users are created, which may fail if there are any; then the poller and
\* the server are started.
CreateUsers ==
    /\ Begun("estrys", "users")
    /\ \/ /\ BatchCreateUsers
          /\ Become("estrys", "serve")
          /\ users' = TRUE
          /\ poller' = "starting"
          /\ http' = "starting"
          /\ UNCHANGED <<sigVars, cancelled, exit, tables, embedded, cut>>
       \/ TwitterAllowedUsers # {} /\ Exit("estrys", "1")

\* The poller reads its first list from the tables, or main is ended (log.Fatalf),
\* which a missing table and a cancelled context make happen, the latter also while
\* it waits for a user to poll.
StartPoller ==
    /\ poller = "starting"
    /\ \/ /\ tables /\ ~cancelled["estrys"]
          /\ poller' = "running"
          /\ UNCHANGED <<sigVars, phase, cancelled, exit, tables, users, embedded, http, cut>>
       \/ Exit("estrys", "1")

\* A server that cannot listen is only logged (as are an embedded worker and a
\* poller that end): estrys stays up.
ListenAndServe ==
    /\ http = "starting"
    /\ http' \in {"listening", "failed"}
    /\ UNCHANGED <<sigVars, phase, cancelled, exit, tables, users, embedded, poller, cut>>

\* Mutant of Shutdown: its error is dropped.
ShutdownUnchecked ==
    /\ Begun("estrys", "serve")
    /\ cancelled["estrys"]
    /\ Exit("estrys", "0")

\* Mutant of Shutdown: it is given a context of its own, and waits.
ShutdownWaits ==
    /\ Begun("estrys", "serve")
    /\ cancelled["estrys"]
    /\ InFlight = {}
    /\ Exit("estrys", "0")

\* Shutdown is called with the context that was cancelled: it does not wait, but
\* fails if a connection is not idle, be it new or in the middle of a request.
\* Nobody waits for the poller or the embedded worker.
Shutdown ==
    /\ Begun("estrys", "serve")
    /\ cancelled["estrys"]
    /\ \/ InFlight = {} /\ Exit("estrys", "0")
       \/ Exit("estrys", "1")

-----------------------------------------------------------------------------
(* main of the worker. *)

\* asynq's Run (external) starts, which may fail, and only then subscribes to
\* signals itself.  It derives the contexts of the tasks from the one Bootstrap
\* cancels, and does not otherwise look at it.
StartBroker ==
    /\ Begun("worker", "starting")
    /\ \/ /\ Become("worker", "broker")
          /\ UNCHANGED <<sigVars, cancelled, exit, tables, users, goroutines, cut>>
       \/ Exit("worker", "1")

\* Run was told to stop, and returns.
StopBroker ==
    /\ Begun("worker", "stopping")
    /\ Exit("worker", "0")

-----------------------------------------------------------------------------
(* Requests to the inbox: new ones while the server listens. *)

ServeHTTP(r) ==
    /\ \/ http = "listening" /\ (Unsigned(r) \/ Arrive(r))
       \/ Handle(r)
    /\ UNCHANGED lifeVars

RemoteChangesKey(a) == ChangeKey(a) /\ UNCHANGED lifeVars

Boot(p) == Build(p) \/ Connect(p) \/ Ping(p)
Main == Migrate \/ CreateUsers \/ Shutdown
Broker == StartBroker \/ StopBroker

Next ==
    \/ \E p \in Programs : Start(p) \/ Boot(p) \/ Signal(p)
    \/ Main \/ Broker
    \/ StartPoller \/ ListenAndServe
    \/ \E r \in Requests : ServeHTTP(r)
    \/ \E a \in Actors : RemoteChangesKey(a)

Spec == Init /\ [][Next]_vars

\* The main goroutines go on, and what they call returns, successfully or not.
\* No handler, key server or remote actor owes anything.
Fairness ==
    /\ \A p \in Programs : WF_vars(Boot(p))
    /\ WF_vars(Main)
    /\ WF_vars(Broker)

FairSpec == Spec /\ Fairness

-----------------------------------------------------------------------------
(* Properties. *)

TypeOK ==
    /\ SigTypeOK
    /\ phase \in [Programs -> Phases]
    /\ cancelled \in [Programs -> BOOLEAN]
    /\ exit \in [Programs -> Exits]
    /\ {tables, users} \subseteq BOOLEAN
    /\ {embedded, poller} \subseteq {"off", "starting", "running"}
    /\ http \in {"off", "starting", "listening", "failed"}
    /\ cut \in BOOLEAN

\* Nothing of estrys works before what it works on is there, in any run of the
\* program: no embedded worker before the tables, if estrys migrates them; no
\* poller in its loop before the tables, in any case; and neither poller nor request
\* before main has seen to the users of the configuration, nor, if it migrates or
\* has such users, before the tables.
NothingStartsEarly ==
    /\ embedded = "running" /\ RunMigrations => tables
    /\ poller = "running" => tables
    /\ InFlight # {} \/ poller # "off" =>
        /\ users
        /\ RunMigrations \/ TwitterAllowedUsers # {} => tables

\* Exit status 0 says that no request was cut off: every exit with requests in
\* flight (Shutdown does not wait for them, nor does log.Fatalf) tells.
ExitZeroCutsNothing == exit["estrys"] = "0" => ~cut

\* estrys ends once it was told to, whenever that was, though a request hangs in
\* a key server that never answers, and whatever its goroutines do.  The worker ends
\* if asynq was told to: of one that is told before asynq listens only the context
\* is cancelled, and it stays up until it is told again.
SignalledProgramsEnd ==
    /\ cancelled["estrys"] ~> Begun("estrys", "down")
    /\ Begun("worker", "stopping") ~> Begun("worker", "down")

-----------------------------------------------------------------------------
(* What the cache and the life of estrys amount to: module Trust, of which   *)
(* these are the variables that are not here as they are.                    *)

up == http = "listening"

View(q) ==
    [stage |-> IF q.step \in {"get", "ask", "add"} THEN "open" ELSE q.step,
     actor |-> q.actor, made |-> q.made]

seen == [r \in Requests |-> View(req[r])]

Promised == INSTANCE Trust

\* Concurrent requests that look into one cache, ask, and add what they were told
\* later, while the cache evicts, actors change their keys and estrys ends and
\* starts, are answered as if each signature were compared with one of the keys
\* its actor has had since estrys started, or were not, if none was told; whoever
\* came before it and whatever is cached (FetchKey, HTTPSigMiddleware).
VerifiesAsPromised == Promised!Spec
=============================================================================
