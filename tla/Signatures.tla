----------------------------- MODULE Signatures -----------------------------
(***************************************************************************)
(* The check of signatures on the inbox: HTTPSigMiddleware                 *)
(* (src/internal/activitypub/auth/http.go) and FetchKey of the key manager *)
(* (src/internal/crypto/key_manager.go) with its LRU cache of keys, by     *)
(* concurrent requests of remote actors, which may change their keys.      *)
(***************************************************************************)
EXTENDS Naturals, Sequences

CONSTANTS
    Actors,     \* remote actors, and the ids of their keys
    Unusual,    \* those of them with an Ed25519 key
    Requests,   \* requests to the inbox
    Capacity,   \* keys the cache holds (1000 in the code)
    DisableHTTPSignatureVerify, \* a setting
    MaxChanges  \* bound: how often an actor changes its key

ASSUME UnusualAssumption == Unusual \subseteq Actors
ASSUME CapacityAssumption == Capacity \in Nat \ {0}
ASSUME SettingAssumption == DisableHTTPSignatureVerify \in BOOLEAN
ASSUME ChangesAssumption == MaxChanges \in Nat

VARIABLES
    key,    \* the number of each actor's key
    born,   \* history: its number when the process started
    cache,  \* the key manager's cache, the entry used last first
    req     \* the requests in the middleware, or answered

sigVars == <<key, born, cache, req>>

None == "none"

ASSUME NoneAssumption == None \notin Actors

\* A signature names an actor's key and was made with a key, by its number.
Request(step, actor, made, got) ==
    [step |-> step, actor |-> actor, made |-> made, got |-> got]
Idle == Request("idle", None, 0, 0)
Steps == {"idle", "get", "ask", "add", "handled", "refused", "failed"}
Free == {"idle", "handled", "refused", "failed"}
Is(r, s) == req[r].step = s
Goto(r, step, got) ==
    req' = [req EXCEPT ![r] = Request(step, req[r].actor, req[r].made, got)]

SigInit ==
    /\ key = [a \in Actors |-> 0]
    /\ born = key
    /\ cache = <<>>
    /\ req = [r \in Requests |-> Idle]

-----------------------------------------------------------------------------
(* The cache: github.com/hashicorp/golang-lru. *)

Hit(a) == \E i \in DOMAIN cache : cache[i].actor = a
Cached(a) == CHOOSE i \in DOMAIN cache : cache[i].actor = a
Others(a) ==
    IF Hit(a)
    THEN SubSeq(cache, 1, Cached(a) - 1) \o SubSeq(cache, Cached(a) + 1, Len(cache))
    ELSE cache

\* Get and Add move the entry to the front; Add drops the last one if there are
\* too many.
Touch(a) == <<cache[Cached(a)]>> \o Others(a)
Add(a, k) ==
    LET entries == <<[actor |-> a, key |-> k]>> \o Others(a)
    IN  IF Len(entries) > Capacity THEN SubSeq(entries, 1, Capacity) ELSE entries

-----------------------------------------------------------------------------
(* HTTPSigMiddleware and FetchKey. *)

\* The algorithm is found by the type of the key.  A parsed Ed25519 key is no
\* pointer, which the middleware expects: it finds none, and nothing verifies.
Algorithm(a) == IF a \in Unusual THEN None ELSE "SHA256"
Verify(a, made, k) == Algorithm(a) # None /\ made = k

\* HandleInbox refuses a request that is not signed; it goes on otherwise.
Answer(r, signed, step) ==
    Goto(r, IF signed \/ DisableHTTPSignatureVerify THEN "handled" ELSE step, 0)

\* A request without a signature, or with one that does not parse.
Unsigned(r) ==
    /\ req[r].step \in Free
    /\ req' = [req EXCEPT ![r] =
                 Request(IF DisableHTTPSignatureVerify THEN "handled" ELSE "refused",
                         None, 0, 0)]
    /\ UNCHANGED <<key, born, cache>>

\* A request signed with the key its actor has, or has had.
Arrive(r) ==
    /\ req[r].step \in Free
    /\ \E a \in Actors : \E made \in 0..key[a] :
        req' = [req EXCEPT ![r] = Request("get", a, made, 0)]
    /\ UNCHANGED <<key, born, cache>>

\* Mutant of GetKey: a cached key is good for a signature made with any.
GetKeyUnverified(r) ==
    LET a == req[r].actor
    IN  /\ Is(r, "get")
        /\ IF Hit(a)
           THEN /\ cache' = Touch(a)
                /\ Answer(r, Algorithm(a) # None, "refused")
           ELSE /\ Goto(r, "ask", 0)
                /\ UNCHANGED cache
        /\ UNCHANGED <<key, born>>

\* FetchKey looks into the cache; a hit is verified at once.
GetKey(r) ==
    LET a == req[r].actor
    IN  /\ Is(r, "get")
        /\ IF Hit(a)
           THEN /\ cache' = Touch(a)
                /\ Answer(r, Verify(a, req[r].made, cache[Cached(a)].key), "refused")
           ELSE /\ Goto(r, "ask", 0)
                /\ UNCHANGED cache
        /\ UNCHANGED <<key, born>>

\* The actor's server tells its key of the moment, ...
AskKey(r) ==
    /\ Is(r, "ask")
    /\ Goto(r, "add", key[req[r].actor])
    /\ UNCHANGED <<key, born, cache>>

\* Mutant of AskFails: what does not parse as a key is added before the error is
\* looked at: a key that no actor has.
AskFailsAdded(r) ==
    /\ Is(r, "ask")
    /\ cache' = Add(req[r].actor, MaxChanges + 1)
    /\ Answer(r, FALSE, "failed")
    /\ UNCHANGED <<key, born>>

\* Mutant of AskFails: an error of FetchKey does not stop the request.
AskFailsOpen(r) ==
    /\ Is(r, "ask")
    /\ Answer(r, TRUE, "failed")
    /\ UNCHANGED <<key, born, cache>>

\* ... or what is no key, or nothing before the sender hangs up.
AskFails(r) ==
    /\ Is(r, "ask")
    /\ Answer(r, FALSE, "failed")
    /\ UNCHANGED <<key, born, cache>>

\* What was told is added, and verified with.
AddKey(r) ==
    /\ Is(r, "add")
    /\ cache' = Add(req[r].actor, req[r].got)
    /\ Answer(r, Verify(req[r].actor, req[r].made, req[r].got), "refused")
    /\ UNCHANGED <<key, born>>

-----------------------------------------------------------------------------
ChangeKey(a) ==
    /\ key[a] < MaxChanges
    /\ key' = [key EXCEPT ![a] = @ + 1]
    /\ UNCHANGED <<born, cache, req>>

\* Mutant of ForgetKeys: the cache is kept outside of the process.
KeepKeys ==
    /\ req' = [r \in Requests |-> Idle]
    /\ born' = key
    /\ UNCHANGED <<key, cache>>

\* The process is gone and starts with an empty cache.
ForgetKeys ==
    /\ cache' = <<>>
    /\ req' = [r \in Requests |-> Idle]
    /\ born' = key
    /\ UNCHANGED key

Handle(r) == GetKey(r) \/ AskKey(r) \/ AskFails(r) \/ AddKey(r)

-----------------------------------------------------------------------------
(* Properties. *)

SigTypeOK ==
    /\ key \in [Actors -> 0..MaxChanges]
    /\ born \in [Actors -> 0..MaxChanges]
    /\ cache \in Seq([actor : Actors, key : 0..MaxChanges])
    /\ req \in [Requests -> [step : Steps, actor : Actors \cup {None},
                             made : 0..MaxChanges, got : 0..MaxChanges]]

\* A request of an actor that has one key since the process started is refused
\* only if its key could not be fetched: neither evictions, nor concurrent
\* fetches, nor other actors' changes of keys make it fail.  Ed25519 keys never
\* verify.
OneKeyIsTrusted ==
    \A r \in Requests :
        LET a == req[r].actor
        IN  Is(r, "refused") /\ a \in Actors \ Unusual /\ key[a] = born[a] =>
                req[r].made < key[a]

\* A request made with a key its actor gave up before the process started is not
\* handled: what the cache holds was told since.
OldKeysAreForgotten ==
    \A r \in Requests :
        Is(r, "handled") /\ ~DisableHTTPSignatureVerify =>
            req[r].made >= born[req[r].actor]
=============================================================================
