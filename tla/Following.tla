------------------------------ MODULE Following ------------------------------
(***************************************************************************)
(* What a remote actor may rely on when it follows a user of the instance, *)
(* or undoes that (module Inbox implements it): a request takes effect in  *)
(* one step, or a follow in two, storing and accepting it; and its answer  *)
(* says which.  202 is done, 400 and 404 are nothing done, 403 nothing     *)
(* done or a follow rejected; only after 500, or no answer, may it be      *)
(* either.  There are no actors, keys and races to be seen.                *)
(***************************************************************************)
EXTENDS Naturals

CONSTANTS Requests, Bridged, Strangers, Actors, Allowed

VARIABLES
    ask,        \* of each request: what it asks, how far it is, its answer
    followers,  \* who follows whom: (user, actor) pairs
    accepts,    \* the requests that are being told they were accepted
    rejects     \* and those rejected

following == <<ask, followers, accepts, rejects>>

NoAnswer == 0

Asked(stage, wants, user, actor, status) ==
    [stage |-> stage, wants |-> wants, user |-> user, actor |-> actor,
     status |-> status]

Init ==
    /\ ask = [r \in Requests |-> Asked("unsent", "nothing", "none", "none", NoAnswer)]
    /\ followers = {}
    /\ accepts = {}
    /\ rejects = {}

Pair(r) == <<ask[r].user, ask[r].actor>>

\* A request that is open asks this of a user of the instance.
Asks(r, wants) ==
    /\ ask[r].stage = "open"
    /\ ask[r].wants = wants
    /\ ask[r].user \in Bridged

Become(r, stage, status) ==
    ask'[r] = Asked(stage, ask[r].wants, ask[r].user, ask[r].actor, status)

End(r, statuses) == ask'[r].status \in statuses /\ Become(r, "over", ask'[r].status)

Arrive(r) ==
    /\ ask[r].stage = "unsent"
    /\ ask'[r] \in [stage : {"open"}, wants : {"follow", "undo", "nothing"},
                    user : Bridged \cup Strangers, actor : Actors, status : {NoAnswer}]
    /\ UNCHANGED <<followers, accepts, rejects>>

\* Nothing is done, and the answer does not say it was.
Refuse(r) ==
    /\ ask[r].stage = "open"
    /\ End(r, {400, 403, 404, 500} \cup IF ask[r].wants = "nothing" THEN {202} ELSE {})
    /\ UNCHANGED <<followers, accepts, rejects>>

\* A new follow of an actor that is allowed to.
Store(r) ==
    /\ Asks(r, "follow")
    /\ ask[r].actor \in Allowed
    /\ Pair(r) \notin followers
    /\ followers' = followers \cup {Pair(r)}
    /\ Become(r, "stored", NoAnswer) \/ End(r, {500})
    /\ UNCHANGED <<accepts, rejects>>

Accept(r) ==
    /\ ask[r].stage = "stored"
    /\ accepts' = accepts \cup {r}
    /\ End(r, {202, 500})
    /\ UNCHANGED <<followers, rejects>>

\* The follow stays, and nobody is told.
Strand(r) ==
    /\ ask[r].stage = "stored"
    /\ End(r, {500})
    /\ UNCHANGED <<followers, accepts, rejects>>

Reject(r) ==
    /\ Asks(r, "follow")
    /\ ask[r].actor \notin Allowed
    /\ rejects' = rejects \cup {r}
    /\ End(r, {403, 500})
    /\ UNCHANGED <<followers, accepts>>

Remove(r) ==
    /\ Asks(r, "undo")
    /\ followers' = followers \ {Pair(r)}
    /\ End(r, {202, 500})
    /\ UNCHANGED <<accepts, rejects>>

\* What was not over is never answered.
Stop ==
    /\ ask' = [r \in Requests |->
                IF ask[r].stage \in {"open", "stored"}
                THEN Asked("over", ask[r].wants, ask[r].user, ask[r].actor, NoAnswer)
                ELSE ask[r]]
    /\ UNCHANGED <<followers, accepts, rejects>>

Advance(r) ==
    \/ Arrive(r) \/ Refuse(r)
    \/ Store(r) \/ Accept(r) \/ Strand(r) \/ Reject(r)
    \/ Remove(r)

\* Requests move one at a time.
Alone(r) == ask' = [ask EXCEPT ![r] = ask'[r]]

Next == Stop \/ \E r \in Requests : Alone(r) /\ Advance(r)

Spec == Init /\ [][Next]_following
=============================================================================
