-------------------------------- MODULE Trust --------------------------------
(***************************************************************************)
(* What a remote actor may rely on when it signs requests to the inbox     *)
(* (modules Signatures and Server implement it): its signature is compared *)
(* with a key it has had since the server came up, which a restart makes   *)
(* its key of the moment; a request is answered once and for all.  There   *)
(* are no cache, key servers and other requests to be seen.                *)
(***************************************************************************)
EXTENDS Naturals

CONSTANTS Requests, Actors, Unusual, DisableHTTPSignatureVerify

VARIABLES
    up,     \* the server takes requests
    key,    \* the number of each actor's key
    born,   \* its number when the server was last restarted
    seen    \* of each request: how far it is, whose it is, made with which key

trust == <<up, key, born, seen>>

Nobody == "none"

Seen(stage, actor, made) == [stage |-> stage, actor |-> actor, made |-> made]
Idle == Seen("idle", Nobody, 0)

Init ==
    /\ up = FALSE
    /\ key = [a \in Actors |-> 0]
    /\ born = key
    /\ seen = [r \in Requests |-> Idle]

\* Without the setting only what is verified is handled.
Answer(r, verified, otherwise) ==
    seen'[r] = Seen(IF verified \/ DisableHTTPSignatureVerify THEN "handled" ELSE otherwise,
                    seen'[r].actor, seen'[r].made)

Stays(r) == seen'[r].actor = seen[r].actor /\ seen'[r].made = seen[r].made

Unsigned(r) ==
    /\ seen[r].stage # "open"
    /\ seen'[r].actor = Nobody
    /\ seen'[r].made = 0
    /\ Answer(r, FALSE, "refused")

\* Signed with the key the actor has, or has had.
Arrive(r) ==
    /\ seen[r].stage # "open"
    /\ seen'[r].actor \in Actors
    /\ seen'[r].made \in 0..key[seen'[r].actor]
    /\ seen'[r] = Seen("open", seen'[r].actor, seen'[r].made)

\* It is handled if the signature and the key agree, which those of unusual
\* actors never do, and refused if they do not.
Judge(r) ==
    /\ seen[r].stage = "open"
    /\ Stays(r)
    /\ \E k \in born[seen[r].actor]..key[seen[r].actor] :
        Answer(r, seen[r].actor \notin Unusual /\ seen[r].made = k, "refused")

\* There is no key to be had.
Fail(r) ==
    /\ seen[r].stage = "open"
    /\ Stays(r)
    /\ Answer(r, FALSE, "failed")

ChangeKey(a) ==
    /\ key' = [key EXCEPT ![a] = @ + 1]
    /\ UNCHANGED <<up, born, seen>>

ComeUp ==
    /\ ~up
    /\ up' = TRUE
    /\ UNCHANGED <<key, born, seen>>

Restart ==
    /\ up' = FALSE
    /\ born' = key
    /\ seen' = [r \in Requests |-> Idle]
    /\ UNCHANGED key

\* Requests move one at a time, and only while the server is up.
Serve(r) ==
    /\ up
    /\ seen' = [seen EXCEPT ![r] = seen'[r]]
    /\ Unsigned(r) \/ Arrive(r) \/ Judge(r) \/ Fail(r)
    /\ UNCHANGED <<up, key, born>>

Next ==
    \/ ComeUp \/ Restart
    \/ \E a \in Actors : ChangeKey(a)
    \/ \E r \in Requests : Serve(r)

Spec == Init /\ [][Next]_trust
=============================================================================
