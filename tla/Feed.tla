-------------------------------- MODULE Feed --------------------------------
(***************************************************************************)
(* What a follower may rely on, whatever list the poller walks and however *)
(* often it fails (module Poller implements it): each user has a poll of   *)
(* its own, which takes the user's tweets from the newest posted when it   *)
(* began down to the mark, or to the last that fits a page; each is read   *)
(* for the actors that follow at that moment and enqueued once for each;   *)
(* and the mark moves, to the newest, only when all of it is done.         *)
(***************************************************************************)
EXTENDS Naturals

CONSTANTS Users, Actors, MaxPosts, MaxPage

VARIABLES
    posted,   \* how many tweets each user has posted
    follows,  \* who follows whom: (user, actor) pairs
    queue,    \* how many tasks were enqueued for (user, tweet, actor)
    on,       \* whether the feed is on
    mark,     \* of each user, the newest tweet that is done with
    poll      \* of each user, the poll in progress

feed == <<posted, follows, queue, on, mark, poll>>

\* A poll is the newest tweet it takes, the last it has read, and the followers
\* that tweet has still to be enqueued for.
Idle == [newest |-> 0, tweet |-> 0, left |-> {}]

Init ==
    /\ posted = [u \in Users |-> 0]
    /\ follows = {}
    /\ queue = [t \in Users \X (1..MaxPosts) \X Actors |-> 0]
    /\ on = FALSE
    /\ mark = [u \in Users |-> 0]
    /\ poll = [u \in Users |-> Idle]

Post(u) ==
    /\ posted' = [posted EXCEPT ![u] = @ + 1]
    /\ UNCHANGED <<follows, queue, on, mark, poll>>

Follow(u, a) ==
    /\ follows' = follows \cup {<<u, a>>}
    /\ UNCHANGED <<posted, queue, on, mark, poll>>

UnFollow(u, a) ==
    /\ follows' = follows \ {<<u, a>>}
    /\ UNCHANGED <<posted, queue, on, mark, poll>>

\* Tweets posted before the feed is on are never enqueued.
TurnOn ==
    /\ ~on
    /\ on' = TRUE
    /\ mark' = posted
    /\ UNCHANGED <<posted, follows, queue, poll>>

\* What was in progress is forgotten, and how far each user was.
TurnOff ==
    /\ on' = FALSE
    /\ mark' = [u \in Users |-> 0]
    /\ poll' = [u \in Users |-> Idle]
    /\ UNCHANGED <<posted, follows, queue>>

Begin(u) ==
    /\ on
    /\ poll[u] = Idle
    /\ posted[u] > mark[u]
    /\ poll' = [poll EXCEPT ![u] = [newest |-> posted[u],
                                    tweet  |-> posted[u] + 1,
                                    left   |-> {}]]
    /\ UNCHANGED <<posted, follows, queue, on, mark>>

\* The poll of u has nothing left to take.
Complete(u) ==
    \/ poll[u].tweet = mark[u] + 1
    \/ poll[u].tweet + MaxPage = poll[u].newest + 1

\* The next older tweet goes to those that follow now.
Take(u) ==
    /\ poll[u] # Idle
    /\ poll[u].left = {}
    /\ ~Complete(u)
    /\ poll' = [poll EXCEPT ![u] = [newest |-> @.newest,
                                    tweet  |-> @.tweet - 1,
                                    left   |-> {a \in Actors : <<u, a>> \in follows}]]
    /\ UNCHANGED <<posted, follows, queue, on, mark>>

\* One task more for a follower of the tweet in hand.
Copy(u, a) == queue' = [queue EXCEPT ![<<u, poll[u].tweet, a>>] = @ + 1]

Enqueue(u, a) ==
    /\ a \in poll[u].left
    /\ Copy(u, a)
    /\ poll' = [poll EXCEPT ![u].left = @ \ {a}]
    /\ UNCHANGED <<posted, follows, on, mark>>

\* A failed call ends the poll; the task it was about may be in the queue.
Fail(u) ==
    /\ poll[u] # Idle
    /\ \/ UNCHANGED queue
       \/ \E a \in poll[u].left : Copy(u, a)
    /\ poll' = [poll EXCEPT ![u] = Idle]
    /\ UNCHANGED <<posted, follows, on, mark>>

Finish(u) ==
    /\ poll[u] # Idle
    /\ poll[u].left = {}
    /\ Complete(u)
    /\ mark' = [mark EXCEPT ![u] = poll[u].newest]
    /\ poll' = [poll EXCEPT ![u] = Idle]
    /\ UNCHANGED <<posted, follows, queue, on>>

Advance(u) ==
    \/ Post(u) \/ Begin(u) \/ Take(u) \/ Fail(u) \/ Finish(u)
    \/ \E a \in Actors : Follow(u, a) \/ UnFollow(u, a) \/ Enqueue(u, a)

Next == TurnOn \/ TurnOff \/ \E u \in Users : Advance(u)

Spec == Init /\ [][Next]_feed
=============================================================================
