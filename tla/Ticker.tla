------------------------------- MODULE Ticker --------------------------------
(***************************************************************************)
(* The rate of the poller: the ticker of Start (src/internal/twitter/      *)
(* poller/poller.go), the loop that takes its ticks and the requests for   *)
(* timelines that FetchTweets makes, of which Twitter allows MaxRequests   *)
(* in a window of MaxRequests periods.  What a request is for, and what    *)
(* comes of it, is in module Poller.                                       *)
(*                                                                         *)
(* Time is counted in units that divide the period.  Nothing is said of    *)
(* how long anything takes: ticks, calls and the loop may all be late.     *)
(***************************************************************************)
EXTENDS Integers, Sequences

CONSTANTS
    Period,         \* periodMins * time.Minute / maxRequests
    MaxRequests     \* maxRequests

VARIABLES
    now,        \* the time
    due,        \* when the ticker is to send its next tick
    ticks,      \* ticks in its channel, which has room for one
    pc,         \* where the loop is: it waits for a tick, or is about to ask
    asked       \* history: when Twitter was asked for timelines

vars == <<now, due, ticks, pc, asked>>

Init ==
    /\ now = 0
    /\ due = Period
    /\ ticks = 0
    /\ pc = "wait"
    /\ asked = <<>>

Pass ==
    /\ now' = now + 1
    /\ UNCHANGED <<due, ticks, pc, asked>>

\* time.Ticker: a tick that finds one in the channel is dropped; after a late
\* one the next is due at the next multiple of the period.
Tick ==
    /\ now >= due
    /\ ticks' = 1
    /\ \E k \in 1..(1 + now - due) : due' = due + k * Period
    /\ now < due' /\ due' <= now + Period
    /\ UNCHANGED <<now, pc, asked>>

\* The loop of Start takes a tick whenever it is back from FetchTweets.
TakeTick ==
    /\ pc = "wait"
    /\ ticks = 1
    /\ ticks' = 0
    /\ pc' = "fetch"
    /\ UNCHANGED <<now, due, asked>>

\* FetchTweets asks for one timeline, maybe after it has read the list again, ...
GetUserTweets ==
    /\ pc = "fetch"
    /\ asked' = Append(asked, now)
    /\ pc' = "wait"
    /\ UNCHANGED <<now, due, ticks>>

\* ... or for none, if the list is empty or not to be had.
AskNothing ==
    /\ pc = "fetch"
    /\ pc' = "wait"
    /\ UNCHANGED <<now, due, ticks, asked>>

\* The process ends, and the next one makes a ticker of its own.  Twitter counts
\* the requests of both.
Restart ==
    /\ due' = now + Period
    /\ ticks' = 0
    /\ pc' = "wait"
    /\ UNCHANGED <<now, asked>>

Next == Pass \/ Tick \/ TakeTick \/ GetUserTweets \/ AskNothing \/ Restart

Spec == Init /\ [][Next]_vars

-----------------------------------------------------------------------------
(* Properties. *)

\* No window of MaxRequests periods, wherever it begins, has more than three
\* requests too many: one that came late after its tick, the tick that waited
\* in the channel meanwhile, and one the ticker itself was late with.
WindowBounded ==
    \A i \in DOMAIN asked :
        LET j == i + MaxRequests + 3
        IN  j \in DOMAIN asked => asked[j] - asked[i] >= MaxRequests * Period
=============================================================================
