------------------------------- MODULE Worker -------------------------------
(***************************************************************************)
(* The background worker: src/internal/worker (StartBroker, ErrorHandler,  *)
(* the handlers of the three task types) and PostInbox of                  *)
(* src/internal/activitypub/client/client.go, run by the asynq library on  *)
(* a Redis queue.                                                          *)
(*                                                                         *)
(* A task is executed by a handler that reads the database, posts one      *)
(* activity to the inbox of a remote actor and returns an error or none.   *)
(* asynq (external) retries or archives a task whose handler failed, and   *)
(* takes a task away from its handler when the task's timeout expires or   *)
(* the context of the process is cancelled; a task whose process died is   *)
(* recovered when its lease expires.  The request a handler sent outlives  *)
(* the attempt: it can reach the remote server late, or never.             *)
(***************************************************************************)
EXTENDS Naturals, FiniteSets

CONSTANTS
    Accepts,     \* accept-follow tasks
    Rejects,     \* reject-follow tasks
    Notes,       \* send-tweet tasks
    MaxRetry,    \* asynq.MaxRetry of every task (5 in the code)
    Concurrency  \* how many tasks a process executes at once

ASSUME MaxRetryAssumption == MaxRetry \in Nat
ASSUME ConcurrencyAssumption == Concurrency \in Nat \ {0}
ASSUME TypesAssumption ==
    /\ Accepts \cap Rejects = {}
    /\ Accepts \cap Notes = {}
    /\ Rejects \cap Notes = {}

VARIABLES
    up,         \* the process is running
    state,      \* the state of each task in asynq
    retried,    \* how often it was put back after a failed attempt
    step,       \* what the attempt in progress does next
    answer,     \* the status the attempt's post was answered with
    wire,       \* posts not yet received: <<task, attempt>>
    \* history
    processed,  \* how often the remote server processed the activity
    refused,    \* tasks whose handler was answered 4xx
    final,      \* tasks archived with an error that its handler calls final
    cut         \* attempts that were not ended by their handler

vars == <<up, state, retried, step, answer, wire, processed, refused, final, cut>>
history == <<processed, refused, final, cut>>

Tasks == Accepts \cup Rejects \cup Notes
TaskStates == {"absent", "pending", "active", "retry", "completed", "archived"}
Steps == {"none", "save", "lookup", "post", "wait", "answered", "orphaned"}
Answers == {"none", "202", "2xx", "4xx", "5xx"}
Attempts == Tasks \X (0..MaxRetry)

Running(t) == state[t] = "active" /\ step[t] # "orphaned"
At(t, s) == Running(t) /\ step[t] = s
Goto(t, s) == step' = [step EXCEPT ![t] = s]

-----------------------------------------------------------------------------
Init ==
    /\ up = FALSE
    /\ state = [t \in Tasks |-> "absent"]
    /\ retried = [t \in Tasks |-> 0]
    /\ step = [t \in Tasks |-> "none"]
    /\ answer = [t \in Tasks |-> "none"]
    /\ wire = {}
    /\ processed = [t \in Tasks |-> 0]
    /\ refused = {}
    /\ final = {}
    /\ cut = [t \in Tasks |-> 0]

-----------------------------------------------------------------------------
(* asynq: the queue and the life of a task. *)

\* The inbox or the poller enqueues a task, once.
Enqueue(t) ==
    /\ state[t] = "absent"
    /\ state' = [state EXCEPT ![t] = "pending"]
    /\ UNCHANGED <<up, retried, step, answer, wire, history>>

StartBroker ==
    /\ ~up
    /\ up' = TRUE
    /\ UNCHANGED <<state, retried, step, answer, wire, history>>

\* A free goroutine of the process takes a task; the mux picks its handler.
Dequeue(t) ==
    /\ up
    /\ state[t] = "pending"
    /\ Cardinality({s \in Tasks : Running(s)}) < Concurrency
    /\ state' = [state EXCEPT ![t] = "active"]
    /\ Goto(t, IF t \in Notes THEN "save" ELSE "lookup")
    /\ UNCHANGED <<up, retried, answer, wire, history>>

\* The delay of a retry has passed.
Forward(t) ==
    /\ up
    /\ state[t] = "retry"
    /\ state' = [state EXCEPT ![t] = "pending"]
    /\ UNCHANGED <<up, retried, step, answer, wire, history>>

\* Mutant of End: one retry more than MaxRetry.
EndOneTooLate(t, error) ==
    /\ step' = [step EXCEPT ![t] = "none"]
    /\ answer' = [answer EXCEPT ![t] = "none"]
    /\ IF error = "none"
       THEN /\ state' = [state EXCEPT ![t] = "completed"]
            /\ UNCHANGED retried
       ELSE IF error = "SkipRetry" \/ retried[t] > MaxRetry
       THEN /\ state' = [state EXCEPT ![t] = "archived"]
            /\ UNCHANGED retried
       ELSE /\ state' = [state EXCEPT ![t] = "retry"]
            /\ retried' = [retried EXCEPT ![t] = @ + 1]

\* An attempt ends: without an error, with one asynq recognises as SkipRetry,
\* or with any other.
End(t, error) ==
    /\ step' = [step EXCEPT ![t] = "none"]
    /\ answer' = [answer EXCEPT ![t] = "none"]
    /\ IF error = "none"
       THEN /\ state' = [state EXCEPT ![t] = "completed"]
            /\ UNCHANGED retried
       ELSE IF error = "SkipRetry" \/ retried[t] >= MaxRetry
       THEN /\ state' = [state EXCEPT ![t] = "archived"]
            /\ UNCHANGED retried
       ELSE /\ state' = [state EXCEPT ![t] = "retry"]
            /\ retried' = [retried EXCEPT ![t] = @ + 1]

\* Mutant of Expire: the tasks are made without a timeout.
NeverExpire(t) == FALSE /\ UNCHANGED vars

\* The timeout the task was made with expires: the attempt has failed,
\* wherever its handler is.
Expire(t) ==
    /\ Running(t)
    /\ cut' = [cut EXCEPT ![t] = @ + 1]
    /\ End(t, "timeout")
    /\ UNCHANGED <<up, wire, processed, refused, final>>

\* A signal cancels the context every handler's is derived from: asynq counts
\* each attempt in progress as failed before the process is gone.
Shutdown ==
    /\ up
    /\ up' = FALSE
    /\ LET busy == {t \in Tasks : Running(t)}
           last == {t \in busy : retried[t] >= MaxRetry}
       IN  /\ state' = [t \in Tasks |->
                          IF t \in last THEN "archived"
                          ELSE IF t \in busy THEN "retry" ELSE state[t]]
           /\ retried' = [t \in Tasks |->
                          IF t \in busy \ last THEN retried[t] + 1 ELSE retried[t]]
           /\ step' = [t \in Tasks |-> IF t \in busy THEN "none" ELSE step[t]]
           /\ answer' = [t \in Tasks |-> IF t \in busy THEN "none" ELSE answer[t]]
           /\ cut' = [t \in Tasks |-> IF t \in busy THEN cut[t] + 1 ELSE cut[t]]
    /\ UNCHANGED <<wire, processed, refused, final>>

\* The process is killed (or main exits before the embedded worker is done):
\* its tasks stay active, and are nobody's.
Crash ==
    /\ up
    /\ up' = FALSE
    /\ LET busy == {t \in Tasks : Running(t)}
       IN  /\ step' = [t \in Tasks |-> IF t \in busy THEN "orphaned" ELSE step[t]]
           /\ answer' = [t \in Tasks |-> IF t \in busy THEN "none" ELSE answer[t]]
           /\ cut' = [t \in Tasks |-> IF t \in busy THEN cut[t] + 1 ELSE cut[t]]
    /\ UNCHANGED <<state, retried, wire, processed, refused, final>>

\* The lease of an orphaned task has expired.
Recover(t) ==
    /\ up
    /\ state[t] = "active"
    /\ step[t] = "orphaned"
    /\ End(t, "lease expired")
    /\ UNCHANGED <<up, wire, history>>

-----------------------------------------------------------------------------
(* The handlers. *)

\* HandleAcceptFollow writes SkipRetry into the text of the errors it means not
\* to be retried: what it cannot make or send, and a status below 500; ...
AcceptCallsFinal == {"unmade", "unsent", "2xx", "4xx"}

\* ... HandleRejectFollow into the same, for a status of 500 and above.
RejectCallsFinal == {"unmade", "unsent", "5xx"}

\* Mutant of AcceptFollowError: SkipRetry itself, and the comparison of the
\* reject handler.
AcceptFollowErrorReversed(cause) ==
    IF cause \in RejectCallsFinal THEN "SkipRetry" ELSE cause

\* The text is no error (errors.Wrap, "%s"): errors.Is does not find SkipRetry
\* in what HandleAcceptFollow returns, ...
AcceptFollowError(cause) == cause

\* ... nor in what HandleRejectFollow does.
RejectFollowError(cause) == cause

\* Mutant of SendTweetError: what PostInbox returns is retried.
SendTweetErrorRetried(cause) ==
    IF cause \in {"rate limited", "2xx", "5xx"} THEN cause ELSE "SkipRetry"

\* HandleSendTweet returns a TaskError that skips the retry of everything but
\* a rate limit; ErrorHandler turns it into SkipRetry itself.
SendTweetError(cause) ==
    IF cause = "rate limited" THEN cause ELSE "SkipRetry"

HandlerError(t, cause) ==
    IF t \in Accepts THEN AcceptFollowError(cause)
    ELSE IF t \in Rejects THEN RejectFollowError(cause)
    ELSE SendTweetError(cause)

CallsFinal(t, cause) ==
    \/ t \in Accepts /\ cause \in AcceptCallsFinal
    \/ t \in Rejects /\ cause \in RejectCallsFinal

\* A handler returns an error.
Fail(t, cause) ==
    /\ End(t, HandlerError(t, cause))
    /\ final' = IF state'[t] = "archived" /\ CallsFinal(t, cause)
                THEN final \cup {t} ELSE final

\* SaveTweetAndReferences.
SaveTweet(t) ==
    /\ At(t, "save")
    /\ \/ /\ Goto(t, "lookup")
          /\ UNCHANGED <<state, retried, answer, final>>
       \/ \E cause \in {"rate limited", "failed"} : Fail(t, cause)
    /\ UNCHANGED <<up, wire, processed, refused, cut>>

\* The user, then the actor are read and the activity is made, or not.
Lookup(t) ==
    /\ At(t, "lookup")
    /\ \/ /\ Goto(t, "post")
          /\ UNCHANGED <<state, retried, answer, final>>
       \/ \E cause \in {"failed", "unmade"} : Fail(t, cause)
    /\ UNCHANGED <<up, wire, processed, refused, cut>>

\* PostInbox sends a request, ...
PostInbox(t) ==
    /\ At(t, "post")
    /\ wire' = wire \cup {<<t, retried[t]>>}
    /\ Goto(t, "wait")
    /\ UNCHANGED <<up, state, retried, answer, history>>

\* ... fails when it cannot be sent or when no answer comes back, ...
PostFails(t) ==
    /\ step[t] \in {"post", "wait"}
    /\ Running(t)
    /\ Fail(t, "unsent")
    /\ UNCHANGED <<up, wire, processed, refused, cut>>

\* Mutant of PostAnswered: the status is not looked at.
PostAnsweredUnchecked(t) ==
    /\ At(t, "answered")
    /\ End(t, "none")
    /\ refused' = IF answer[t] = "4xx" THEN refused \cup {t} ELSE refused
    /\ UNCHANGED <<up, wire, processed, final, cut>>

\* ... and takes 202, and no other status, for a success.
PostAnswered(t) ==
    /\ At(t, "answered")
    /\ IF answer[t] = "202"
       THEN End(t, "none") /\ UNCHANGED final
       ELSE Fail(t, answer[t])
    /\ refused' = IF answer[t] = "4xx" THEN refused \cup {t} ELSE refused
    /\ UNCHANGED <<up, wire, processed, cut>>

-----------------------------------------------------------------------------
(* The remote server. *)

\* How often a server that answers so has processed the activity: a 5xx may
\* come before or after.
Copies(status) ==
    IF status \in {"202", "2xx"} THEN {1}
    ELSE IF status = "4xx" THEN {0} ELSE {0, 1}

\* It receives a post and answers; the answer finds the attempt that made the
\* post, or nobody.
Receive(m) ==
    /\ m \in wire
    /\ wire' = wire \ {m}
    /\ LET t == m[1]
           waiting == At(t, "wait") /\ retried[t] = m[2]
       IN  \E status \in Answers \ {"none"} :
            /\ \E copies \in Copies(status) :
                processed' = [processed EXCEPT ![t] = @ + copies]
            /\ IF waiting
               THEN /\ Goto(t, "answered")
                    /\ answer' = [answer EXCEPT ![t] = status]
               ELSE UNCHANGED <<step, answer>>
    /\ UNCHANGED <<up, state, retried, refused, final, cut>>

\* A post is lost.
Lose(m) ==
    /\ m \in wire
    /\ wire' = wire \ {m}
    /\ UNCHANGED <<up, state, retried, step, answer, history>>

-----------------------------------------------------------------------------
Handle(t) ==
    SaveTweet(t) \/ Lookup(t) \/ PostInbox(t) \/ PostFails(t) \/ PostAnswered(t)

Next ==
    \/ StartBroker \/ Shutdown \/ Crash
    \/ \E t \in Tasks :
        Enqueue(t) \/ Dequeue(t) \/ Forward(t) \/ Expire(t) \/ Recover(t) \/ Handle(t)
    \/ \E m \in wire : Receive(m) \/ Lose(m)

Spec == Init /\ [][Next]_vars

\* A stopped process is started again, and asynq serves its queue whenever a
\* process is up for long enough.  Handlers and remote servers owe nothing:
\* the timeout of a task ends an attempt that hangs.
Fairness ==
    /\ WF_vars(StartBroker)
    /\ \A t \in Tasks :
        /\ SF_vars(Dequeue(t))
        /\ SF_vars(Forward(t))
        /\ SF_vars(Recover(t))
        /\ WF_vars(Expire(t))

FairSpec == Spec /\ Fairness

-----------------------------------------------------------------------------
(* Properties. *)

TypeOK ==
    /\ up \in BOOLEAN
    /\ state \in [Tasks -> TaskStates]
    /\ retried \in [Tasks -> 0..MaxRetry]
    /\ step \in [Tasks -> Steps]
    /\ answer \in [Tasks -> Answers]
    /\ wire \subseteq Attempts
    /\ processed \in [Tasks -> Nat]
    /\ refused \subseteq Tasks
    /\ final \subseteq Tasks
    /\ cut \in [Tasks -> Nat]

\* A remote server that answers processes a tweet once: a second copy needs an
\* attempt that was cut off by its timeout, a shutdown or a crash.  Neither
\* statuses other than 202 nor rate limits make one.
TweetRepeatsOnlyIfCut ==
    \A t \in Notes : processed[t] <= 1 + cut[t]

\* The answer to a follow is given up before MaxRetry retries only over a failure
\* that its handler calls final, as a refusal: timeouts, shutdowns, crashes, a
\* store that cannot be read and a remote server in trouble (5xx, to an accept)
\* use every retry, in whatever order they come.
FollowAnswersUseEveryRetry ==
    \A t \in (Accepts \cup Rejects) \ final :
        state[t] = "archived" => retried[t] = MaxRetry

\* Every task that is enqueued ends, completed or archived, whatever remote
\* servers do and however often the process dies or is stopped.
EveryTaskEnds ==
    \A t \in Tasks :
        state[t] # "absent" ~> state[t] \in {"completed", "archived"}

\* The tasks as the rest of the instance sees them: the tries begun are the
\* retries counted, and one more from the moment a handler has the task.
delivery ==
    [t \in Tasks |->
        [state |-> CASE state[t] \in {"pending", "retry"} -> "waiting"
                     [] state[t] = "active" -> "trying"
                     [] state[t] = "completed" -> "delivered"
                     [] state[t] = "archived" -> "abandoned"
                     [] OTHER -> "absent",
         tries |-> IF state[t] \in {"active", "completed", "archived"}
                   THEN retried[t] + 1 ELSE retried[t],
         copies |-> processed[t]]]

Promised == INSTANCE Delivery WITH task <- delivery

\* The worker implements Delivery: whatever is cut off, killed, lost or late, a
\* task is tried MaxRetry + 1 times at most, each try reaches the remote server
\* once at most, and no task is completed whose activity nobody processed.
DeliversAsPromised == Promised!Spec

\* accept_follow_test.go line 133 expects of a follow answered 401 "post to
\* inbox was not accepted: skip retry for the task": a refused accept is not
\* sent again.
RefusalIsFinal ==
    \A t \in Accepts : t \in refused => state[t] # "retry"
=============================================================================
