---------------------------- MODULE WorkerProofs ----------------------------
(***************************************************************************)
(* Proofs about Worker, for any sets of tasks, any MaxRetry and any        *)
(* concurrency.                                                            *)
(*                                                                         *)
(* A tweet is processed once per post that arrives, so what is bounded is  *)
(* the sum of what was processed, what is still on the wire and what an    *)
(* attempt may still post.                                                 *)
(***************************************************************************)
EXTENDS Worker, FiniteSetTheorems, TLAPS

\* The posts of a task that are on their way.
OnWire(t) == {m \in wire : m[1] = t}

\* Why a handler may fail.
Causes == {"rate limited", "failed", "unmade", "unsent"} \cup Answers

\* One more post may come: the task waits for an attempt, or has one that has
\* not posted yet, or lost its attempt to a crash, which was counted.
Coming(t) ==
    IF \/ state[t] \in {"absent", "pending", "retry"}
       \/ state[t] = "active" /\ step[t] \in {"save", "lookup", "post", "orphaned"}
    THEN 1 ELSE 0

-----------------------------------------------------------------------------
(* Types. *)

\* What the end of an attempt does to the fields of its task.
LEMMA EndType ==
    ASSUME TypeOK, NEW t \in Tasks, NEW error, End(t, error)
    PROVE  /\ state' \in [Tasks -> TaskStates]
           /\ retried' \in [Tasks -> 0..MaxRetry]
           /\ step' \in [Tasks -> Steps]
           /\ answer' \in [Tasks -> Answers]
<1>1. /\ step' = [step EXCEPT ![t] = "none"]
      /\ answer' = [answer EXCEPT ![t] = "none"]
      /\ step \in [Tasks -> Steps] /\ answer \in [Tasks -> Answers]
      /\ state \in [Tasks -> TaskStates] /\ retried \in [Tasks -> 0..MaxRetry]
  BY DEF End, TypeOK
<1>2. step' \in [Tasks -> Steps] /\ answer' \in [Tasks -> Answers]
  BY <1>1 DEF Steps, Answers
<1>3. CASE error = "none"
  BY <1>1, <1>2, <1>3 DEF End, TaskStates
<1>4. CASE error # "none" /\ (error = "SkipRetry" \/ retried[t] >= MaxRetry)
  BY <1>1, <1>2, <1>4 DEF End, TaskStates
<1>5. CASE error # "none" /\ ~(error = "SkipRetry" \/ retried[t] >= MaxRetry)
  <2>1. retried[t] + 1 \in 0..MaxRetry
    BY <1>1, <1>5, MaxRetryAssumption
  <2>2. /\ state' = [state EXCEPT ![t] = "retry"]
        /\ retried' = [retried EXCEPT ![t] = @ + 1]
    BY <1>5 DEF End
  <2>. QED
    BY <1>1, <1>2, <2>1, <2>2 DEF TaskStates
<1>. QED
  BY <1>3, <1>4, <1>5

LEMMA FailType ==
    ASSUME TypeOK, NEW t \in Tasks, NEW cause, Fail(t, cause)
    PROVE  /\ state' \in [Tasks -> TaskStates]
           /\ retried' \in [Tasks -> 0..MaxRetry]
           /\ step' \in [Tasks -> Steps]
           /\ answer' \in [Tasks -> Answers]
           /\ final' \subseteq Tasks
<1>1. End(t, HandlerError(t, cause))
  BY DEF Fail
<1>2. final' \subseteq Tasks
  BY DEF Fail, TypeOK
<1>. QED
  BY <1>1, <1>2, EndType

\* Only a task other than t keeps its fields; the new state of t says why.
LEMMA EndFrame ==
    ASSUME TypeOK, NEW t \in Tasks, NEW error, End(t, error)
    PROVE  /\ \A s \in Tasks \ {t} : /\ state'[s] = state[s]
                                     /\ retried'[s] = retried[s]
                                     /\ step'[s] = step[s]
           /\ state'[t] = "archived" =>
                /\ retried'[t] = retried[t]
                /\ error = "SkipRetry" \/ retried[t] >= MaxRetry
           /\ state'[t] \in {"completed", "archived", "retry"}
           /\ error = "SkipRetry" => state'[t] = "archived"
           /\ error = "none" => state'[t] = "completed"
<1>1. /\ step' = [step EXCEPT ![t] = "none"]
      /\ step \in [Tasks -> Steps]
      /\ state \in [Tasks -> TaskStates] /\ retried \in [Tasks -> 0..MaxRetry]
  BY DEF End, TypeOK
<1>3. CASE error = "none"
  BY <1>1, <1>3 DEF End
<1>4. CASE error # "none" /\ (error = "SkipRetry" \/ retried[t] >= MaxRetry)
  BY <1>1, <1>4 DEF End
<1>5. CASE error # "none" /\ ~(error = "SkipRetry" \/ retried[t] >= MaxRetry)
  BY <1>1, <1>5 DEF End
<1>. QED
  BY <1>3, <1>4, <1>5

LEMMA TypeInit == Init => TypeOK
<1>. SUFFICES ASSUME Init PROVE TypeOK
  OBVIOUS
<1>1. retried \in [Tasks -> 0..MaxRetry]
  BY MaxRetryAssumption DEF Init
<1>2. /\ state \in [Tasks -> TaskStates]
      /\ step \in [Tasks -> Steps]
      /\ answer \in [Tasks -> Answers]
  BY DEF Init, TaskStates, Steps, Answers
<1>3. processed \in [Tasks -> Nat] /\ cut \in [Tasks -> Nat]
  BY DEF Init
<1>. QED
  BY <1>1, <1>2, <1>3 DEF Init, TypeOK

\* Stopping the process changes every running task at once.
LEMMA StopType ==
    ASSUME TypeOK, Shutdown \/ Crash
    PROVE  TypeOK'
<1>. USE DEF TypeOK
<1>1. CASE Shutdown
  <2>. DEFINE busy == {t \in Tasks : Running(t)}
              last == {t \in busy : retried[t] >= MaxRetry}
  <2>1. state' \in [Tasks -> TaskStates]
    BY <1>1 DEF Shutdown, TaskStates
  <2>2. \A t \in busy \ last : retried[t] + 1 \in 0..MaxRetry
    BY MaxRetryAssumption
  <2>3. retried' \in [Tasks -> 0..MaxRetry]
    BY <1>1, <2>2 DEF Shutdown
  <2>4. step' \in [Tasks -> Steps] /\ answer' \in [Tasks -> Answers]
    BY <1>1 DEF Shutdown, Steps, Answers
  <2>5. cut' \in [Tasks -> Nat]
    BY <1>1 DEF Shutdown
  <2>. QED
    BY <1>1, <2>1, <2>3, <2>4, <2>5 DEF Shutdown
<1>2. CASE Crash
  <2>1. step' \in [Tasks -> Steps] /\ answer' \in [Tasks -> Answers]
    BY <1>2 DEF Crash, Steps, Answers
  <2>2. cut' \in [Tasks -> Nat]
    BY <1>2 DEF Crash
  <2>. QED
    BY <1>2, <2>1, <2>2 DEF Crash
<1>. QED
  BY <1>1, <1>2

\* A post that arrives is processed at most once.
LEMMA Arrives ==
    ASSUME NEW m, Receive(m)
    PROVE  \E d \in {0, 1} : processed' = [processed EXCEPT ![m[1]] = @ + d]
BY DEF Receive, Copies

LEMMA TypeStep == TypeOK /\ [Next]_vars => TypeOK'
<1>. SUFFICES ASSUME TypeOK, [Next]_vars PROVE TypeOK'
  OBVIOUS
<1>1. CASE StartBroker
  BY <1>1 DEF StartBroker, history, TypeOK
<1>2. CASE Shutdown \/ Crash
  BY <1>2, StopType
<1>3. ASSUME NEW t \in Tasks,
             Enqueue(t) \/ Dequeue(t) \/ Forward(t) \/ Expire(t) \/ Recover(t)
      PROVE  TypeOK'
  <2>1. CASE Enqueue(t)
    BY <2>1 DEF Enqueue, history, TypeOK, TaskStates
  <2>2. CASE Dequeue(t)
    <3>1. state' \in [Tasks -> TaskStates] /\ step' \in [Tasks -> Steps]
      BY <2>2 DEF Dequeue, Goto, TypeOK, TaskStates, Steps
    <3>. QED
      BY <2>2, <3>1 DEF Dequeue, history, TypeOK
  <2>3. CASE Forward(t)
    BY <2>3 DEF Forward, history, TypeOK, TaskStates
  <2>4. CASE Expire(t)
    <3>1. End(t, "timeout")
      BY <2>4 DEF Expire
    <3>2. cut' \in [Tasks -> Nat]
      BY <2>4 DEF Expire, TypeOK
    <3>. QED
      BY <2>4, <3>1, <3>2, EndType DEF Expire, TypeOK
  <2>5. CASE Recover(t)
    <3>1. End(t, "lease expired")
      BY <2>5 DEF Recover
    <3>. QED
      BY <2>5, <3>1, EndType DEF Recover, history, TypeOK
  <2>. QED
    BY <1>3, <2>1, <2>2, <2>3, <2>4, <2>5
<1>4. ASSUME NEW t \in Tasks, Handle(t)
      PROVE  TypeOK'
  <2>1. CASE SaveTweet(t)
    <3>1. CASE Goto(t, "lookup") /\ UNCHANGED <<state, retried, answer, final>>
      BY <2>1, <3>1 DEF SaveTweet, Goto, TypeOK, Steps
    <3>2. CASE \E cause \in {"rate limited", "failed"} : Fail(t, cause)
      BY <2>1, <3>2, FailType DEF SaveTweet, TypeOK
    <3>. QED
      BY <2>1, <3>1, <3>2 DEF SaveTweet
  <2>2. CASE Lookup(t)
    <3>1. CASE Goto(t, "post") /\ UNCHANGED <<state, retried, answer, final>>
      BY <2>2, <3>1 DEF Lookup, Goto, TypeOK, Steps
    <3>2. CASE \E cause \in {"failed", "unmade"} : Fail(t, cause)
      BY <2>2, <3>2, FailType DEF Lookup, TypeOK
    <3>. QED
      BY <2>2, <3>1, <3>2 DEF Lookup
  <2>3. CASE PostInbox(t)
    <3>1. <<t, retried[t]>> \in Attempts
      BY DEF TypeOK, Attempts
    <3>2. wire' \subseteq Attempts
      BY <2>3, <3>1 DEF PostInbox, TypeOK
    <3>3. step' \in [Tasks -> Steps]
      BY <2>3 DEF PostInbox, Goto, TypeOK, Steps
    <3>. QED
      BY <2>3, <3>2, <3>3 DEF PostInbox, history, TypeOK
  <2>4. CASE PostFails(t)
    BY <2>4, FailType DEF PostFails, TypeOK
  <2>5. CASE PostAnswered(t)
    <3>1. refused' \subseteq Tasks
      BY <2>5 DEF PostAnswered, TypeOK
    <3>2. CASE End(t, "none") /\ UNCHANGED final
      BY <2>5, <3>1, <3>2, EndType DEF PostAnswered, TypeOK
    <3>3. CASE Fail(t, answer[t])
      BY <2>5, <3>1, <3>3, FailType DEF PostAnswered, TypeOK
    <3>. QED
      BY <2>5, <3>2, <3>3 DEF PostAnswered
  <2>. QED
    BY <1>4, <2>1, <2>2, <2>3, <2>4, <2>5 DEF Handle
<1>5. ASSUME NEW m \in wire, Receive(m)
      PROVE  TypeOK'
  <2>1. processed' \in [Tasks -> Nat]
    BY <1>5, Arrives DEF TypeOK
  <2>2. step' \in [Tasks -> Steps] /\ answer' \in [Tasks -> Answers]
    BY <1>5 DEF Receive, Goto, TypeOK, Steps
  <2>. QED
    BY <1>5, <2>1, <2>2 DEF Receive, TypeOK
<1>6. ASSUME NEW m \in wire, Lose(m)
      PROVE  TypeOK'
  BY <1>6 DEF Lose, history, TypeOK
<1>7. CASE UNCHANGED vars
  BY <1>7 DEF vars, TypeOK
<1>. QED
  BY <1>1, <1>2, <1>3, <1>4, <1>5, <1>6, <1>7 DEF Next

\* Every variable keeps its type: in particular no task is ever retried more
\* than MaxRetry times.
THEOREM TypeCorrect == Spec => []TypeOK
BY TypeInit, TypeStep, PTL DEF Spec
-----------------------------------------------------------------------------
(* The answers to follows. *)

\* A handler of a follow task never returns SkipRetry itself.
LEMMA FollowErrors ==
    ASSUME NEW t \in Accepts \cup Rejects, NEW cause \in Causes
    PROVE  HandlerError(t, cause) # "SkipRetry"
BY TypesAssumption
DEF HandlerError, AcceptFollowError, RejectFollowError, Answers, Causes

\* The end of an attempt that was not told to skip the retry archives its
\* task at MaxRetry only.
LEMMA EndKeeps ==
    ASSUME TypeOK, FollowAnswersUseEveryRetry, NEW t \in Tasks, NEW error,
           End(t, error), t \in Accepts \cup Rejects => error # "SkipRetry",
           final \subseteq final'
    PROVE  FollowAnswersUseEveryRetry'
<1>. SUFFICES ASSUME NEW s \in (Accepts \cup Rejects) \ final', state'[s] = "archived"
              PROVE  retried'[s] = MaxRetry
  BY DEF FollowAnswersUseEveryRetry
<1>1. s \in Tasks
  BY DEF Tasks
<1>2. CASE s = t
  <2>1. retried'[t] = retried[t] /\ retried[t] >= MaxRetry
    BY <1>2, EndFrame
  <2>. QED
    BY <1>2, <2>1, MaxRetryAssumption DEF TypeOK
<1>3. CASE s # t
  BY <1>1, <1>3, EndFrame DEF FollowAnswersUseEveryRetry
<1>. QED
  BY <1>2, <1>3

\* So does a failed attempt, whatever its cause.
LEMMA FailKeeps ==
    ASSUME TypeOK, FollowAnswersUseEveryRetry, NEW t \in Tasks,
           NEW cause \in Causes, Fail(t, cause)
    PROVE  FollowAnswersUseEveryRetry'
<1>1. End(t, HandlerError(t, cause)) /\ final \subseteq final'
  BY DEF Fail
<1>2. t \in Accepts \cup Rejects => HandlerError(t, cause) # "SkipRetry"
  BY FollowErrors
<1>. QED
  BY <1>1, <1>2, EndKeeps

\* What a step that ends no attempt has to keep.
LEMMA QuietKeeps ==
    ASSUME FollowAnswersUseEveryRetry, retried' = retried, final' = final,
           \A s \in Tasks : state'[s] = "archived" => state[s] = "archived"
    PROVE  FollowAnswersUseEveryRetry'
BY DEF FollowAnswersUseEveryRetry, Tasks

LEMMA FollowStep ==
    TypeOK /\ FollowAnswersUseEveryRetry /\ [Next]_vars
        => FollowAnswersUseEveryRetry'
<1>. SUFFICES ASSUME TypeOK, FollowAnswersUseEveryRetry, [Next]_vars
              PROVE  FollowAnswersUseEveryRetry'
  OBVIOUS
<1>. USE DEF history
<1>1. CASE StartBroker \/ Crash
  BY <1>1, QuietKeeps DEF StartBroker, Crash
<1>2. CASE Shutdown
  <2>. DEFINE busy == {t \in Tasks : Running(t)}
              last == {t \in busy : retried[t] >= MaxRetry}
  <2>. SUFFICES ASSUME NEW s \in (Accepts \cup Rejects) \ final', state'[s] = "archived"
                PROVE  retried'[s] = MaxRetry
    BY DEF FollowAnswersUseEveryRetry
  <2>1. s \in Tasks
    BY DEF Tasks
  <2>2. CASE s \in last
    BY <1>2, <2>1, <2>2, MaxRetryAssumption DEF Shutdown, TypeOK
  <2>3. CASE s \in busy \ last
    BY <1>2, <2>1, <2>3 DEF Shutdown
  <2>4. CASE s \notin busy
    BY <1>2, <2>1, <2>4 DEF Shutdown, FollowAnswersUseEveryRetry
  <2>. QED
    BY <2>2, <2>3, <2>4
<1>3. ASSUME NEW t \in Tasks, Enqueue(t) \/ Dequeue(t) \/ Forward(t)
      PROVE  FollowAnswersUseEveryRetry'
  BY <1>3, QuietKeeps DEF Enqueue, Dequeue, Forward, TypeOK
<1>4. ASSUME NEW t \in Tasks, Expire(t) \/ Recover(t)
      PROVE  FollowAnswersUseEveryRetry'
  BY <1>4, EndKeeps DEF Expire, Recover
<1>5. ASSUME NEW t \in Tasks, Handle(t)
      PROVE  FollowAnswersUseEveryRetry'
  <2>1. CASE SaveTweet(t) \/ Lookup(t) \/ PostFails(t)
    <3>1. CASE UNCHANGED <<state, retried, final>>
      BY <3>1, QuietKeeps
    <3>2. CASE \E cause \in Causes : Fail(t, cause)
      BY <3>2, FailKeeps
    <3>. QED
      BY <2>1, <3>1, <3>2 DEF SaveTweet, Lookup, PostFails, Causes
  <2>2. CASE PostInbox(t)
    BY <2>2, QuietKeeps DEF PostInbox
  <2>3. CASE PostAnswered(t)
    <3>1. CASE End(t, "none") /\ UNCHANGED final
      BY <3>1, EndKeeps
    <3>2. CASE answer[t] # "202" /\ Fail(t, answer[t])
      <4>1. answer[t] \in Causes
        BY <2>3, <3>2 DEF PostAnswered, TypeOK, Causes
      <4>. QED
        BY <3>2, <4>1, FailKeeps
    <3>. QED
      BY <2>3, <3>1, <3>2 DEF PostAnswered
  <2>. QED
    BY <1>5, <2>1, <2>2, <2>3 DEF Handle
<1>6. ASSUME NEW m \in wire, Receive(m) \/ Lose(m)
      PROVE  FollowAnswersUseEveryRetry'
  BY <1>6, QuietKeeps DEF Receive, Lose
<1>7. CASE UNCHANGED vars
  BY <1>7, QuietKeeps DEF vars
<1>. QED
  BY <1>1, <1>2, <1>3, <1>4, <1>5, <1>6, <1>7 DEF Next

\* No answer to a follow is given up before its last retry.
THEOREM FollowsAreRetried == Spec => []FollowAnswersUseEveryRetry
<1>1. Init => FollowAnswersUseEveryRetry
  BY DEF Init, FollowAnswersUseEveryRetry, Tasks
<1>. QED
  BY <1>1, FollowStep, TypeCorrect, PTL DEF Spec

-----------------------------------------------------------------------------
(* Copies of a tweet. *)

Bounded(t) ==
    processed[t] + Cardinality(OnWire(t)) + Coming(t) <= 1 + cut[t]

\* The posts of a task can be counted, and every term of the sum is a number.
LEMMA Countable ==
    ASSUME TypeOK, IsFiniteSet(wire), NEW t \in Tasks
    PROVE  /\ IsFiniteSet(OnWire(t))
           /\ Cardinality(OnWire(t)) \in Nat
           /\ Coming(t) \in {0, 1}
           /\ processed[t] \in Nat
           /\ cut[t] \in Nat
<1>1. OnWire(t) \in SUBSET wire
  BY DEF OnWire
<1>2. IsFiniteSet(OnWire(t))
  BY <1>1, FS_Subset
<1>. QED
  BY <1>2, FS_CardinalityType DEF Coming, TypeOK

\* A step that leaves the wire and the history of a task alone may only make a
\* coming post less likely.
LEMMA Quiet ==
    ASSUME TypeOK, IsFiniteSet(wire), NEW t \in Tasks, Bounded(t),
           wire' = wire, processed'[t] = processed[t],
           \/ cut'[t] = cut[t] /\ Coming(t)' <= Coming(t)
           \/ cut'[t] = cut[t] + 1
    PROVE  Bounded(t)'
<1>1. OnWire(t)' = OnWire(t)
  BY DEF OnWire
<1>2. Coming(t)' \in {0, 1}
  BY DEF Coming
<1>. QED
  BY <1>1, <1>2, Countable DEF Bounded

\* An attempt at a tweet ends: a retry is asked for only where a post was still
\* to come.
LEMMA EndQuiet ==
    ASSUME TypeOK, NEW t \in Tasks, NEW s \in Tasks, NEW error, End(s, error),
           s = t => error \in {"none", "SkipRetry"} \/ Coming(t) = 1
    PROVE  Coming(t)' <= Coming(t)
<1>1. CASE s # t
  <2>1. state'[t] = state[t] /\ step'[t] = step[t]
    BY <1>1, EndFrame
  <2>. QED
    BY <2>1 DEF Coming
<1>2. CASE s = t /\ error \in {"none", "SkipRetry"}
  <2>1. state'[t] \in {"completed", "archived"}
    BY <1>2, EndFrame
  <2>. QED
    BY <2>1 DEF Coming
<1>3. CASE s = t /\ Coming(t) = 1
  BY <1>3 DEF Coming
<1>. QED
  BY <1>1, <1>2, <1>3

LEMMA WireFinite ==
    IsFiniteSet(wire) /\ [Next]_vars => IsFiniteSet(wire')
<1>. SUFFICES ASSUME IsFiniteSet(wire), [Next]_vars PROVE IsFiniteSet(wire')
  OBVIOUS
<1>1. CASE wire' = wire
  BY <1>1
<1>2. ASSUME NEW t \in Tasks, PostInbox(t)
      PROVE  IsFiniteSet(wire')
  BY <1>2, FS_AddElement DEF PostInbox
<1>3. ASSUME NEW m \in wire, Receive(m) \/ Lose(m)
      PROVE  IsFiniteSet(wire')
  BY <1>3, FS_RemoveElement DEF Receive, Lose
<1>. QED
  BY <1>1, <1>2, <1>3
  DEF Next, vars, StartBroker, Shutdown, Crash, Enqueue, Dequeue, Forward,
      Expire, Recover, Handle, SaveTweet, Lookup, PostFails, PostAnswered

LEMMA CopiesStep ==
    ASSUME TypeOK, IsFiniteSet(wire), [Next]_vars,
           NEW t \in Notes, Bounded(t)
    PROVE  Bounded(t)'
<1>. USE DEF history
<1>0. /\ t \in Tasks
      /\ t \notin Accepts /\ t \notin Rejects
      /\ \A cause : HandlerError(t, cause) = SendTweetError(cause)
  BY TypesAssumption DEF Tasks, HandlerError
<1>1. CASE StartBroker
  BY <1>0, <1>1, Quiet DEF StartBroker, Coming
<1>2. CASE Shutdown
  <2>1. \/ cut'[t] = cut[t] /\ Coming(t)' <= Coming(t)
        \/ cut'[t] = cut[t] + 1
    BY <1>0, <1>2 DEF Shutdown, Coming, TypeOK
  <2>. QED
    BY <1>0, <1>2, <2>1, Quiet DEF Shutdown
<1>3. CASE Crash
  <2>1. \/ cut'[t] = cut[t] /\ Coming(t)' <= Coming(t)
        \/ cut'[t] = cut[t] + 1
    BY <1>0, <1>3 DEF Crash, Coming, TypeOK
  <2>. QED
    BY <1>0, <1>3, <2>1, Quiet DEF Crash
<1>4. ASSUME NEW s \in Tasks, Enqueue(s) \/ Dequeue(s) \/ Forward(s)
      PROVE  Bounded(t)'
  <2>1. Coming(t)' <= Coming(t)
    BY <1>0, <1>4 DEF Enqueue, Dequeue, Forward, Goto, Coming, TypeOK
  <2>. QED
    BY <1>0, <1>4, <2>1, Quiet DEF Enqueue, Dequeue, Forward
<1>5. ASSUME NEW s \in Tasks, Expire(s)
      PROVE  Bounded(t)'
  <2>1. CASE s = t
    BY <1>0, <1>5, <2>1, Quiet DEF Expire, TypeOK
  <2>2. CASE s # t
    <3>1. Coming(t)' <= Coming(t)
      BY <1>0, <1>5, <2>2, EndQuiet DEF Expire
    <3>. QED
      BY <1>0, <1>5, <2>2, <3>1, Quiet DEF Expire, TypeOK
  <2>. QED
    BY <2>1, <2>2
<1>6. ASSUME NEW s \in Tasks, Recover(s)
      PROVE  Bounded(t)'
  <2>1. Coming(s) = 1
    BY <1>6 DEF Recover, Coming
  <2>2. Coming(t)' <= Coming(t)
    BY <1>0, <1>6, <2>1, EndQuiet DEF Recover
  <2>. QED
    BY <1>0, <1>6, <2>2, Quiet DEF Recover
<1>7. ASSUME NEW s \in Tasks, SaveTweet(s) \/ Lookup(s)
      PROVE  Bounded(t)'
  <2>1. Coming(s) = 1
    BY <1>7 DEF SaveTweet, Lookup, At, Running, Coming
  <2>2. CASE \E error : End(s, error)
    <3>1. Coming(t)' <= Coming(t)
      BY <1>0, <2>1, <2>2, EndQuiet
    <3>. QED
      BY <1>0, <1>7, <3>1, Quiet DEF SaveTweet, Lookup
  <2>3. CASE state' = state /\ (Goto(s, "lookup") \/ Goto(s, "post"))
    <3>1. Coming(t)' <= Coming(t)
      BY <1>0, <2>1, <2>3 DEF Goto, Coming, TypeOK
    <3>. QED
      BY <1>0, <1>7, <3>1, Quiet DEF SaveTweet, Lookup
  <2>. QED
    BY <1>7, <2>2, <2>3 DEF SaveTweet, Lookup, Fail
<1>8. ASSUME NEW s \in Tasks, PostInbox(s)
      PROVE  Bounded(t)'
  <2>1. CASE s = t
    <3>1. Coming(t) = 1
      BY <1>8, <2>1 DEF PostInbox, At, Running, Coming
    <3>2. Coming(t)' = 0
      BY <1>0, <1>8, <2>1 DEF PostInbox, At, Running, Goto, Coming, TypeOK
    <3>3. OnWire(t)' = OnWire(t) \cup {<<t, retried[t]>>}
      BY <1>8, <2>1 DEF PostInbox, OnWire
    <3>4. /\ IsFiniteSet(OnWire(t))
          /\ Cardinality(OnWire(t)) \in Nat
      BY <1>0, Countable
    <3>5. \/ Cardinality(OnWire(t)') = Cardinality(OnWire(t)) + 1
          \/ Cardinality(OnWire(t)') = Cardinality(OnWire(t))
      BY <3>3, <3>4, FS_AddElement
    <3>. QED
      BY <1>0, <1>8, <3>1, <3>2, <3>4, <3>5, Countable DEF PostInbox, Bounded
  <2>2. CASE s # t
    <3>1. OnWire(t)' = OnWire(t)
      BY <1>8, <2>2 DEF PostInbox, OnWire
    <3>2. Coming(t)' = Coming(t)
      BY <1>0, <1>8, <2>2 DEF PostInbox, Goto, Coming, TypeOK
    <3>. QED
      BY <1>8, <3>1, <3>2 DEF PostInbox, Bounded
  <2>. QED
    BY <2>1, <2>2
<1>9. ASSUME NEW s \in Tasks, PostFails(s) \/ PostAnswered(s)
      PROVE  Bounded(t)'
  <2>1. PICK error : /\ End(s, error)
                     /\ s = t => error \in {"none", "SkipRetry"}
    <3>1. \A cause \in {"unsent"} \cup Answers : SendTweetError(cause) = "SkipRetry"
      BY DEF SendTweetError, Answers
    <3>2. answer[s] \in Answers
      BY DEF TypeOK
    <3>. QED
      BY <1>0, <1>9, <3>1, <3>2 DEF PostFails, PostAnswered, Fail
  <2>2. Coming(t)' <= Coming(t)
    BY <1>0, <2>1, EndQuiet
  <2>. QED
    BY <1>0, <1>9, <2>2, Quiet DEF PostFails, PostAnswered
<1>10. ASSUME NEW m \in wire, Receive(m) \/ Lose(m)
       PROVE  Bounded(t)'
  <2>1. wire' = wire \ {m} /\ cut' = cut
    BY <1>10 DEF Receive, Lose
  <2>2. Coming(t)' = Coming(t)
    BY <1>0, <1>10 DEF Receive, Lose, At, Running, Goto, Coming, TypeOK
  <2>3. CASE m[1] = t
    <3>1. OnWire(t)' = OnWire(t) \ {m} /\ m \in OnWire(t)
      BY <2>1, <2>3 DEF OnWire
    <3>2. Cardinality(OnWire(t)') = Cardinality(OnWire(t)) - 1
      BY <1>0, <3>1, Countable, FS_RemoveElement
    <3>3. processed'[t] \in {processed[t], processed[t] + 1}
      BY <1>0, <1>10, <2>3, Arrives DEF Lose, TypeOK
    <3>. QED
      BY <1>0, <2>1, <2>2, <3>2, <3>3, Countable DEF Bounded
  <2>4. CASE m[1] # t
    <3>1. OnWire(t)' = OnWire(t)
      BY <2>1, <2>4 DEF OnWire
    <3>2. processed'[t] = processed[t]
      BY <1>0, <1>10, <2>4, Arrives DEF Lose, TypeOK
    <3>. QED
      BY <2>1, <2>2, <3>1, <3>2 DEF Bounded
  <2>. QED
    BY <2>3, <2>4
<1>11. CASE UNCHANGED vars
  BY <1>0, <1>11, Quiet DEF vars, Coming
<1>. QED
  BY <1>1, <1>2, <1>3, <1>4, <1>5, <1>6, <1>7, <1>8, <1>9, <1>10, <1>11
  DEF Next, Handle

CopiesBounded == \A t \in Notes : Bounded(t)

\* A remote server processes a tweet at most once more than attempts at it
\* were cut off.
THEOREM CopiesOfATweet == Spec => []TweetRepeatsOnlyIfCut
<1>1. Init => IsFiniteSet(wire) /\ CopiesBounded
  <2>. SUFFICES ASSUME Init, NEW t \in Notes
                PROVE  IsFiniteSet(wire) /\ Bounded(t)
    BY FS_EmptySet DEF Init, CopiesBounded
  <2>1. wire = {} /\ OnWire(t) = {}
    BY DEF Init, OnWire
  <2>2. processed[t] = 0 /\ cut[t] = 0
    BY DEF Init, Tasks
  <2>. QED
    BY <2>1, <2>2, FS_EmptySet DEF Bounded, Coming
<1>2. TypeOK /\ IsFiniteSet(wire) /\ CopiesBounded /\ [Next]_vars
        => IsFiniteSet(wire)' /\ CopiesBounded'
  BY WireFinite, CopiesStep DEF CopiesBounded
<1>3. TypeOK /\ IsFiniteSet(wire) /\ CopiesBounded => TweetRepeatsOnlyIfCut
  <2>. SUFFICES ASSUME TypeOK, IsFiniteSet(wire), CopiesBounded, NEW t \in Notes
                PROVE  processed[t] <= 1 + cut[t]
    BY DEF TweetRepeatsOnlyIfCut
  <2>1. t \in Tasks
    BY DEF Tasks
  <2>. QED
    BY <2>1, Countable DEF CopiesBounded, Bounded
<1>. QED
  BY <1>1, <1>2, <1>3, TypeCorrect, PTL DEF Spec
-----------------------------------------------------------------------------
(* The worker implements Delivery. *)

\* The attempt in progress may still post.
Posting(t) ==
    IF state[t] = "active" /\ step[t] \in {"save", "lookup", "post"} THEN 1 ELSE 0

Tries(t) ==
    IF state[t] \in {"active", "completed", "archived"}
    THEN retried[t] + 1 ELSE retried[t]

View(s) ==
    CASE s \in {"pending", "retry"} -> "waiting"
      [] s = "active" -> "trying"
      [] s = "completed" -> "delivered"
      [] s = "archived" -> "abandoned"
      [] OTHER -> "absent"

\* Every copy, processed or on its way or to be posted, has a try of its own,
\* and only a processed activity was answered 202.
Kept(t) ==
    /\ processed[t] + Cardinality(OnWire(t)) + Posting(t) <= Tries(t)
    /\ answer[t] = "202" => processed[t] > 0

AllKept == \A t \in Tasks : Kept(t)

\* A handler goes on from its post with an answer.
Answered == \A t \in Tasks : At(t, "answered") => answer[t] # "none"

LEMMA AnsweredStep == TypeOK /\ Answered /\ [Next]_vars => Answered'
<1>. SUFFICES ASSUME TypeOK, Answered, [Next]_vars, NEW t \in Tasks, At(t, "answered")'
              PROVE  answer'[t] # "none"
  BY DEF Answered
<1>. USE DEF history, At, Running
<1>1. CASE UNCHANGED <<state, step, answer>>
  BY <1>1 DEF Answered
<1>2. CASE Shutdown \/ Crash
  BY <1>2 DEF Shutdown, Crash, Answered
<1>3. ASSUME NEW s \in Tasks, Enqueue(s) \/ Forward(s) \/ Dequeue(s) \/ PostInbox(s)
      PROVE  answer'[t] # "none"
  BY <1>3 DEF Enqueue, Forward, Dequeue, PostInbox, Goto, Answered, TypeOK
<1>4. ASSUME NEW s \in Tasks, NEW error, End(s, error)
      PROVE  answer'[t] # "none"
  <2>1. s # t
    BY <1>4, EndFrame
  <2>2. answer'[t] = answer[t]
    BY <1>4, <2>1 DEF End, TypeOK
  <2>. QED
    BY <1>4, <2>1, <2>2, EndFrame DEF Answered
<1>5. ASSUME NEW s \in Tasks,
             Expire(s) \/ Recover(s) \/ SaveTweet(s) \/ Lookup(s) \/ PostFails(s) \/ PostAnswered(s)
      PROVE  answer'[t] # "none"
  <2>1. CASE \E error : End(s, error)
    BY <1>4, <2>1
  <2>2. CASE UNCHANGED <<state, retried, answer>> /\ (Goto(s, "lookup") \/ Goto(s, "post"))
    BY <2>2 DEF Goto, Answered, TypeOK
  <2>. QED
    BY <1>5, <2>1, <2>2
    DEF Expire, Recover, SaveTweet, Lookup, PostFails, PostAnswered, Fail
<1>6. ASSUME NEW m \in wire, Receive(m) \/ Lose(m)
      PROVE  answer'[t] # "none"
  BY <1>6 DEF Receive, Lose, Goto, Answered, TypeOK
<1>. QED
  BY <1>1, <1>2, <1>3, <1>5, <1>6 DEF Next, Handle, StartBroker, vars

\* Two moves of Delivery, field by field.
LEMMA GiveUpMove ==
    ASSUME NEW n \in Nat, NEW c \in Nat, NEW old, NEW new,
           old = [state |-> "trying", tries |-> n, copies |-> c],
           new = [state |-> "abandoned", tries |-> n, copies |-> c]
    PROVE  Promised!Move(old, new)
<1>1. new = [old EXCEPT !.state = "abandoned"]
  OBVIOUS
<1>. QED
  BY <1>1 DEF Promised!Move, Promised!GiveUp

LEMMA TryMove ==
    ASSUME NEW n \in Nat, n <= MaxRetry, NEW c \in Nat, NEW old, NEW new,
           old = [state |-> "waiting", tries |-> n, copies |-> c],
           new = [state |-> "trying", tries |-> n + 1, copies |-> c]
    PROVE  Promised!Move(old, new)
BY DEF Promised!Move, Promised!Try

LEMMA TriesNat ==
    ASSUME TypeOK, NEW t \in Tasks
    PROVE  /\ Tries(t) \in Nat /\ processed[t] \in Nat
           /\ retried[t] \in Nat /\ retried[t] + 1 \in Nat
BY MaxRetryAssumption DEF Tries, TypeOK

LEMMA TriesType ==
    ASSUME TypeOK, NEW t \in Tasks
    PROVE  /\ Tries(t) \in 0..MaxRetry + 1
           /\ delivery[t].tries = Tries(t)
           /\ delivery[t].copies = processed[t]
           /\ delivery[t].state = View(state[t])
<1>1. Tries(t) \in 0..MaxRetry + 1
  <2>1. retried[t] \in 0..MaxRetry
    BY DEF TypeOK
  <2>. QED
    BY <2>1, MaxRetryAssumption DEF Tries
<1>. QED
  BY <1>1 DEF delivery, Tries, View

\* The end of an attempt leaves the number of tries.
LEMMA EndTries ==
    ASSUME TypeOK, NEW t \in Tasks, NEW error, End(t, error), state[t] = "active",
           NEW s \in Tasks
    PROVE  /\ Tries(s)' = Tries(s)
           /\ Posting(s)' <= Posting(s)
           /\ answer'[s] = "202" => answer[s] = "202"
<1>1. /\ step' = [step EXCEPT ![t] = "none"]
      /\ answer' = [answer EXCEPT ![t] = "none"]
      /\ step \in [Tasks -> Steps] /\ answer \in [Tasks -> Answers]
      /\ state \in [Tasks -> TaskStates] /\ retried \in [Tasks -> 0..MaxRetry]
  BY DEF End, TypeOK
<1>2. Posting(s)' <= Posting(s)
  <2>1. CASE s = t
    BY <1>1, <2>1 DEF Posting
  <2>2. CASE s # t
    BY <1>1, <2>2, EndFrame DEF Posting
  <2>. QED
    BY <2>1, <2>2
<1>3. answer'[s] = "202" => answer[s] = "202"
  BY <1>1
<1>4. Tries(s)' = Tries(s)
  <2>1. CASE s # t
    BY <2>1, EndFrame DEF Tries
  <2>2. CASE s = t /\ error = "none"
    BY <1>1, <2>2 DEF End, Tries
  <2>3. CASE s = t /\ error # "none" /\ (error = "SkipRetry" \/ retried[t] >= MaxRetry)
    BY <1>1, <2>3 DEF End, Tries
  <2>4. CASE s = t /\ error # "none" /\ ~(error = "SkipRetry" \/ retried[t] >= MaxRetry)
    <3>1. state' = [state EXCEPT ![t] = "retry"] /\ retried' = [retried EXCEPT ![t] = @ + 1]
      BY <2>4 DEF End
    <3>. QED
      BY <1>1, <2>4, <3>1 DEF Tries
  <2>. QED
    BY <2>1, <2>2, <2>3, <2>4
<1>. QED
  BY <1>2, <1>3, <1>4

\* A step that leaves the wire and what was processed alone.
LEMMA QuietKept ==
    ASSUME TypeOK, IsFiniteSet(wire), NEW t \in Tasks, Kept(t),
           wire' = wire, processed' = processed,
           Tries(t) - Posting(t) <= Tries(t)' - Posting(t)',
           answer'[t] = "202" => answer[t] = "202", TypeOK'
    PROVE  Kept(t)'
<1>1. OnWire(t)' = OnWire(t)
  BY DEF OnWire
<1>2. Posting(t) \in {0, 1} /\ Posting(t)' \in {0, 1}
  BY DEF Posting
<1>3. Tries(t) \in Int /\ Tries(t)' \in Int
  BY MaxRetryAssumption DEF Tries, TypeOK
<1>. QED
  BY <1>1, <1>2, <1>3, Countable DEF Kept

LEMMA KeptStep ==
    ASSUME TypeOK, TypeOK', IsFiniteSet(wire), [Next]_vars, NEW t \in Tasks, Kept(t)
    PROVE  Kept(t)'
<1>. USE DEF history
<1>0. /\ Tries(t) \in Int /\ Tries(t)' \in Int
      /\ Posting(t) \in {0, 1} /\ Posting(t)' \in {0, 1}
  BY MaxRetryAssumption DEF Tries, Posting, TypeOK
<1>1. CASE UNCHANGED vars \/ StartBroker
  <2>1. Tries(t)' = Tries(t) /\ Posting(t)' = Posting(t)
    BY <1>1 DEF vars, StartBroker, Tries, Posting
  <2>. QED
    BY <1>0, <1>1, <2>1, QuietKept DEF vars, StartBroker
<1>2. CASE Shutdown \/ Crash
  <2>1. answer'[t] = "202" => answer[t] = "202"
    BY <1>2 DEF Shutdown, Crash
  <2>2. Posting(t)' <= Posting(t)
    BY <1>2 DEF Shutdown, Crash, Posting, Running
  <2>3. Tries(t)' = Tries(t)
    BY <1>2, MaxRetryAssumption DEF Shutdown, Crash, Tries, Running, TypeOK
  <2>. QED
    BY <1>0, <1>2, <2>1, <2>2, <2>3, QuietKept DEF Shutdown, Crash
<1>3. ASSUME NEW s \in Tasks, Enqueue(s) \/ Forward(s)
      PROVE  Kept(t)'
  <2>1. Tries(t)' = Tries(t) /\ Posting(t)' = Posting(t)
    BY <1>3 DEF Enqueue, Forward, Tries, Posting, TypeOK
  <2>. QED
    BY <1>0, <1>3, <2>1, QuietKept DEF Enqueue, Forward
<1>4. ASSUME NEW s \in Tasks, Dequeue(s)
      PROVE  Kept(t)'
  <2>1. CASE s = t
    <3>1. Tries(t)' = Tries(t) + 1
      BY <1>4, <2>1 DEF Dequeue, Tries, TypeOK
    <3>2. Posting(t) = 0
      BY <1>4, <2>1 DEF Dequeue, Posting
    <3>. QED
      BY <1>0, <1>4, <3>1, <3>2, QuietKept DEF Dequeue
  <2>2. CASE s # t
    <3>1. Tries(t)' = Tries(t) /\ Posting(t)' = Posting(t)
      BY <1>4, <2>2 DEF Dequeue, Goto, Tries, Posting, TypeOK
    <3>. QED
      BY <1>0, <1>4, <3>1, QuietKept DEF Dequeue
  <2>. QED
    BY <2>1, <2>2
<1>5. ASSUME NEW s \in Tasks, NEW error, End(s, error), state[s] = "active",
             wire' = wire, processed' = processed
      PROVE  Kept(t)'
  BY <1>0, <1>5, EndTries, QuietKept
<1>6. ASSUME NEW s \in Tasks, Expire(s) \/ Recover(s) \/ PostFails(s) \/ PostAnswered(s)
      PROVE  Kept(t)'
  <2>1. wire' = wire /\ processed' = processed /\ state[s] = "active"
    BY <1>6 DEF Expire, Recover, PostFails, PostAnswered, At, Running
  <2>2. \E error : End(s, error)
    BY <1>6 DEF Expire, Recover, PostFails, PostAnswered, Fail
  <2>. QED
    BY <1>5, <2>1, <2>2
<1>7. ASSUME NEW s \in Tasks, SaveTweet(s) \/ Lookup(s)
      PROVE  Kept(t)'
  <2>1. wire' = wire /\ processed' = processed /\ state[s] = "active"
    BY <1>7 DEF SaveTweet, Lookup, At, Running
  <2>2. CASE \E error : End(s, error)
    BY <1>5, <2>1, <2>2
  <2>3. CASE /\ UNCHANGED <<state, retried, answer>>
             /\ Goto(s, "lookup") \/ Goto(s, "post")
    <3>1. Tries(t)' = Tries(t)
      BY <2>3 DEF Tries
    <3>2. Posting(t)' = Posting(t)
      BY <1>7, <2>3 DEF SaveTweet, Lookup, Goto, At, Running, Posting, TypeOK
    <3>. QED
      BY <1>0, <2>1, <2>3, <3>1, <3>2, QuietKept
  <2>. QED
    BY <1>7, <2>2, <2>3 DEF SaveTweet, Lookup, Fail
<1>8. ASSUME NEW s \in Tasks, PostInbox(s)
      PROVE  Kept(t)'
  <2>1. /\ wire' = wire \cup {<<s, retried[s]>>}
        /\ UNCHANGED <<state, retried, answer, processed>>
        /\ step' = [step EXCEPT ![s] = "wait"]
        /\ state[s] = "active" /\ step[s] = "post"
    BY <1>8 DEF PostInbox, Goto, At, Running
  <2>2. Tries(t)' = Tries(t)
    BY <2>1 DEF Tries
  <2>3. CASE s = t
    <3>1. Posting(t) = 1 /\ Posting(t)' = 0
      BY <2>1, <2>3 DEF Posting, TypeOK
    <3>2. OnWire(t)' = OnWire(t) \cup {<<t, retried[t]>>}
      BY <2>1, <2>3 DEF OnWire
    <3>3. /\ IsFiniteSet(OnWire(t))
          /\ Cardinality(OnWire(t)) \in Nat
          /\ processed[t] \in Nat
      BY Countable
    <3>4. \/ Cardinality(OnWire(t)') = Cardinality(OnWire(t)) + 1
          \/ Cardinality(OnWire(t)') = Cardinality(OnWire(t))
      BY <3>2, <3>3, FS_AddElement
    <3>. QED
      BY <1>0, <2>1, <2>2, <3>1, <3>3, <3>4 DEF Kept
  <2>4. CASE s # t
    <3>1. OnWire(t)' = OnWire(t)
      BY <2>1, <2>4 DEF OnWire
    <3>2. Posting(t)' = Posting(t)
      BY <2>1, <2>4 DEF Posting, TypeOK
    <3>. QED
      BY <2>1, <2>2, <3>1, <3>2 DEF Kept
  <2>. QED
    BY <2>3, <2>4
<1>9. ASSUME NEW m \in wire, Lose(m) \/ Receive(m)
      PROVE  Kept(t)'
  <2>1. wire' = wire \ {m} /\ state' = state /\ retried' = retried
    BY <1>9 DEF Receive, Lose
  <2>2. Tries(t)' = Tries(t)
    BY <2>1 DEF Tries
  <2>3. Posting(t)' = Posting(t)
    BY <1>9, <2>1 DEF Receive, Lose, At, Running, Goto, Posting, TypeOK
  <2>4. PICK d \in {0, 1} : /\ processed'[t] = processed[t] + d
                            /\ d = 1 => m[1] = t
    BY <1>9, Arrives DEF Lose, TypeOK
  <2>5. answer'[t] = "202" => processed'[t] > 0
    <3>1. CASE answer'[t] = answer[t]
      BY <2>4, <3>1 DEF Kept, TypeOK
    <3>2. CASE answer'[t] # answer[t] /\ answer'[t] = "202"
      <4>1. Receive(m) /\ m[1] = t
        BY <1>9, <3>2 DEF Lose, Receive, TypeOK
      <4>2. processed' = [processed EXCEPT ![t] = @ + 1]
        BY <3>2, <4>1 DEF Receive, Copies, TypeOK
      <4>. QED
        BY <4>2 DEF TypeOK
    <3>. QED
      BY <3>1, <3>2
  <2>6. CASE m[1] = t
    <3>1. OnWire(t)' = OnWire(t) \ {m} /\ m \in OnWire(t)
      BY <2>1, <2>6 DEF OnWire
    <3>2. Cardinality(OnWire(t)') = Cardinality(OnWire(t)) - 1
      BY <3>1, Countable, FS_RemoveElement
    <3>. QED
      BY <1>0, <2>2, <2>3, <2>4, <2>5, <3>2, Countable DEF Kept
  <2>7. CASE m[1] # t
    <3>1. OnWire(t)' = OnWire(t)
      BY <2>1, <2>7 DEF OnWire
    <3>. QED
      BY <1>0, <2>2, <2>3, <2>4, <2>5, <2>7, <3>1, Countable DEF Kept
  <2>. QED
    BY <2>6, <2>7
<1>. QED
  BY <1>1, <1>2, <1>3, <1>4, <1>6, <1>7, <1>8, <1>9 DEF Next, Handle

\* A task none of whose fields moves has not moved; and an attempt that ends
\* moves its task as Delivery allows.
LEMMA SameView ==
    ASSUME NEW t \in Tasks, View(state'[t]) = View(state[t]),
           Tries(t)' = Tries(t), processed'[t] = processed[t]
    PROVE  delivery'[t] = delivery[t]
BY DEF delivery, View, Tries

LEMMA EndMoves ==
    ASSUME TypeOK, NEW t \in Tasks, NEW error, End(t, error), state[t] = "active",
           processed' = processed, error = "none" => processed[t] > 0,
           NEW s \in Tasks
    PROVE  delivery'[s] = delivery[s] \/ Promised!Move(delivery[s], delivery'[s])
<1>1. Tries(s)' = Tries(s)
  BY EndTries
<1>2. CASE s # t
  BY <1>1, <1>2, EndFrame, SameView
<1>3. CASE s = t
  <2>1. delivery[t] = [state |-> "trying", tries |-> Tries(t), copies |-> processed[t]]
    BY DEF delivery, Tries
  <2>2. state'[t] \in {"completed", "archived", "retry"}
    BY EndFrame
  <2>3. CASE state'[t] = "completed"
    <3>1. delivery'[t] = [state |-> "delivered", tries |-> Tries(t), copies |-> processed[t]]
      BY <1>1, <1>3, <2>3 DEF delivery, Tries
    <3>2. error = "none"
      BY <2>3 DEF End, TypeOK
    <3>. QED
      BY <1>3, <2>1, <3>1, <3>2 DEF Promised!Move, Promised!Deliver
  <2>4. CASE state'[t] = "archived"
    <3>1. delivery'[t] = [state |-> "abandoned", tries |-> Tries(t), copies |-> processed[t]]
      BY <1>1, <1>3, <2>4 DEF delivery, Tries
    <3>. QED
      BY <1>3, <2>1, <3>1, TriesNat, GiveUpMove
  <2>5. CASE state'[t] = "retry"
    <3>1. delivery'[t] = [state |-> "waiting", tries |-> Tries(t), copies |-> processed[t]]
      BY <1>1, <1>3, <2>5 DEF delivery, Tries
    <3>2. Tries(t) <= MaxRetry
      <4>1. error # "none" /\ ~(error = "SkipRetry" \/ retried[t] >= MaxRetry)
        BY <2>5 DEF End, TypeOK
      <4>. QED
        BY <4>1, MaxRetryAssumption DEF Tries, TypeOK
    <3>. QED
      BY <1>3, <2>1, <3>1, <3>2 DEF Promised!Move, Promised!PutBack
  <2>. QED
    BY <2>2, <2>3, <2>4, <2>5
<1>. QED
  BY <1>2, <1>3

\* Every step of the worker moves each task as Delivery allows, or not at all.
LEMMA StepMoves ==
    ASSUME TypeOK, AllKept, AllKept', Answered, IsFiniteSet(wire), IsFiniteSet(wire'), TypeOK',
           [Next]_vars, NEW t \in Tasks
    PROVE  delivery'[t] = delivery[t] \/ Promised!Move(delivery[t], delivery'[t])
<1>. USE DEF history
<1>1. CASE UNCHANGED <<state, retried, processed>>
  BY <1>1, SameView DEF Tries
<1>2. CASE Shutdown
  <2>1. CASE Running(t)
    <3>1. delivery[t] = [state |-> "trying", tries |-> retried[t] + 1, copies |-> processed[t]]
      BY <2>1 DEF delivery, Running
    <3>2. CASE retried[t] >= MaxRetry
      <4>1. state'[t] = "archived" /\ retried'[t] = retried[t] /\ processed' = processed
        BY <1>2, <2>1, <3>2 DEF Shutdown
      <4>2. delivery'[t] = [state |-> "abandoned", tries |-> retried[t] + 1, copies |-> processed[t]]
        BY <4>1 DEF delivery
      <4>. QED
        BY <3>1, <4>2, TriesNat, GiveUpMove
    <3>3. CASE ~(retried[t] >= MaxRetry)
      <4>1. /\ state'[t] = "retry" /\ retried'[t] = retried[t] + 1
            /\ processed' = processed
        BY <1>2, <2>1, <3>3 DEF Shutdown
      <4>2. delivery'[t] = [state |-> "waiting", tries |-> retried[t] + 1, copies |-> processed[t]]
        BY <4>1 DEF delivery
      <4>3. retried[t] + 1 <= MaxRetry
        BY <3>3, MaxRetryAssumption DEF TypeOK
      <4>. QED
        BY <3>1, <4>2, <4>3 DEF Promised!Move, Promised!PutBack
    <3>. QED
      BY <3>2, <3>3
  <2>2. CASE ~Running(t)
    <3>1. state'[t] = state[t] /\ retried'[t] = retried[t] /\ processed' = processed
      BY <1>2, <2>2 DEF Shutdown
    <3>. QED
      BY <3>1, SameView DEF Tries
  <2>. QED
    BY <2>1, <2>2
<1>3. ASSUME NEW s \in Tasks, Enqueue(s)
      PROVE  delivery'[t] = delivery[t] \/ Promised!Move(delivery[t], delivery'[t])
  <2>1. CASE s = t
    <3>1. delivery[t] = [state |-> "absent", tries |-> retried[t], copies |-> processed[t]]
      BY <1>3, <2>1 DEF Enqueue, delivery
    <3>2. delivery'[t] = [state |-> "waiting", tries |-> retried[t], copies |-> processed[t]]
      BY <1>3, <2>1 DEF Enqueue, delivery, TypeOK
    <3>. QED
      BY <3>1, <3>2 DEF Promised!Move, Promised!Submit
  <2>2. CASE s # t
    BY <1>3, <2>2, SameView DEF Enqueue, Tries, TypeOK
  <2>. QED
    BY <2>1, <2>2
<1>4. ASSUME NEW s \in Tasks, Dequeue(s)
      PROVE  delivery'[t] = delivery[t] \/ Promised!Move(delivery[t], delivery'[t])
  <2>1. CASE s = t
    <3>1. delivery[t] = [state |-> "waiting", tries |-> retried[t], copies |-> processed[t]]
      BY <1>4, <2>1 DEF Dequeue, delivery
    <3>2. delivery'[t] = [state |-> "trying", tries |-> retried[t] + 1, copies |-> processed[t]]
      BY <1>4, <2>1 DEF Dequeue, delivery, TypeOK
    <3>3. retried[t] <= MaxRetry
      BY MaxRetryAssumption DEF TypeOK
    <3>. QED
      BY <3>1, <3>2, <3>3, TriesNat, TryMove
  <2>2. CASE s # t
    BY <1>4, <2>2, SameView DEF Dequeue, Tries, TypeOK
  <2>. QED
    BY <2>1, <2>2
<1>5. ASSUME NEW s \in Tasks, Forward(s)
      PROVE  delivery'[t] = delivery[t]
  <2>1. View(state'[t]) = View(state[t]) /\ Tries(t)' = Tries(t)
    BY <1>5 DEF Forward, View, Tries, TypeOK
  <2>. QED
    BY <1>5, <2>1, SameView DEF Forward
<1>6. ASSUME NEW s \in Tasks, NEW error, End(s, error), state[s] = "active",
             processed' = processed, error = "none" => processed[s] > 0
      PROVE  delivery'[t] = delivery[t] \/ Promised!Move(delivery[t], delivery'[t])
  BY <1>6, EndMoves
<1>7. ASSUME NEW s \in Tasks, Expire(s) \/ Recover(s)
      PROVE  delivery'[t] = delivery[t] \/ Promised!Move(delivery[t], delivery'[t])
  BY <1>6, <1>7 DEF Expire, Recover, Running
<1>8. ASSUME NEW s \in Tasks, SaveTweet(s) \/ Lookup(s) \/ PostFails(s) \/ PostAnswered(s)
      PROVE  delivery'[t] = delivery[t] \/ Promised!Move(delivery[t], delivery'[t])
  <2>1. state[s] = "active" /\ processed' = processed
    BY <1>8 DEF SaveTweet, Lookup, PostFails, PostAnswered, At, Running
  <2>2. \A cause \in Causes \ {"none"} : HandlerError(s, cause) # "none"
    BY DEF HandlerError, AcceptFollowError, RejectFollowError, SendTweetError, Causes, Answers
  <2>3. CASE \E cause \in Causes \ {"none"} : Fail(s, cause)
    BY <1>6, <2>1, <2>2, <2>3 DEF Fail
  <2>4. CASE PostAnswered(s)
    <3>1. CASE answer[s] = "202"
      BY <1>6, <2>1, <2>4, <3>1 DEF PostAnswered, AllKept, Kept
    <3>2. CASE answer[s] # "202"
      <4>1. Fail(s, answer[s])
        BY <2>4, <3>2 DEF PostAnswered
      <4>2. answer[s] \in Causes \ {"none"}
        BY <2>4 DEF PostAnswered, Answered, TypeOK, Causes
      <4>. QED
        BY <2>3, <4>1, <4>2
    <3>. QED
      BY <3>1, <3>2
  <2>. QED
    BY <1>1, <1>8, <2>1, <2>3, <2>4 DEF SaveTweet, Lookup, PostFails, Causes
<1>9. ASSUME NEW m \in wire, Receive(m)
      PROVE  delivery'[t] = delivery[t] \/ Promised!Move(delivery[t], delivery'[t])
  <2>1. state' = state /\ retried' = retried
    BY <1>9 DEF Receive
  <2>2. processed'[t] \in {processed[t], processed[t] + 1}
    BY <1>9, Arrives DEF TypeOK
  <2>3. CASE processed'[t] = processed[t]
    BY <2>1, <2>3, SameView DEF Tries
  <2>4. CASE processed'[t] = processed[t] + 1
    <3>1. processed[t] + 1 <= Tries(t)
      <4>1. processed'[t] <= Tries(t)'
        <5>1. Cardinality(OnWire(t)') \in Nat
          <6>1. OnWire(t)' \in SUBSET wire'
            BY DEF OnWire
          <6>. QED
            BY <6>1, FS_Subset, FS_CardinalityType
        <5>2. Posting(t)' \in {0, 1} /\ Tries(t)' \in Int /\ processed'[t] \in Nat
          BY MaxRetryAssumption DEF Posting, Tries, TypeOK
        <5>. QED
          BY <5>1, <5>2 DEF AllKept, Kept
      <4>. QED
        BY <2>1, <2>4, <4>1 DEF Tries
    <3>2. Tries(t) \in Int /\ processed[t] \in Nat
      BY MaxRetryAssumption DEF Tries, TypeOK
    <3>3. /\ delivery[t] = [state |-> View(state[t]), tries |-> Tries(t),
                            copies |-> processed[t]]
          /\ delivery'[t] = [state |-> View(state[t]), tries |-> Tries(t),
                             copies |-> processed[t] + 1]
      BY <2>1, <2>4 DEF delivery, Tries, View
    <3>. QED
      BY <3>1, <3>2, <3>3 DEF Promised!Move, Promised!Arrive
  <2>. QED
    BY <2>2, <2>3, <2>4
<1>. QED
  BY <1>1, <1>2, <1>3, <1>4, <1>5, <1>7, <1>8, <1>9
  DEF Next, Handle, vars, StartBroker, Crash, PostInbox, Lose

\* What is seen of the tasks has the type Delivery gives it.
LEMMA ViewType ==
    TypeOK /\ AllKept /\ IsFiniteSet(wire) => delivery \in [Tasks -> Promised!Status]
<1>. SUFFICES ASSUME TypeOK, AllKept, IsFiniteSet(wire), NEW t \in Tasks
              PROVE  delivery[t] \in Promised!Status
  BY DEF delivery
<1>1. /\ Tries(t) \in 0..MaxRetry + 1
      /\ delivery[t] = [state |-> View(state[t]), tries |-> Tries(t), copies |-> processed[t]]
  BY TriesType DEF delivery, View, Tries
<1>2. View(state[t]) \in Promised!States
  BY DEF View, Promised!States
<1>3. processed[t] \in 0..MaxRetry + 1
  <2>1. processed[t] + Cardinality(OnWire(t)) + Posting(t) <= Tries(t)
    BY DEF AllKept, Kept
  <2>2. Posting(t) \in {0, 1}
    BY DEF Posting
  <2>. QED
    BY <1>1, <2>1, <2>2, Countable, MaxRetryAssumption
<1>. QED
  BY <1>1, <1>2, <1>3 DEF Promised!Status

\* The worker implements Delivery: at most MaxRetry + 1 tries of a task, at most
\* one copy of its activity per try, and none completed that was not processed.
THEOREM WorkerImplementsDelivery == Spec => DeliversAsPromised
<1>1. Init => Promised!Init /\ AllKept /\ Answered /\ IsFiniteSet(wire)
  <2>. SUFFICES ASSUME Init
                PROVE  Promised!Init /\ AllKept /\ Answered /\ IsFiniteSet(wire)
    OBVIOUS
  <2>1. Promised!Init
    BY DEF Init, Promised!Init, delivery
  <2>2. ASSUME NEW t \in Tasks PROVE Kept(t)
    <3>1. OnWire(t) = {}
      BY DEF Init, OnWire
    <3>. QED
      BY <3>1, FS_EmptySet DEF Init, Kept, Posting, Tries
  <2>. QED
    BY <2>1, <2>2, FS_EmptySet DEF Init, AllKept, Answered, At, Running
<1>2. TypeOK /\ TypeOK' /\ AllKept /\ IsFiniteSet(wire) /\ [Next]_vars
        => AllKept' /\ IsFiniteSet(wire)'
  BY KeptStep, WireFinite DEF AllKept
<1>3. TypeOK /\ TypeOK' /\ AllKept /\ AllKept' /\ Answered /\
      IsFiniteSet(wire) /\ IsFiniteSet(wire)' /\
      (delivery \in [Tasks -> Promised!Status])' /\ [Next]_vars
        => [Promised!Next]_delivery
  <2>. SUFFICES ASSUME TypeOK, TypeOK', AllKept, AllKept', Answered,
                       IsFiniteSet(wire), IsFiniteSet(wire)',
                       (delivery \in [Tasks -> Promised!Status])', [Next]_vars
                PROVE  Promised!Next
    OBVIOUS
  <2>1. \A t \in Tasks :
            delivery'[t] = delivery[t] \/ Promised!Move(delivery[t], delivery'[t])
    BY StepMoves
  <2>. QED
    BY <2>1 DEF Promised!Next
<1>. QED
  BY <1>1, <1>2, <1>3, ViewType, AnsweredStep, TypeCorrect, PTL DEF Spec, DeliversAsPromised, Promised!Spec
=============================================================================
