---------------------------- MODULE InboxProofs -----------------------------
(***************************************************************************)
(* Proofs about Inbox, for any sets of requests, users and actors.         *)
(*                                                                         *)
(* What a request has done is read off its step: each invariant is carried *)
(* by a part that says what is known of a request while it is handled.     *)
(***************************************************************************)
EXTENDS Inbox, FiniteSetTheorems, TLAPS

Statuses == {NoStatus, 202, 400, 403, 404, 500}

Request == [step: Steps, kind: Kinds, user: Names \cup {"none"},
            actor: Actors \cup {"none"}, status: Statuses]

\* A request being handled names a user and an actor; one that is not sent yet
\* has done nothing; tasks and removals are the work of answered requests.
Sent ==
    \A r \in Requests :
        /\ ~At(r, "unsent") => req[r].user \in Names /\ req[r].actor \in Actors
        /\ r \in accepts \cup rejects \cup removals => At(r, "answered")

\* A user of this instance was found before any call that names the pair.
Resolved == {"actor", "key", "create", "insert", "accept", "reject", "delete"}

UserInHand ==
    \A r \in Requests : req[r].step \in Resolved => req[r].user \in Bridged

\* The row of the actor is there from the step that follows createActorIfNoExist.
ActorInHand ==
    \A r \in Requests :
        req[r].step \in {"insert", "accept", "reject", "delete"}
            => req[r].actor \in actors

\* A stored follow was stored by a request that is past storing it.
StoredByRequest ==
    \A p \in followers :
        /\ storedBy[p] \in Requests
        /\ req[storedBy[p]].step \in {"accept", "cut", "answered"}
        /\ pair(storedBy[p]) = p

IInv ==
    /\ TypeOK
    /\ Sent
    /\ UserInHand
    /\ ActorInHand
    /\ TasksFindTheirActor
    /\ StoredByRequest
    /\ StrandedOnlyByFailure

-----------------------------------------------------------------------------
(* Steps of one request. *)

\* A request moves on: what its record and those of the others become.
LEMMA GotoMoves ==
    ASSUME TypeOK, NEW r \in Requests, NEW s \in Steps, Goto(r, s)
    PROVE  /\ req' \in [Requests -> Request]
           /\ req'[r] = [req[r] EXCEPT !.step = s]
           /\ \A q \in Requests \ {r} : req'[q] = req[q]
BY DEF TypeOK, Request, Statuses, Goto

LEMMA AnswerMoves ==
    ASSUME TypeOK, NEW r \in Requests, NEW status \in Statuses, Answer(r, status)
    PROVE  /\ req' \in [Requests -> Request]
           /\ req'[r].step = "answered"
           /\ req'[r].status = status
           /\ req'[r].user = req[r].user
           /\ req'[r].actor = req[r].actor
           /\ \A q \in Requests \ {r} : req'[q] = req[q]
<1>1. req \in [Requests -> Request] /\ "answered" \in Steps
  BY DEF TypeOK, Request, Statuses, Steps
<1>2. \A q \in Requests \ {r} : req'[q] = req[q]
  BY <1>1 DEF Answer
<1>3. req'[r] = [req[r] EXCEPT !.step = "answered", !.status = status]
  BY <1>1 DEF Answer
<1>4. req'[r] \in Request
  BY <1>1, <1>3 DEF Request
<1>5. req' = [q \in Requests |-> req'[q]]
  BY <1>1 DEF Answer
<1>6. req' \in [Requests -> Request]
  BY <1>1, <1>2, <1>4, <1>5
<1>. QED
  BY <1>1, <1>2, <1>3, <1>6 DEF Request

\* Any step of a handler: the request goes on or is answered, with the status
\* it may get.
Moves(r) ==
    /\ req' \in [Requests -> Request]
    /\ req'[r].user = req[r].user
    /\ req'[r].actor = req[r].actor
    /\ \A q \in Requests \ {r} : req'[q] = req[q]
    /\ req'[r].step \notin {"unsent", "received", "cut"}

LEMMA RefuseAnswers ==
    ASSUME NEW r, Refuse(r)
    PROVE  \E status \in Statuses : Answer(r, status)
<1>1. ASSUME NEW status \in Triage(req[r].kind)
      PROVE  status \in {400, 202}
  BY <1>1 DEF Triage
<1>2. Early \subseteq Statuses
  BY DEF Early, Statuses
<1>. QED
  BY <1>1, <1>2 DEF Refuse, Statuses

LEMMA HandlerGoes ==
    ASSUME NEW r \in Requests, HandleInbox(r)
    PROVE  \/ \E s \in Steps \ {"unsent", "received", "cut"} : Goto(r, s)
           \/ \E status \in Statuses : Answer(r, status)
BY RefuseAnswers
DEF HandleInbox, Resolve, Follow, UnFollow, GetUser, GetActor, FetchKey,
      CreateActor, Insert, EnqueueReject, StoreFollow, AddActors, EnqueueAccept, DeleteFollow, RemoveActors,
      CallFails, WriteDoneButFails, Insert, AddActors, RemoveActors, Proceed, IsGranted, canFollow, Steps, Statuses

LEMMA HandlerMoves ==
    ASSUME TypeOK, NEW r \in Requests, HandleInbox(r)
    PROVE  Moves(r)
<1>1. CASE \E s \in Steps \ {"unsent", "received", "cut"} : Goto(r, s)
  <2>1. PICK s \in Steps \ {"unsent", "received", "cut"} : Goto(r, s)
    BY <1>1
  <2>2. /\ req' \in [Requests -> Request]
        /\ req'[r] = [req[r] EXCEPT !.step = s]
        /\ \A q \in Requests \ {r} : req'[q] = req[q]
    BY <2>1, GotoMoves
  <2>3. req[r] \in Request
    BY DEF TypeOK, Request, Statuses
  <2>. QED
    BY <2>1, <2>2, <2>3 DEF Moves, Request
<1>2. CASE \E status \in Statuses : Answer(r, status)
  BY <1>2, AnswerMoves DEF Moves
<1>. QED
  BY <1>1, <1>2, HandlerGoes

-----------------------------------------------------------------------------
(* What a handler's step does to the tables, from where, and where it leaves *)
(* the request.                                                              *)

Failed(r) == req'[r].step = "answered" /\ req'[r].status = 500

WritesNothing(r) ==
    /\ UNCHANGED tables
    /\ ~At(r, "unsent")
    /\ req'[r].step # "accept"
    /\ At(r, "accept") => Failed(r)
    /\ ~At(r, "answered") /\ ~At(r, "cut")
    /\ req'[r].step \in {"insert", "reject", "delete"} => req[r].actor \in actors
    /\ req'[r].step \in Resolved => req[r].user \in Bridged

WritesActor(r) ==
    /\ At(r, "create")
    /\ req'[r].step # "accept"
    /\ actors' = actors \cup {req[r].actor}
    /\ UNCHANGED <<followers, accepts, rejects, storedBy, removals>>

WritesFollow(r) ==
    /\ At(r, "insert")
    /\ pair(r) \notin followers
    /\ req'[r].step = "accept" \/ Failed(r)
    /\ followers' = followers \cup {pair(r)}
    /\ storedBy' = [storedBy EXCEPT ![pair(r)] = r]
    /\ UNCHANGED <<actors, accepts, rejects, removals>>

WritesAccept(r) ==
    /\ At(r, "accept")
    /\ req'[r].step = "answered"
    /\ accepts' = accepts \cup {r}
    /\ UNCHANGED <<actors, followers, rejects, storedBy, removals>>

WritesReject(r) ==
    /\ At(r, "reject")
    /\ req'[r].step = "answered"
    /\ rejects' = rejects \cup {r}
    /\ UNCHANGED <<actors, followers, accepts, storedBy, removals>>

Deletes(r) ==
    /\ At(r, "delete")
    /\ req'[r].step = "answered"
    /\ followers' = followers \ {pair(r)}
    /\ removals' = IF pair(r) \in followers THEN removals \cup {r} ELSE removals
    /\ UNCHANGED <<actors, accepts, rejects, storedBy>>

Writes(r) ==
    \/ WritesNothing(r) \/ WritesActor(r) \/ WritesFollow(r)
    \/ WritesAccept(r) \/ WritesReject(r) \/ Deletes(r)

LEMMA HandlerWrites ==
    ASSUME TypeOK, Sent, UserInHand, ActorInHand, NEW r \in Requests,
           HandleInbox(r)
    PROVE  Writes(r)
<1>. req \in [Requests -> Request]
  BY DEF TypeOK, Request, Statuses
<1>a. ASSUME NEW s, Goto(r, s)
      PROVE  req'[r].step = s
  BY <1>a DEF Goto, Request
<1>b. ASSUME NEW status, Answer(r, status)
      PROVE  req'[r].step = "answered" /\ req'[r].status = status
  BY <1>b DEF Answer, Request
<1>1. CASE Refuse(r)
  BY <1>1, <1>b DEF Refuse, Resolved, At, WritesNothing, Writes
<1>2. CASE Resolve(r)
  BY <1>2, <1>a DEF Resolve, UserInHand, Resolved, At, WritesNothing, Writes
<1>3. CASE GetUser(r)
  BY <1>3, <1>a, <1>b DEF GetUser, UserInHand, Resolved, At, WritesNothing, Writes
<1>4. CASE GetActor(r)
  BY <1>4, <1>a DEF GetActor, Proceed, IsGranted, canFollow, UserInHand, Resolved, At, WritesNothing, Writes
<1>5. CASE FetchKey(r)
  BY <1>5, <1>a DEF FetchKey, UserInHand, Resolved, At, WritesNothing, Writes
<1>6. CASE CreateActor(r)
  BY <1>6, <1>a, <1>b DEF CreateActor, Insert, Proceed, IsGranted, canFollow, At, WritesActor, Writes
<1>7. CASE EnqueueReject(r)
  BY <1>7, <1>b DEF EnqueueReject, At, WritesReject, Writes
<1>8. CASE StoreFollow(r)
  <2>1. CASE pair(r) \in followers
    BY <1>8, <2>1, <1>b DEF StoreFollow, AddActors, Resolved, At, WritesNothing, Writes, tables
  <2>2. CASE pair(r) \notin followers
    BY <1>8, <2>2, <1>a DEF StoreFollow, AddActors, At, WritesFollow, Writes
  <2>. QED
    BY <2>1, <2>2
<1>9. CASE EnqueueAccept(r)
  BY <1>9, <1>b DEF EnqueueAccept, At, WritesAccept, Writes
<1>10. CASE DeleteFollow(r)
  BY <1>10, <1>b DEF DeleteFollow, RemoveActors, At, Deletes, Writes
<1>11. CASE CallFails(r)
  BY <1>11, <1>b DEF CallFails, Resolved, At, WritesNothing, Writes, Failed
<1>12. CASE WriteDoneButFails(r)
  <2>1. Failed(r)
    BY <1>12, <1>b DEF WriteDoneButFails, Insert, AddActors, RemoveActors, Failed
  <2>. QED
    BY <1>12, <2>1
    DEF WriteDoneButFails, Insert, AddActors, RemoveActors, Failed, Writes, WritesActor, WritesFollow,
        WritesAccept, WritesReject, Deletes
<1>. QED
  BY <1>1, <1>2, <1>3, <1>4, <1>5, <1>6, <1>7, <1>8, <1>9, <1>10, <1>11, <1>12
  DEF HandleInbox, Follow, UnFollow

-----------------------------------------------------------------------------
(* A handler's step keeps each part of the invariant. *)

\* The steps of the others, and the pair of every request, stay.
LEMMA MovesFrame ==
    ASSUME NEW r \in Requests, Moves(r)
    PROVE  \A q \in Requests : /\ pair(q)' = pair(q)
                               /\ req'[q].user = req[q].user
                               /\ req'[q].actor = req[q].actor
                               /\ q # r => req'[q] = req[q]
BY DEF Moves, pair

LEMMA PairType ==
    ASSUME NEW r, req[r].user \in Bridged, req[r].actor \in Actors
    PROVE  pair(r) \in Pairs
<1>. DEFINE u == req[r].user
            a == req[r].actor
<1>1. <<u, a>> \in Bridged \X Actors
  OBVIOUS
<1>. QED
  BY <1>1 DEF pair, Pairs

LEMMA HandlerType ==
    ASSUME TypeOK, Sent, UserInHand, NEW r \in Requests, Moves(r), Writes(r)
    PROVE  TypeOK'
<1>1. req' \in [Requests -> Request]
  BY DEF Moves
<1>2. req[r].user \in Names /\ req[r].actor \in Actors
  BY DEF Sent, Writes, WritesNothing, WritesActor, WritesFollow, WritesAccept,
         WritesReject, Deletes, At
<1>3. At(r, "insert") => pair(r) \in Pairs
  BY <1>2, PairType DEF UserInHand, Resolved, At
<1>4. actors' \subseteq Actors
  BY <1>2 DEF TypeOK, tables, Writes, WritesNothing, WritesActor, WritesFollow,
              WritesAccept, WritesReject, Deletes
<1>5. followers' \subseteq Pairs
  BY <1>3 DEF TypeOK, tables, Writes, WritesNothing, WritesActor, WritesFollow,
              WritesAccept, WritesReject, Deletes
<1>6. accepts' \subseteq Requests /\ rejects' \subseteq Requests
  BY DEF TypeOK, tables, Writes, WritesNothing, WritesActor, WritesFollow,
         WritesAccept, WritesReject, Deletes
<1>7. removals' \subseteq Requests
  BY DEF TypeOK, tables, Writes, WritesNothing, WritesActor, WritesFollow,
         WritesAccept, WritesReject, Deletes
<1>8. storedBy' \in [Pairs -> Requests \cup {NoRequest}]
  BY DEF TypeOK, tables, Writes, WritesNothing, WritesActor, WritesFollow,
         WritesAccept, WritesReject, Deletes
<1>. QED
  BY <1>1, <1>4, <1>5, <1>6, <1>7, <1>8 DEF TypeOK, Request, Statuses

LEMMA HandlerSent ==
    ASSUME TypeOK, Sent, NEW r \in Requests, Moves(r), Writes(r)
    PROVE  Sent'
<1>1. ~At(r, "unsent")
  BY DEF Writes, WritesNothing, WritesActor, WritesFollow, WritesAccept,
         WritesReject, Deletes, At
<1>2. ASSUME NEW q \in Requests
      PROVE  ~At(q, "unsent")' => req'[q].user \in Names /\ req'[q].actor \in Actors
  BY <1>1, MovesFrame DEF Sent, At
<1>3. ASSUME NEW q \in (accepts \cup rejects \cup removals)'
      PROVE  q \in accepts \cup rejects \cup removals \/ (q = r /\ At(r, "answered")')
  BY <1>3 DEF tables, Writes, WritesNothing, WritesActor, WritesFollow,
              WritesAccept, WritesReject, Deletes, At
<1>4. ~At(r, "answered")
  BY DEF Writes, WritesNothing, WritesActor, WritesFollow, WritesAccept,
         WritesReject, Deletes, At
<1>5. ASSUME NEW q \in Requests, q \in (accepts \cup rejects \cup removals)'
      PROVE  At(q, "answered")'
  <2>1. CASE q = r
    BY <1>3, <1>4, <1>5, <2>1 DEF Sent
  <2>2. CASE q # r
    BY <1>3, <1>5, <2>2, MovesFrame DEF Sent, At
  <2>. QED
    BY <2>1, <2>2
<1>. QED
  BY <1>2, <1>5 DEF Sent

LEMMA HandlerUserInHand ==
    ASSUME TypeOK, UserInHand, NEW r \in Requests, Moves(r), Writes(r)
    PROVE  UserInHand'
<1>1. req'[r].step \in Resolved => req[r].user \in Bridged
  BY DEF UserInHand, Resolved, At, Failed, Writes, WritesNothing, WritesActor,
         WritesFollow, WritesAccept, WritesReject, Deletes
<1>. QED
  BY <1>1, MovesFrame DEF UserInHand

LEMMA HandlerActorInHand ==
    ASSUME TypeOK, Sent, ActorInHand, NEW r \in Requests, HandleInbox(r),
           Moves(r), Writes(r)
    PROVE  ActorInHand'
<1>1. actors \subseteq actors'
  BY DEF tables, Writes, WritesNothing, WritesActor, WritesFollow,
         WritesAccept, WritesReject, Deletes
<1>2. ASSUME req'[r].step \in {"insert", "accept", "reject", "delete"}
      PROVE  req[r].actor \in actors'
  BY <1>1, <1>2 DEF ActorInHand, At, Failed, tables, Writes, WritesNothing,
                    WritesActor, WritesFollow, WritesAccept, WritesReject, Deletes
<1>. QED
  BY <1>1, <1>2, MovesFrame DEF ActorInHand

LEMMA HandlerTasks ==
    ASSUME TypeOK, Sent, UserInHand, ActorInHand, TasksFindTheirActor,
           NEW r \in Requests, Moves(r), Writes(r)
    PROVE  TasksFindTheirActor'
<1>1. actors \subseteq actors'
  BY DEF tables, Writes, WritesNothing, WritesActor, WritesFollow,
         WritesAccept, WritesReject, Deletes
<1>2. ASSUME NEW q \in (accepts \cup rejects)'
      PROVE  req'[q].actor \in actors'
  <2>1. q \in Requests
    BY <1>2, HandlerType DEF TypeOK
  <2>2. q \in accepts \cup rejects \/ (q = r /\ req[r].step \in {"accept", "reject"})
    BY <1>2 DEF tables, Writes, WritesNothing, WritesActor, WritesFollow,
                WritesAccept, WritesReject, Deletes, At
  <2>. QED
    BY <1>1, <2>1, <2>2, MovesFrame DEF ActorInHand, TasksFindTheirActor
<1>3. ASSUME NEW p \in followers'
      PROVE  p[2] \in actors'
  <2>1. p \in followers \/ (p = pair(r) /\ At(r, "insert"))
    BY <1>3 DEF tables, Writes, WritesNothing, WritesActor, WritesFollow,
                WritesAccept, WritesReject, Deletes
  <2>. QED
    BY <1>1, <2>1 DEF ActorInHand, TasksFindTheirActor, At, pair
<1>. QED
  BY <1>2, <1>3 DEF TasksFindTheirActor

\* The row that a pair has in the end: an old one of an untouched pair, or the
\* one just stored.
LEMMA RowsAfter ==
    ASSUME TypeOK, Sent, UserInHand, NEW r \in Requests, Writes(r), NEW p \in followers'
    PROVE  \/ p \in followers /\ storedBy'[p] = storedBy[p]
           \/ WritesFollow(r) /\ p = pair(r) /\ storedBy'[p] = r
<1>1. CASE WritesFollow(r)
  <2>1. pair(r) \in Pairs
    BY <1>1, PairType DEF WritesFollow, Sent, UserInHand, Resolved, At
  <2>. QED
    BY <1>1, <2>1 DEF WritesFollow, TypeOK
<1>2. CASE ~WritesFollow(r)
  BY <1>2 DEF tables, Writes, WritesNothing, WritesActor, WritesAccept,
              WritesReject, Deletes
<1>. QED
  BY <1>1, <1>2

LEMMA HandlerStored ==
    ASSUME TypeOK, Sent, UserInHand, StoredByRequest, NEW r \in Requests, Moves(r), Writes(r)
    PROVE  StoredByRequest'
<1>. SUFFICES ASSUME NEW p \in followers'
              PROVE  /\ storedBy'[p] \in Requests
                     /\ req'[storedBy'[p]].step \in {"accept", "cut", "answered"}
                     /\ pair(storedBy[p])' = p
  BY DEF StoredByRequest
<1>1. CASE p \in followers /\ storedBy'[p] = storedBy[p]
  <2>. DEFINE q == storedBy[p]
  <2>1. /\ q \in Requests
        /\ req[q].step \in {"accept", "cut", "answered"}
        /\ pair(q) = p
    BY <1>1 DEF StoredByRequest
  <2>2. CASE q # r
    BY <1>1, <2>1, <2>2, MovesFrame DEF pair
  <2>3. CASE q = r
    <3>1. At(r, "accept")
      BY <2>1, <2>3 DEF Writes, WritesNothing, WritesActor, WritesFollow,
                        WritesAccept, WritesReject, Deletes, At
    <3>2. req'[r].step = "answered"
      BY <3>1 DEF Writes, WritesNothing, WritesActor, WritesFollow,
                  WritesAccept, WritesReject, Deletes, At, Failed
    <3>. QED
      BY <1>1, <2>1, <2>3, <3>2, MovesFrame DEF pair
  <2>. QED
    BY <2>2, <2>3
<1>2. CASE WritesFollow(r) /\ p = pair(r) /\ storedBy'[p] = r
  BY <1>2, MovesFrame DEF WritesFollow, Failed, pair
<1>. QED
  BY <1>1, <1>2, RowsAfter

LEMMA HandlerStranded ==
    ASSUME TypeOK, Sent, UserInHand, StoredByRequest, StrandedOnlyByFailure,
           NEW r \in Requests, Moves(r), Writes(r)
    PROVE  StrandedOnlyByFailure'
<1>. SUFFICES ASSUME NEW p \in followers'
              PROVE  \/ storedBy'[p] \in accepts'
                     \/ req'[storedBy'[p]].step \in {"accept", "cut"}
                     \/ Failed(storedBy'[p])
  BY DEF StrandedOnlyByFailure, At, Failed
<1>1. CASE p \in followers /\ storedBy'[p] = storedBy[p]
  <2>. DEFINE q == storedBy[p]
  <2>1. /\ q \in Requests
        /\ req[q].step \in {"accept", "cut", "answered"}
    BY <1>1 DEF StoredByRequest
  <2>2. accepts \subseteq accepts'
    BY DEF tables, Writes, WritesNothing, WritesActor, WritesFollow,
           WritesAccept, WritesReject, Deletes
  <2>3. CASE q # r
    BY <1>1, <2>1, <2>2, <2>3, MovesFrame DEF StrandedOnlyByFailure, At, Failed
  <2>4. CASE q = r
    <3>1. At(r, "accept")
      BY <2>1, <2>4 DEF Writes, WritesNothing, WritesActor, WritesFollow,
                        WritesAccept, WritesReject, Deletes, At
    <3>2. r \in accepts' \/ Failed(r)
      BY <3>1 DEF Writes, WritesNothing, WritesActor, WritesFollow,
                  WritesAccept, WritesReject, Deletes, At, Failed
    <3>. QED
      BY <1>1, <2>4, <3>2
  <2>. QED
    BY <2>3, <2>4
<1>2. CASE WritesFollow(r) /\ p = pair(r) /\ storedBy'[p] = r
  BY <1>2 DEF WritesFollow
<1>. QED
  BY <1>1, <1>2, RowsAfter

-----------------------------------------------------------------------------
(* Invariance. *)

\* The initial state.
LEMMA InitInv == Init => IInv
<1>. SUFFICES ASSUME Init PROVE IInv
  OBVIOUS
<1>1. TypeOK
  <2>1. req \in [Requests -> Request]
    BY DEF Init, Request, Statuses, Steps, Kinds, NoStatus
  <2>2. storedBy \in [Pairs -> Requests \cup {NoRequest}]
    BY DEF Init
  <2>. QED
    BY <2>1, <2>2 DEF Init, TypeOK, Request, Statuses
<1>2. \A r \in Requests : req[r].step = "unsent"
  BY DEF Init
<1>. QED
  BY <1>1, <1>2
  DEF Init, IInv, Sent, UserInHand, Resolved, ActorInHand,
      TasksFindTheirActor, StoredByRequest, StrandedOnlyByFailure, At

\* A request that arrives has done nothing yet.
LEMMA ReceiveInv ==
    ASSUME IInv, NEW r \in Requests, Receive(r)
    PROVE  IInv'
<1>1. PICK kind \in Kinds, u \in Names, a \in Actors :
        req' = [req EXCEPT ![r] = [step |-> "received", kind |-> kind,
                                   user |-> u, actor |-> a,
                                   status |-> NoStatus]]
  BY DEF Receive
<1>2. At(r, "unsent") /\ UNCHANGED tables
  BY DEF Receive
<1>3. req \in [Requests -> Request]
  BY DEF IInv, TypeOK, Request, Statuses
<1>4. /\ req'[r] = [step |-> "received", kind |-> kind, user |-> u,
                    actor |-> a, status |-> NoStatus]
      /\ \A q \in Requests \ {r} : req'[q] = req[q]
  BY <1>1, <1>3
<1>5. req' \in [Requests -> Request]
  BY <1>1, <1>3 DEF Request, Steps, Statuses
<1>6. TypeOK'
  BY <1>2, <1>5 DEF IInv, TypeOK, Request, Statuses, tables
<1>7. r \notin accepts \cup rejects \cup removals
  BY <1>2 DEF IInv, Sent, At
<1>8. \A p \in followers : storedBy[p] # r
  BY <1>2 DEF IInv, StoredByRequest, At
<1>9. Sent'
  BY <1>2, <1>4, <1>7 DEF IInv, Sent, At, tables
<1>10. UserInHand' /\ ActorInHand'
  BY <1>2, <1>4 DEF IInv, UserInHand, Resolved, ActorInHand, tables
<1>11. TasksFindTheirActor'
  BY <1>2, <1>4, <1>7 DEF IInv, TypeOK, TasksFindTheirActor, tables
<1>12. StoredByRequest'
  BY <1>2, <1>4, <1>8 DEF IInv, StoredByRequest, pair, tables
<1>13. StrandedOnlyByFailure'
  BY <1>2, <1>4, <1>8 DEF IInv, StoredByRequest, StrandedOnlyByFailure, At, tables
<1>. QED
  BY <1>6, <1>9, <1>10, <1>11, <1>12, <1>13 DEF IInv

\* A crash only cuts requests.
LEMMA CrashMoves ==
    ASSUME TypeOK, Crash
    PROVE  /\ UNCHANGED tables
           /\ req' \in [Requests -> Request]
           /\ \A r \in Requests :
                /\ req'[r].user = req[r].user
                /\ req'[r].actor = req[r].actor
                /\ IF r \in InFlight THEN req'[r].step = "cut"
                                     ELSE req'[r] = req[r]
<1>1. req \in [Requests -> Request]
  BY DEF TypeOK, Request, Statuses
<1>2. ASSUME NEW r \in Requests
      PROVE  [req[r] EXCEPT !.step = "cut"] \in Request
  BY <1>1 DEF Request, Steps
<1>3. req' = [r \in Requests |->
                IF r \in InFlight THEN [req[r] EXCEPT !.step = "cut"] ELSE req[r]]
  BY DEF Crash
<1>4. req' \in [Requests -> Request]
  BY <1>1, <1>2, <1>3
<1>. QED
  BY <1>1, <1>3, <1>4 DEF Crash, Request

LEMMA CrashInv ==
    ASSUME IInv, Crash
    PROVE  IInv'
<1>1. /\ UNCHANGED tables
      /\ req' \in [Requests -> Request]
      /\ \A r \in Requests :
            /\ req'[r].user = req[r].user
            /\ req'[r].actor = req[r].actor
            /\ IF r \in InFlight THEN req'[r].step = "cut"
                                 ELSE req'[r] = req[r]
  BY CrashMoves DEF IInv
<1>2. TypeOK'
  BY <1>1 DEF IInv, TypeOK, Request, Statuses, tables
<1>3. \A r \in Requests : r \in InFlight <=> ~(req[r].step \in {"unsent", "answered", "cut"})
  BY DEF InFlight
<1>4. Sent'
  BY <1>1, <1>3 DEF IInv, Sent, At, tables
<1>5. UserInHand' /\ ActorInHand'
  BY <1>1 DEF IInv, UserInHand, Resolved, ActorInHand, tables
<1>6. TasksFindTheirActor'
  BY <1>1 DEF IInv, TypeOK, TasksFindTheirActor, tables
<1>7. StoredByRequest'
  BY <1>1 DEF IInv, StoredByRequest, pair, tables
<1>8. StrandedOnlyByFailure'
  BY <1>1, <1>3 DEF IInv, StoredByRequest, StrandedOnlyByFailure, At, tables
<1>. QED
  BY <1>2, <1>4, <1>5, <1>6, <1>7, <1>8 DEF IInv

LEMMA HandlerInv ==
    ASSUME IInv, NEW r \in Requests, HandleInbox(r)
    PROVE  IInv'
<1>1. TypeOK /\ Sent /\ UserInHand /\ ActorInHand /\ TasksFindTheirActor
      /\ StoredByRequest /\ StrandedOnlyByFailure
  BY DEF IInv
<1>2. Moves(r) /\ Writes(r)
  BY <1>1, HandlerMoves, HandlerWrites
<1>. QED
  BY <1>1, <1>2, HandlerType, HandlerSent, HandlerUserInHand,
     HandlerActorInHand, HandlerTasks, HandlerStored, HandlerStranded
  DEF IInv

LEMMA StutterInv ==
    ASSUME IInv, UNCHANGED vars
    PROVE  IInv'
BY DEF IInv, TypeOK, Sent, UserInHand, Resolved, ActorInHand, StoredByRequest,
       TasksFindTheirActor, StrandedOnlyByFailure, pair, At, vars

LEMMA NextInv == IInv /\ [Next]_vars => IInv'
<1>. SUFFICES ASSUME IInv, [Next]_vars PROVE IInv'
  OBVIOUS
<1>1. CASE Next
  BY <1>1, ReceiveInv, HandlerInv, CrashInv, StutterInv DEF Next, Over
<1>2. CASE UNCHANGED vars
  BY <1>2, StutterInv
<1>. QED
  BY <1>1, <1>2

THEOREM Invariance == Spec => []IInv
BY InitInv, NextInv, PTL DEF Spec

\* The variables have their types: HandleInbox answers with the statuses of
\* inbox.go and users.go only.
THEOREM TypeCorrect == Spec => []TypeOK
<1>1. IInv => TypeOK
  BY DEF IInv
<1>. QED
  BY <1>1, Invariance, PTL

\* Whatever the interleaving of the requests, the accept and reject handlers of
\* the worker find the actor of the follow they answer.
THEOREM ActorsAreThere == Spec => []TasksFindTheirActor
<1>1. IInv => TasksFindTheirActor
  BY DEF IInv
<1>. QED
  BY <1>1, Invariance, PTL

\* A follow is left without an accept task only by a request of Follow that
\* failed, or was cut, after its insert.
THEOREM StrandedByFailure == Spec => []StrandedOnlyByFailure
<1>1. IInv => StrandedOnlyByFailure
  BY DEF IInv
<1>. QED
  BY <1>1, Invariance, PTL

-----------------------------------------------------------------------------
(* A stranded follow. *)

\* The request that stored a stranded follow is over: nothing moves it.
LEMMA StrandedRequestIsOver ==
    ASSUME IInv, NEW p \in Pairs, Stranded(p)
    PROVE  /\ storedBy[p] \in Requests
           /\ req[storedBy[p]].step \in {"answered", "cut"}
BY DEF IInv, StoredByRequest, Stranded, At

LEMMA StrandedStays ==
    ASSUME IInv, [Next]_vars, NEW p \in Pairs, Stranded(p), p \in followers'
    PROVE  Stranded(p)'
<1>. DEFINE q == storedBy[p]
<1>1. q \in Requests /\ req[q].step \in {"answered", "cut"}
  BY StrandedRequestIsOver
<1>2. CASE UNCHANGED vars
  BY <1>2 DEF Stranded, At, vars
<1>3. ASSUME NEW r \in Requests, Receive(r)
      PROVE  Stranded(p)'
  <2>1. q # r /\ UNCHANGED tables
    BY <1>1, <1>3 DEF Receive, At
  <2>2. req'[q] = req[q]
    BY <1>1, <1>3, <2>1 DEF Receive, IInv, TypeOK
  <2>. QED
    BY <2>1, <2>2 DEF Stranded, At, tables
<1>4. ASSUME NEW r \in Requests, HandleInbox(r)
      PROVE  Stranded(p)'
  <2>1. Moves(r) /\ Writes(r)
    BY <1>4, HandlerMoves, HandlerWrites DEF IInv
  <2>2. q # r
    BY <1>1, <2>1 DEF Writes, WritesNothing, WritesActor, WritesFollow,
                      WritesAccept, WritesReject, Deletes, At
  <2>3. req'[q] = req[q]
    BY <1>1, <2>1, <2>2 DEF Moves
  <2>4. p \in followers
    BY DEF Stranded
  <2>5. storedBy'[p] = q
    BY <2>1, <2>4, RowsAfter DEF IInv, WritesFollow
  <2>6. q \notin accepts'
    BY <2>1, <2>2 DEF Stranded, tables, Writes, WritesNothing, WritesActor,
                      WritesFollow, WritesAccept, WritesReject, Deletes
  <2>. QED
    BY <2>3, <2>5, <2>6 DEF Stranded, At
<1>5. CASE Crash
  BY <1>1, <1>5, CrashMoves DEF IInv, Stranded, At, tables, InFlight
<1>. QED
  BY <1>2, <1>3, <1>4, <1>5 DEF Next, Over

\* Sending a follow again never repairs one that was stored but not accepted:
\* its row has to go first.
THEOREM RepairNeedsUndo == Spec => OnlyUndoRepairs
<1>1. IInv /\ [Next]_vars
        => [\A p \in Pairs : Stranded(p) /\ p \in followers' => Stranded(p)']_vars
  BY StrandedStays
<1>. QED
  BY <1>1, Invariance, PTL DEF Spec, OnlyUndoRepairs

-----------------------------------------------------------------------------
(* How often a follow is accepted. *)

\* The requests that accepted the pair or are about to, those that removed its
\* row, and whether the row is there.
Accepting(p) == {r \in Requests : pair(r) = p /\ (r \in accepts \/ At(r, "accept"))}
Removing(p) == {r \in removals : pair(r) = p}
Row(p) == IF p \in followers THEN 1 ELSE 0

\* Every accept needs a row of its own: there are no more accepts than rows
\* inserted, the removed ones and the one that is there.
SentFinite == IsFiniteSet({r \in Requests : ~At(r, "unsent")})

AcceptsHaveRows ==
    \A p \in Pairs :
        Cardinality(Accepting(p)) <= Cardinality(Removing(p)) + Row(p)

LEMMA Finite ==
    ASSUME IInv, SentFinite, NEW p
    PROVE  IsFiniteSet(Accepting(p)) /\ IsFiniteSet(Removing(p))
<1>. DEFINE S == {r \in Requests : ~At(r, "unsent")}
<1>1. Accepting(p) \subseteq S
  BY DEF IInv, Sent, Accepting, At
<1>2. Removing(p) \subseteq S
  BY DEF IInv, TypeOK, Sent, Removing, At
<1>. QED
  BY <1>1, <1>2, FS_Subset DEF SentFinite

LEMMA SentFiniteInv ==
    ASSUME IInv, SentFinite, [Next]_vars
    PROVE  SentFinite'
<1>. DEFINE S == {r \in Requests : ~At(r, "unsent")}
            T == {r \in Requests : req'[r].step # "unsent"}
<1>. SUFFICES IsFiniteSet(T)
  BY DEF SentFinite, At
<1>. IsFiniteSet(S)
  BY DEF SentFinite
<1>1. CASE UNCHANGED vars
  <2>1. T = S
    BY <1>1 DEF vars, At
  <2>. QED
    BY <2>1
<1>2. ASSUME NEW r \in Requests, Receive(r)
      PROVE  IsFiniteSet(T)
  <2>1. T \subseteq S \cup {r}
    BY <1>2 DEF Receive, IInv, TypeOK, At
  <2>. QED
    BY <2>1, FS_AddElement, FS_Subset
<1>3. ASSUME NEW r \in Requests, HandleInbox(r)
      PROVE  IsFiniteSet(T)
  <2>1. Moves(r) /\ Writes(r)
    BY <1>3, HandlerMoves, HandlerWrites DEF IInv
  <2>2. ~At(r, "unsent")
    BY <2>1 DEF Writes, WritesNothing, WritesActor, WritesFollow, WritesAccept,
                WritesReject, Deletes, At
  <2>3. T \subseteq S
    BY <2>1, <2>2, MovesFrame DEF At
  <2>. QED
    BY <2>3, FS_Subset
<1>4. CASE Crash
  <2>1. T \subseteq S
    BY <1>4, CrashMoves DEF IInv, InFlight, At
  <2>. QED
    BY <2>1, FS_Subset
<1>. QED
  BY <1>1, <1>2, <1>3, <1>4 DEF Next, Over

\* A step of the handler takes r into Accepting only by storing the row, and
\* adds r to Removing only by deleting it.
LEMMA HandlerAccepting ==
    ASSUME IInv, NEW r \in Requests, Moves(r), Writes(r), NEW p
    PROVE  IF WritesFollow(r) /\ pair(r) = p
           THEN Accepting(p)' \subseteq Accepting(p) \cup {r}
           ELSE Accepting(p)' \subseteq Accepting(p)
<1>1. ASSUME NEW q \in Accepting(p)', q # r
      PROVE  q \in Accepting(p)
  <2>1. q \in Requests /\ pair(q) = p /\ (q \in accepts' \/ At(q, "accept"))
    BY <1>1, MovesFrame DEF Accepting, At
  <2>2. q \in accepts' => q \in accepts
    BY <1>1 DEF tables, Writes, WritesNothing, WritesActor, WritesFollow,
                WritesAccept, WritesReject, Deletes
  <2>. QED
    BY <2>1, <2>2 DEF Accepting
<1>2. ASSUME r \in Accepting(p)', ~(WritesFollow(r) /\ pair(r) = p)
      PROVE  r \in Accepting(p)
  <2>1. pair(r) = p /\ (r \in accepts' \/ req'[r].step = "accept")
    BY <1>2, MovesFrame DEF Accepting, At
  <2>2. r \in accepts \/ At(r, "accept")
    BY <1>2, <2>1 DEF tables, Writes, WritesNothing, WritesActor, WritesFollow,
                      WritesAccept, WritesReject, Deletes
  <2>. QED
    BY <2>1, <2>2 DEF Accepting
<1>. QED
  BY <1>1, <1>2

LEMMA HandlerRemoving ==
    ASSUME IInv, NEW r \in Requests, Moves(r), Writes(r), NEW p
    PROVE  IF Deletes(r) /\ pair(r) = p /\ p \in followers
           THEN /\ Removing(p)' = Removing(p) \cup {r}
                /\ r \notin Removing(p)
           ELSE Removing(p)' = Removing(p)
<1>1. \A q \in removals' : q \in Requests /\ pair(q)' = pair(q)
  <2>1. removals' \subseteq Requests
    BY DEF IInv, TypeOK, tables, Writes, WritesNothing, WritesActor,
           WritesFollow, WritesAccept, WritesReject, Deletes
  <2>. QED
    BY <2>1, MovesFrame
<1>2. Removing(p)' = {q \in removals' : pair(q) = p}
  BY <1>1 DEF Removing
<1>3. CASE Deletes(r) /\ pair(r) = p /\ p \in followers
  <2>1. removals' = removals \cup {r}
    BY <1>3 DEF Deletes
  <2>2. r \notin removals
    BY <1>3 DEF Deletes, IInv, Sent, At
  <2>. QED
    BY <1>2, <1>3, <2>1, <2>2 DEF Removing
<1>4. CASE Deletes(r) /\ ~(pair(r) = p /\ p \in followers)
  BY <1>2, <1>4 DEF Deletes, Removing
<1>5. CASE ~Deletes(r)
  <2>1. removals' = removals
    BY <1>5 DEF tables, Writes, WritesNothing, WritesActor, WritesFollow,
                WritesAccept, WritesReject
  <2>. QED
    BY <1>2, <1>5, <2>1 DEF Removing
<1>. QED
  BY <1>3, <1>4, <1>5

LEMMA HandlerRow ==
    ASSUME NEW r \in Requests, Writes(r), NEW p
    PROVE  /\ WritesFollow(r) /\ pair(r) = p => Row(p) = 0 /\ Row(p)' = 1
           /\ Deletes(r) /\ pair(r) = p /\ p \in followers
                => Row(p) = 1 /\ Row(p)' = 0
           /\ ~(WritesFollow(r) /\ pair(r) = p)
                /\ ~(Deletes(r) /\ pair(r) = p /\ p \in followers)
                => Row(p)' = Row(p)
BY DEF Row, tables, Writes, WritesNothing, WritesActor, WritesFollow,
       WritesAccept, WritesReject, Deletes

LEMMA HandlerAccepts ==
    ASSUME IInv, SentFinite, AcceptsHaveRows, NEW r \in Requests,
           HandleInbox(r), NEW p \in Pairs
    PROVE  (Cardinality(Accepting(p)) <= Cardinality(Removing(p)) + Row(p))'
<1>1. Moves(r) /\ Writes(r)
  BY HandlerMoves, HandlerWrites DEF IInv
<1>2. IsFiniteSet(Accepting(p)) /\ IsFiniteSet(Removing(p))
  BY Finite
<1>3. /\ Cardinality(Accepting(p)) \in Nat
      /\ Cardinality(Removing(p)) \in Nat
      /\ Cardinality(Accepting(p)) <= Cardinality(Removing(p)) + Row(p)
  BY <1>2, FS_CardinalityType DEF AcceptsHaveRows
<1>4. CASE WritesFollow(r) /\ pair(r) = p
  <2>1. /\ IsFiniteSet(Accepting(p) \cup {r})
        /\ Cardinality(Accepting(p) \cup {r}) \in Nat
        /\ Cardinality(Accepting(p) \cup {r}) <= Cardinality(Accepting(p)) + 1
    BY <1>2, <1>3, FS_AddElement, FS_CardinalityType
  <2>2. Accepting(p)' \subseteq Accepting(p) \cup {r}
    BY <1>1, <1>4, HandlerAccepting
  <2>3. /\ Cardinality(Accepting(p)') \in Nat
        /\ Cardinality(Accepting(p)') <= Cardinality(Accepting(p) \cup {r})
    BY <2>1, <2>2, FS_Subset, FS_CardinalityType
  <2>4. Removing(p)' = Removing(p)
    BY <1>1, <1>4, HandlerRemoving DEF WritesFollow, Deletes, At
  <2>5. Row(p) = 0 /\ Row(p)' = 1
    BY <1>1, <1>4, HandlerRow
  <2>. QED
    BY <1>3, <2>1, <2>3, <2>4, <2>5
<1>5. CASE ~(WritesFollow(r) /\ pair(r) = p)
  <2>1. Accepting(p)' \subseteq Accepting(p)
    BY <1>1, <1>5, HandlerAccepting
  <2>2. /\ Cardinality(Accepting(p)') \in Nat
        /\ Cardinality(Accepting(p)') <= Cardinality(Accepting(p))
    BY <1>2, <2>1, FS_Subset, FS_CardinalityType
  <2>3. CASE Deletes(r) /\ pair(r) = p /\ p \in followers
    <3>1. Removing(p)' = Removing(p) \cup {r} /\ r \notin Removing(p)
      BY <1>1, <2>3, HandlerRemoving
    <3>2. Cardinality(Removing(p)') = Cardinality(Removing(p)) + 1
      BY <1>2, <3>1, FS_AddElement
    <3>3. Row(p) = 1 /\ Row(p)' = 0
      BY <1>1, <2>3, HandlerRow
    <3>. QED
      BY <1>3, <2>2, <3>2, <3>3
  <2>4. CASE ~(Deletes(r) /\ pair(r) = p /\ p \in followers)
    <3>1. Removing(p)' = Removing(p)
      BY <1>1, <2>4, HandlerRemoving
    <3>2. Row(p)' = Row(p) /\ Row(p) \in {0, 1}
      BY <1>1, <1>5, <2>4, HandlerRow DEF Row
    <3>. QED
      BY <1>3, <2>2, <3>1, <3>2
  <2>. QED
    BY <2>3, <2>4
<1>. QED
  BY <1>4, <1>5

LEMMA AcceptsHaveRowsInv ==
    ASSUME IInv, SentFinite, AcceptsHaveRows, [Next]_vars
    PROVE  AcceptsHaveRows'
<1>. SUFFICES ASSUME NEW p \in Pairs
              PROVE  (Cardinality(Accepting(p)) <= Cardinality(Removing(p)) + Row(p))'
  BY DEF AcceptsHaveRows
<1>1. /\ IsFiniteSet(Accepting(p))
      /\ Cardinality(Accepting(p)) \in Nat /\ Cardinality(Removing(p)) \in Nat
      /\ Cardinality(Accepting(p)) <= Cardinality(Removing(p)) + Row(p)
      /\ Row(p) \in {0, 1}
  BY Finite, FS_CardinalityType DEF AcceptsHaveRows, Row
<1>2. ASSUME UNCHANGED followers, Accepting(p)' \subseteq Accepting(p),
             Removing(p)' = Removing(p)
      PROVE  (Cardinality(Accepting(p)) <= Cardinality(Removing(p)) + Row(p))'
  <2>1. /\ Cardinality(Accepting(p)') \in Nat
        /\ Cardinality(Accepting(p)') <= Cardinality(Accepting(p))
    BY <1>1, <1>2, FS_Subset, FS_CardinalityType
  <2>2. Row(p)' = Row(p)
    BY <1>2 DEF Row
  <2>. QED
    BY <1>1, <1>2, <2>1, <2>2
<1>3. CASE UNCHANGED vars
  <2>1. Accepting(p)' = Accepting(p) /\ Removing(p)' = Removing(p)
    BY <1>3 DEF Accepting, Removing, pair, At, vars
  <2>. QED
    BY <1>2, <1>3, <2>1 DEF vars
<1>4. ASSUME NEW r \in Requests, Receive(r)
      PROVE  (Cardinality(Accepting(p)) <= Cardinality(Removing(p)) + Row(p))'
  <2>1. /\ UNCHANGED tables
        /\ req'[r].step = "received"
        /\ \A q \in Requests \ {r} : req'[q] = req[q]
    BY <1>4 DEF Receive, IInv, TypeOK
  <2>2. r \notin accepts \cup removals
    BY <1>4 DEF Receive, IInv, Sent, At
  <2>3. removals \subseteq Requests
    BY DEF IInv, TypeOK
  <2>4. Accepting(p)' \subseteq Accepting(p)
    BY <2>1, <2>2 DEF Accepting, pair, At, tables
  <2>5. Removing(p)' = Removing(p)
    BY <2>1, <2>2, <2>3 DEF Removing, pair, tables
  <2>. QED
    BY <1>2, <2>1, <2>4, <2>5 DEF tables
<1>5. CASE Crash
  <2>1. /\ UNCHANGED tables
        /\ \A q \in Requests : /\ pair(q)' = pair(q)
                               /\ At(q, "accept")' => At(q, "accept")
    BY <1>5, CrashMoves DEF IInv, pair, At
  <2>2. removals \subseteq Requests
    BY DEF IInv, TypeOK
  <2>3. Accepting(p)' \subseteq Accepting(p)
    BY <2>1 DEF Accepting, tables
  <2>4. Removing(p)' = Removing(p)
    BY <2>1, <2>2 DEF Removing, tables
  <2>. QED
    BY <1>2, <2>1, <2>3, <2>4 DEF tables
<1>6. ASSUME NEW r \in Requests, HandleInbox(r)
      PROVE  (Cardinality(Accepting(p)) <= Cardinality(Removing(p)) + Row(p))'
  BY <1>6, HandlerAccepts
<1>. QED
  BY <1>3, <1>4, <1>5, <1>6 DEF Next, Over

LEMMA AcceptsInit == Init => SentFinite /\ AcceptsHaveRows
<1>. SUFFICES ASSUME Init PROVE SentFinite /\ AcceptsHaveRows
  OBVIOUS
<1>1. {r \in Requests : ~At(r, "unsent")} = {}
  BY DEF Init, At
<1>2. \A p : Accepting(p) = {} /\ Removing(p) = {} /\ Row(p) = 0
  BY DEF Init, Accepting, Removing, Row, At
<1>. QED
  BY <1>1, <1>2, FS_EmptySet DEF SentFinite, AcceptsHaveRows

LEMMA AcceptsBound ==
    ASSUME IInv, SentFinite, AcceptsHaveRows
    PROVE  OneAcceptPerRow
<1>. SUFFICES ASSUME NEW p \in Pairs
              PROVE  Cardinality({r \in accepts : pair(r) = p})
                        <= 1 + Cardinality({r \in removals : pair(r) = p})
  BY DEF OneAcceptPerRow
<1>1. {r \in accepts : pair(r) = p} \subseteq Accepting(p)
  BY DEF IInv, TypeOK, Accepting
<1>2. IsFiniteSet(Accepting(p)) /\ IsFiniteSet(Removing(p))
  BY Finite
<1>3. /\ Cardinality({r \in accepts : pair(r) = p}) <= Cardinality(Accepting(p))
      /\ Cardinality({r \in accepts : pair(r) = p}) \in Nat
      /\ Cardinality(Accepting(p)) \in Nat
      /\ Cardinality(Removing(p)) \in Nat
  BY <1>1, <1>2, FS_Subset, FS_CardinalityType
<1>4. Cardinality(Accepting(p)) <= Cardinality(Removing(p)) + Row(p)
  BY DEF AcceptsHaveRows
<1>5. Row(p) \in {0, 1}
  BY DEF Row
<1>. QED
  BY <1>3, <1>4, <1>5 DEF Removing

\* A follow is accepted once per row: however many requests bring it, and
\* whichever of them fail, a second accept comes after an undo that removed
\* the first row.
THEOREM AcceptedOnce == Spec => []OneAcceptPerRow
<1>1. Init => IInv /\ SentFinite /\ AcceptsHaveRows
  BY InitInv, AcceptsInit
<1>2. IInv /\ SentFinite /\ AcceptsHaveRows /\ [Next]_vars
        => (IInv /\ SentFinite /\ AcceptsHaveRows)'
  BY NextInv, SentFiniteInv, AcceptsHaveRowsInv
<1>3. IInv /\ SentFinite /\ AcceptsHaveRows => OneAcceptPerRow
  BY AcceptsBound
<1>. QED
  BY <1>1, <1>2, <1>3, PTL DEF Spec

-----------------------------------------------------------------------------
(* The inbox implements Following. *)

\* What a request is for decides where it may be, once it is resolved.
Purposes ==
    \A r \in Requests :
        /\ req[r].step \in Resolved \cup {"user"} => req[r].kind \in {"follow", "undo"}
        /\ req[r].step \in {"insert", "accept"}
               => req[r].kind = "follow" /\ req[r].actor \in Allowed
        /\ req[r].step = "reject"
               => req[r].kind = "follow" /\ req[r].actor \notin Allowed
        /\ req[r].step = "delete" => req[r].kind = "undo"

\* A request moves on, or is answered, and is about the same.
SameAsk(r) ==
    /\ req'[r].kind = req[r].kind
    /\ req'[r].user = req[r].user
    /\ req'[r].actor = req[r].actor
    /\ \A q \in Requests \ {r} : req'[q] = req[q]

LEMMA GotoKeeps ==
    ASSUME TypeOK, NEW r \in Requests, NEW s \in Steps, Goto(r, s)
    PROVE  SameAsk(r) /\ req'[r].step = s
<1>1. req \in [Requests -> Request]
  BY DEF TypeOK, Request, Statuses
<1>2. req'[r] = [req[r] EXCEPT !.step = s] /\ \A q \in Requests \ {r} : req'[q] = req[q]
  BY GotoMoves
<1>. QED
  BY <1>1, <1>2 DEF SameAsk, Request

LEMMA AnswerKeeps ==
    ASSUME TypeOK, NEW r \in Requests, NEW status \in Statuses, Answer(r, status)
    PROVE  SameAsk(r) /\ req'[r].step = "answered" /\ req'[r].status = status
<1>1. req \in [Requests -> Request]
  BY DEF TypeOK, Request, Statuses
<1>2. req'[r] = [req[r] EXCEPT !.step = "answered", !.status = status]
  BY <1>1 DEF Answer
<1>3. req'[r].kind = req[r].kind
  BY <1>1, <1>2 DEF Request
<1>. QED
  BY <1>3, AnswerMoves DEF SameAsk

LEMMA PurposesStep ==
    ASSUME IInv, Purposes, [Next]_vars
    PROVE  Purposes'
<1>t. TypeOK
  BY DEF IInv
<1>1. ASSUME NEW r \in Requests,
             \A q \in Requests \ {r} : req'[q] = req[q],
             req'[r].step \in {"received", "answered", "cut"}
      PROVE  Purposes'
  BY <1>1 DEF Purposes, Resolved
<1>2. ASSUME NEW r \in Requests, Receive(r) PROVE Purposes'
  <2>1. req'[r].step = "received" /\ \A q \in Requests \ {r} : req'[q] = req[q]
    BY <1>2, <1>t DEF Receive, TypeOK
  <2>. QED
    BY <1>1, <2>1
<1>3. ASSUME NEW r \in Requests, NEW status \in Statuses, Answer(r, status)
      PROVE  Purposes'
  BY <1>1, <1>3, <1>t, AnswerKeeps DEF SameAsk
<1>4. ASSUME NEW r \in Requests, NEW s \in Steps, Goto(r, s),
             s \in Resolved \cup {"user"} => req[r].kind \in {"follow", "undo"},
             s \in {"insert", "accept"} => req[r].kind = "follow" /\ req[r].actor \in Allowed,
             s = "reject" => req[r].kind = "follow" /\ req[r].actor \notin Allowed,
             s = "delete" => req[r].kind = "undo"
      PROVE  Purposes'
  BY <1>4, <1>t, GotoKeeps DEF Purposes, SameAsk
<1>5. ASSUME NEW r \in Requests, HandleInbox(r) PROVE Purposes'
  <2>1. CASE \E status \in Statuses : Answer(r, status)
    BY <1>3, <2>1
  <2>2. CASE Resolve(r)
    BY <1>4, <2>2 DEF Resolve, Resolved, Steps
  <2>3. CASE GetUser(r) /\ Goto(r, "actor")
    BY <1>4, <2>3 DEF GetUser, Purposes, Resolved, Steps, At
  <2>4. CASE FetchKey(r)
    BY <1>4, <2>4 DEF FetchKey, Purposes, Resolved, Steps, At
  <2>5. CASE /\ GetActor(r) \/ CreateActor(r)
             /\ Goto(r, Proceed(r)) \/ Goto(r, "key")
    <3>1. req[r].kind \in {"follow", "undo"}
      BY <2>5 DEF GetActor, CreateActor, Purposes, Resolved, At
    <3>2. /\ Proceed(r) \in {"delete", "insert", "reject"}
          /\ Proceed(r) = "delete" => req[r].kind = "undo"
          /\ Proceed(r) = "insert" => req[r].kind = "follow" /\ req[r].actor \in Allowed
          /\ Proceed(r) = "reject" => req[r].kind = "follow" /\ req[r].actor \notin Allowed
      BY <3>1 DEF Proceed, IsGranted, canFollow
    <3>. QED
      BY <1>4, <2>5, <3>1, <3>2 DEF Steps
  <2>6. CASE StoreFollow(r) /\ Goto(r, "accept")
    BY <1>4, <2>6 DEF StoreFollow, Purposes, Resolved, Steps, At
  <2>7. ASSUME ~\E status \in Statuses : Answer(r, status)
        PROVE  \/ Resolve(r) \/ FetchKey(r)
               \/ GetUser(r) /\ Goto(r, "actor")
               \/ GetActor(r) /\ (Goto(r, Proceed(r)) \/ Goto(r, "key"))
               \/ CreateActor(r) /\ Goto(r, Proceed(r))
               \/ StoreFollow(r) /\ Goto(r, "accept")
    <3>1. ~Refuse(r)
      BY <2>7, RefuseAnswers
    <3>2. GetUser(r) => Goto(r, "actor")
      BY <2>7 DEF GetUser, Statuses
    <3>3. GetActor(r) => Goto(r, Proceed(r)) \/ Goto(r, "key")
      BY DEF GetActor
    <3>4. CreateActor(r) => Goto(r, Proceed(r))
      BY <2>7 DEF CreateActor, Statuses
    <3>5. StoreFollow(r) => Goto(r, "accept")
      BY <2>7 DEF StoreFollow, Statuses
    <3>6. ~(\/ EnqueueReject(r) \/ EnqueueAccept(r) \/ DeleteFollow(r)
            \/ CallFails(r) \/ WriteDoneButFails(r))
      BY <2>7 DEF EnqueueReject, EnqueueAccept, DeleteFollow, CallFails,
                  WriteDoneButFails, Statuses
    <3>. QED
      BY <1>5, <3>1, <3>2, <3>3, <3>4, <3>5, <3>6 DEF HandleInbox, Follow, UnFollow
  <2>. QED
    BY <2>1, <2>2, <2>3, <2>4, <2>5, <2>6, <2>7
<1>6. CASE Crash
  <2>1. \A r \in Requests : req'[r] = req[r] \/ req'[r].step = "cut"
    BY <1>6, <1>t DEF Crash, TypeOK
  <2>. QED
    BY <2>1 DEF Purposes, Resolved
<1>7. CASE UNCHANGED vars
  BY <1>7 DEF vars, Purposes
<1>. QED
  BY <1>2, <1>5, <1>6, <1>7 DEF Next, Over

\* Only one request moves, and Following sees what became of it.
LEMMA OneAsk ==
    ASSUME NEW r \in Requests, SameAsk(r)
    PROVE  /\ Promised!Alone(r)
           /\ ask[r] = View(req[r])
           /\ ask'[r] = View(req'[r])
           /\ ask'[r].wants = ask[r].wants
           /\ ask'[r].user = ask[r].user
           /\ ask'[r].actor = ask[r].actor
BY DEF SameAsk, Promised!Alone, ask, View

LEMMA Ended ==
    ASSUME TypeOK, NEW r \in Requests, NEW status \in Statuses, Answer(r, status)
    PROVE  /\ Promised!Alone(r)
           /\ ask'[r].status = status
           /\ Promised!Become(r, "over", status)
           /\ \A S : status \in S => Promised!End(r, S)
<1>1. SameAsk(r) /\ req'[r].step = "answered" /\ req'[r].status = status
  BY AnswerKeeps
<1>a. /\ ask'[r] = View(req'[r])
      /\ ask'[r].wants = ask[r].wants
      /\ ask'[r].user = ask[r].user
      /\ ask'[r].actor = ask[r].actor
  BY <1>1, OneAsk
<1>b. /\ View(req'[r]).stage = "over"
      /\ View(req'[r]).status = status
      /\ View(req'[r]) = Promised!Asked("over", View(req'[r]).wants, View(req'[r]).user,
                                        View(req'[r]).actor, status)
  BY <1>1 DEF View, Promised!Asked
<1>2. ask'[r].stage = "over" /\ ask'[r].status = status
  BY <1>a, <1>b
<1>3. ask'[r] = Promised!Asked("over", ask[r].wants, ask[r].user, ask[r].actor, status)
  BY <1>a, <1>b
<1>. QED
  BY <1>1, <1>2, <1>3, OneAsk DEF Promised!Become, Promised!End

\* What a resolved request asks.
LEMMA AsksOf ==
    ASSUME NEW r \in Requests
    PROVE  /\ ask[r].user = req[r].user /\ ask[r].actor = req[r].actor
           /\ Promised!Pair(r) = pair(r)
           /\ req[r].kind \in {"follow", "undo"} => ask[r].wants = req[r].kind
           /\ req[r].step \notin {"unsent", "accept", "answered", "cut"}
                  => ask[r].stage = "open"
           /\ At(r, "accept") => ask[r].stage = "stored"
           /\ At(r, "unsent") => ask[r].stage = "unsent"
BY DEF ask, View, Promised!Pair, pair, At

\* Before the first write, and after a failed one, nothing is done.
LEMMA RefusedSeen ==
    ASSUME TypeOK, NEW r \in Requests, NEW status \in Statuses, Answer(r, status),
           req[r].step \notin {"unsent", "accept", "answered", "cut"},
           \/ status \in {400, 403, 404, 500}
           \/ status = 202 /\ req[r].kind \notin {"follow", "undo"},
           UNCHANGED <<followers, accepts, rejects>>
    PROVE  Promised!Next
<1>1. ask[r].wants = IF req[r].kind \in {"follow", "undo"} THEN req[r].kind ELSE "nothing"
  BY DEF ask, View
<1>. DEFINE S == {400, 403, 404, 500} \cup IF ask[r].wants = "nothing" THEN {202} ELSE {}
<1>2. status \in S
  BY <1>1
<1>. HIDE DEF S
<1>3. Promised!Alone(r) /\ Promised!End(r, S) /\ ask[r].stage = "open"
  BY <1>2, Ended, AsksOf
<1>4. Promised!Refuse(r)
  BY <1>3 DEF Promised!Refuse, S
<1>. QED
  BY <1>3, <1>4 DEF Promised!Next, Promised!Advance

\* A request that goes from one call to the next, up to its writes, is not seen.
LEMMA Unseen ==
    ASSUME TypeOK, NEW r \in Requests, NEW s \in Steps, Goto(r, s),
           req[r].step \notin {"unsent", "accept", "answered", "cut"},
           s \notin {"unsent", "accept", "answered", "cut"},
           UNCHANGED <<followers, accepts, rejects>>
    PROVE  UNCHANGED Promised!following
<1>1. SameAsk(r) /\ req'[r].step = s
  BY GotoKeeps
<1>2. View(req'[r]) = View(req[r])
  BY <1>1 DEF SameAsk, View
<1>3. ask' = ask
  BY <1>1, <1>2 DEF SameAsk, ask
<1>. QED
  BY <1>3 DEF Promised!following

\* The calls that change no table Following has.
LEMMA CallSeen ==
    ASSUME IInv, Purposes, NEW r \in Requests,
           \/ Refuse(r) \/ Resolve(r) \/ GetUser(r) \/ GetActor(r) \/ FetchKey(r)
           \/ CreateActor(r) \/ CallFails(r)
    PROVE  [Promised!Next]_(Promised!following)
<1>t. TypeOK
  BY DEF IInv
<1>1. CASE \/ Resolve(r) \/ GetActor(r) \/ FetchKey(r)
           \/ GetUser(r) /\ Goto(r, "actor")
           \/ CreateActor(r) /\ Goto(r, Proceed(r))
  <2>1. Proceed(r) \in {"delete", "insert", "reject"}
    BY DEF Proceed
  <2>2. PICK s \in {"user", "actor", "key", "create", "delete", "insert", "reject"} :
            Goto(r, s)
    BY <1>1, <2>1 DEF Resolve, GetActor, FetchKey
  <2>3. req[r].step \notin {"unsent", "accept", "answered", "cut"}
        /\ UNCHANGED <<followers, accepts, rejects>>
    BY <1>1 DEF Resolve, GetActor, FetchKey, GetUser, CreateActor, tables, At
  <2>4. s \in Steps
    BY DEF Steps
  <2>. QED
    BY <1>t, <2>2, <2>3, <2>4, Unseen
<1>2. CASE Refuse(r)
  <2>1. PICK status \in Early \cup Triage(req[r].kind) : Answer(r, status)
    BY <1>2 DEF Refuse
  <2>2. \/ status \in {400, 403, 404, 500}
        \/ status = 202 /\ req[r].kind \notin {"follow", "undo"}
    BY DEF Early, Triage
  <2>3. UNCHANGED <<followers, accepts, rejects>> /\ At(r, "received")
    BY <1>2 DEF Refuse, tables
  <2>. QED
    BY <1>t, <2>1, <2>2, <2>3, RefusedSeen DEF Statuses, At
<1>3. CASE /\ \E status \in {400, 500} : Answer(r, status)
           /\ \/ GetUser(r) \/ CreateActor(r)
              \/ CallFails(r) /\ ~At(r, "accept")
  <2>1. UNCHANGED <<followers, accepts, rejects>>
    BY <1>3 DEF GetUser, CreateActor, CallFails, tables
  <2>2. req[r].step \notin {"unsent", "accept", "answered", "cut"}
    BY <1>3 DEF GetUser, CreateActor, CallFails, At
  <2>. QED
    BY <1>3, <1>t, <2>1, <2>2, RefusedSeen DEF Statuses
<1>4. CASE CallFails(r) /\ At(r, "accept")
  <2>1. Answer(r, 500) /\ UNCHANGED <<followers, accepts, rejects>>
    BY <1>4 DEF CallFails, tables
  <2>2. Promised!Alone(r) /\ Promised!End(r, {500}) /\ ask[r].stage = "stored"
    BY <1>4, <1>t, <2>1, Ended, AsksOf DEF Statuses
  <2>3. Promised!Strand(r)
    BY <2>1, <2>2 DEF Promised!Strand
  <2>. QED
    BY <2>2, <2>3 DEF Promised!Next, Promised!Advance
<1>5. GetUser(r) => Goto(r, "actor") \/ \E status \in {400, 500} : Answer(r, status)
  BY DEF GetUser
<1>6. CreateActor(r) => Goto(r, Proceed(r)) \/ \E status \in {400, 500} : Answer(r, status)
  BY DEF CreateActor
<1>7. CallFails(r) => \E status \in {400, 500} : Answer(r, status)
  BY DEF CallFails
<1>. DEFINE Answered == \E status \in {400, 500} : Answer(r, status)
<1>. HIDE DEF Answered
<1>8. CASE GetUser(r)
  <2>1. Goto(r, "actor") \/ Answered
    BY <1>5, <1>8 DEF Answered
  <2>. QED
    BY <1>1, <1>3, <1>8, <2>1 DEF Answered
<1>9. CASE CreateActor(r)
  <2>1. Goto(r, Proceed(r)) \/ Answered
    BY <1>6, <1>9 DEF Answered
  <2>. QED
    BY <1>1, <1>3, <1>9, <2>1 DEF Answered
<1>10. CASE CallFails(r)
  BY <1>3, <1>4, <1>7, <1>10
<1>. QED
  BY <1>1, <1>2, <1>8, <1>9, <1>10

\* The four writes, whether or not their caller learns that they were done.
LEMMA StoreSeen ==
    ASSUME IInv, Purposes, NEW r \in Requests, At(r, "insert"), AddActors(r),
           Goto(r, "accept") \/ Answer(r, 500), UNCHANGED <<accepts, rejects>>
    PROVE  Promised!Next
<1>t. TypeOK
  BY DEF IInv
<1>1. /\ req[r].kind = "follow" /\ req[r].actor \in Allowed /\ req[r].user \in Bridged
  BY DEF Purposes, IInv, UserInHand, Resolved, At
<1>2. /\ Promised!Asks(r, "follow") /\ ask[r].actor \in Allowed
      /\ Promised!Pair(r) = pair(r)
  BY <1>1, AsksOf DEF Promised!Asks, At
<1>3. CASE Goto(r, "accept")
  <2>1. SameAsk(r) /\ req'[r].step = "accept"
    BY <1>3, <1>t, GotoKeeps DEF Steps
  <2>2. Promised!Alone(r) /\ ask'[r] = View(req'[r]) /\ ask[r].wants = ask'[r].wants
        /\ ask[r].user = ask'[r].user /\ ask[r].actor = ask'[r].actor
    BY <2>1, OneAsk
  <2>3. View(req'[r]) = Promised!Asked("stored", View(req'[r]).wants, View(req'[r]).user,
                                      View(req'[r]).actor, 0)
    BY <2>1 DEF View, Promised!Asked, NoStatus
  <2>4. Promised!Become(r, "stored", Promised!NoAnswer)
    BY <2>2, <2>3 DEF Promised!Become, Promised!NoAnswer
  <2>5. Promised!Store(r)
    BY <1>2, <2>4 DEF Promised!Store, AddActors
  <2>. QED
    BY <2>2, <2>5 DEF Promised!Next, Promised!Advance
<1>4. CASE Answer(r, 500)
  <2>1. Promised!Alone(r) /\ Promised!End(r, {500})
    BY <1>4, <1>t, Ended DEF Statuses
  <2>2. Promised!Store(r)
    BY <1>2, <2>1 DEF Promised!Store, AddActors
  <2>. QED
    BY <2>1, <2>2 DEF Promised!Next, Promised!Advance
<1>. QED
  BY <1>3, <1>4

LEMMA AcceptSeen ==
    ASSUME IInv, NEW r \in Requests, At(r, "accept"), accepts' = accepts \cup {r},
           NEW status \in {202, 500}, Answer(r, status), UNCHANGED <<followers, rejects>>
    PROVE  Promised!Next
<1>1. Promised!Alone(r) /\ Promised!End(r, {202, 500}) /\ ask[r].stage = "stored"
  BY Ended, AsksOf DEF Statuses, IInv
<1>2. Promised!Accept(r)
  BY <1>1 DEF Promised!Accept
<1>. QED
  BY <1>1, <1>2 DEF Promised!Next, Promised!Advance

LEMMA RejectSeen ==
    ASSUME IInv, Purposes, NEW r \in Requests, At(r, "reject"), rejects' = rejects \cup {r},
           NEW status \in {403, 500}, Answer(r, status), UNCHANGED <<followers, accepts>>
    PROVE  Promised!Next
<1>1. /\ req[r].kind = "follow" /\ req[r].actor \notin Allowed /\ req[r].user \in Bridged
  BY DEF Purposes, IInv, UserInHand, Resolved, At
<1>2. Promised!Asks(r, "follow") /\ ask[r].actor \notin Allowed
  BY <1>1, AsksOf DEF Promised!Asks, At
<1>3. Promised!Alone(r) /\ Promised!End(r, {403, 500})
  BY Ended DEF Statuses, IInv
<1>4. Promised!Reject(r)
  BY <1>2, <1>3 DEF Promised!Reject
<1>. QED
  BY <1>3, <1>4 DEF Promised!Next, Promised!Advance

LEMMA RemoveSeen ==
    ASSUME IInv, Purposes, NEW r \in Requests, At(r, "delete"), RemoveActors(r),
           NEW status \in {202, 500}, Answer(r, status), UNCHANGED <<accepts, rejects>>
    PROVE  Promised!Next
<1>1. req[r].kind = "undo" /\ req[r].user \in Bridged
  BY DEF Purposes, IInv, UserInHand, Resolved, At
<1>2. Promised!Asks(r, "undo") /\ Promised!Pair(r) = pair(r)
  BY <1>1, AsksOf DEF Promised!Asks, At
<1>3. Promised!Alone(r) /\ Promised!End(r, {202, 500})
  BY Ended DEF Statuses, IInv
<1>4. Promised!Remove(r)
  BY <1>2, <1>3 DEF Promised!Remove, RemoveActors
<1>. QED
  BY <1>3, <1>4 DEF Promised!Next, Promised!Advance

LEMMA HandlerSeen ==
    ASSUME IInv, Purposes, NEW r \in Requests, HandleInbox(r)
    PROVE  [Promised!Next]_(Promised!following)
<1>t. TypeOK
  BY DEF IInv
<1>1. CASE \/ Refuse(r) \/ Resolve(r) \/ GetUser(r) \/ GetActor(r) \/ FetchKey(r)
           \/ CreateActor(r) \/ CallFails(r)
  BY <1>1, CallSeen
<1>2. CASE StoreFollow(r)
  <2>1. CASE pair(r) \in followers /\ Answer(r, 500) /\ UNCHANGED followers
    <3>1. UNCHANGED <<followers, accepts, rejects>> /\ At(r, "insert")
      BY <1>2, <2>1 DEF StoreFollow
    <3>. QED
      BY <1>t, <2>1, <3>1, RefusedSeen DEF Statuses, At
  <2>. QED
    BY <1>2, <2>1, StoreSeen DEF StoreFollow
<1>3. CASE EnqueueAccept(r)
  BY <1>3, AcceptSeen DEF EnqueueAccept
<1>4. CASE EnqueueReject(r)
  BY <1>4, RejectSeen DEF EnqueueReject
<1>5. CASE DeleteFollow(r)
  BY <1>5, RemoveSeen DEF DeleteFollow
<1>6. CASE WriteDoneButFails(r)
  <2>1. CASE At(r, "create") /\ UNCHANGED <<followers, accepts, rejects>>
    BY <1>6, <1>t, <2>1, RefusedSeen DEF WriteDoneButFails, Statuses, At
  <2>. QED
    BY <1>6, <2>1, StoreSeen, AcceptSeen, RejectSeen, RemoveSeen DEF WriteDoneButFails
<1>. QED
  BY <1>1, <1>2, <1>3, <1>4, <1>5, <1>6 DEF HandleInbox, Follow, UnFollow

LEMMA ArriveSeen ==
    ASSUME IInv, NEW r \in Requests, Receive(r)
    PROVE  Promised!Next
<1>t. req \in [Requests -> Request]
  BY DEF IInv, TypeOK, Request, Statuses
<1>1. PICK kind \in Kinds, u \in Names, a \in Actors :
        req' = [req EXCEPT ![r] = [step |-> "received", kind |-> kind, user |-> u,
                                   actor |-> a, status |-> NoStatus]]
  BY DEF Receive
<1>2. \A q \in Requests \ {r} : req'[q] = req[q]
  BY <1>1, <1>t
<1>3. req'[r] = [step |-> "received", kind |-> kind, user |-> u, actor |-> a,
                 status |-> NoStatus]
  BY <1>1, <1>t
<1>4. Promised!Alone(r) /\ ask'[r] = View(req'[r])
  BY <1>2 DEF Promised!Alone, ask
<1>5. View(req'[r]) = [stage |-> "open",
                       wants |-> IF kind \in {"follow", "undo"} THEN kind ELSE "nothing",
                       user |-> u, actor |-> a, status |-> NoStatus]
  BY <1>3 DEF View
<1>6. ask[r].stage = "unsent"
  BY AsksOf DEF Receive
<1>7. Promised!Arrive(r)
  BY <1>4, <1>5, <1>6
  DEF Receive, tables, Promised!Arrive, Promised!NoAnswer, NoStatus, Names
<1>. QED
  BY <1>4, <1>7 DEF Promised!Next, Promised!Advance

\* Crash ends exactly the requests that are open or stored.
LEMMA StopSeen ==
    ASSUME IInv, Crash
    PROVE  Promised!Next
<1>t. req \in [Requests -> Request]
  BY DEF IInv, TypeOK, Request, Statuses
<1>1. ASSUME NEW r \in Requests
      PROVE  ask'[r] = IF ask[r].stage \in {"open", "stored"}
                       THEN Promised!Asked("over", ask[r].wants, ask[r].user,
                                           ask[r].actor, Promised!NoAnswer)
                       ELSE ask[r]
  <2>1. ask[r] = View(req[r]) /\ ask'[r] = View(req'[r])
    BY DEF ask
  <2>2. CASE req[r].step \notin {"unsent", "answered", "cut"}
    <3>1. req'[r] = [req[r] EXCEPT !.step = "cut"]
      BY <2>2 DEF Crash, InFlight
    <3>2. req[r] \in Request
      BY <1>t
    <3>3. req'[r].step = "cut" /\ req'[r].kind = req[r].kind
          /\ req'[r].user = req[r].user /\ req'[r].actor = req[r].actor
      BY <3>1, <3>2 DEF Request
    <3>4. View(req'[r]) = Promised!Asked("over", View(req[r]).wants, View(req[r]).user,
                                        View(req[r]).actor, Promised!NoAnswer)
      BY <3>3 DEF View, Promised!Asked, Promised!NoAnswer, NoStatus
    <3>5. View(req[r]).stage \in {"open", "stored"}
      BY <2>2 DEF View
    <3>. QED
      BY <2>1, <3>4, <3>5
  <2>3. CASE req[r].step \in {"unsent", "answered", "cut"}
    <3>1. req'[r] = req[r]
      BY <2>3 DEF Crash, InFlight
    <3>2. View(req[r]).stage \notin {"open", "stored"}
      BY <2>3 DEF View
    <3>. QED
      BY <2>1, <3>1, <3>2
  <2>. QED
    BY <2>2, <2>3
<1>2. ask' = [r \in Requests |-> ask'[r]]
  BY DEF ask
<1>3. Promised!Stop
  BY <1>1, <1>2 DEF Crash, tables, Promised!Stop
<1>. QED
  BY <1>3 DEF Promised!Next

\* The inbox implements Following, for any requests, users and actors: a
\* request is as good as atomic, and its answer tells what was done.
THEOREM InboxImplementsFollowing == Spec => FollowsAsPromised
<1>1. Init => Promised!Init /\ Purposes
  <2>. SUFFICES ASSUME Init PROVE Promised!Init /\ Purposes
    OBVIOUS
  <2>1. ASSUME NEW r \in Requests
        PROVE  View(req[r]) = Promised!Asked("unsent", "nothing", "none", "none",
                                            Promised!NoAnswer)
    BY DEF Init, View, Promised!Asked, Promised!NoAnswer, NoStatus
  <2>2. ask = [r \in Requests |-> Promised!Asked("unsent", "nothing", "none", "none",
                                                Promised!NoAnswer)]
    BY <2>1 DEF ask
  <2>. QED
    BY <2>2 DEF Init, Promised!Init, Purposes, Resolved
<1>2. IInv /\ Purposes /\ [Next]_vars => [Promised!Next]_(Promised!following)
  <2>. SUFFICES ASSUME IInv, Purposes, [Next]_vars
                PROVE  [Promised!Next]_(Promised!following)
    OBVIOUS
  <2>1. CASE UNCHANGED vars
    BY <2>1 DEF vars, Promised!following, ask, View
  <2>. QED
    BY <2>1, HandlerSeen, ArriveSeen, StopSeen DEF Next, Over
<1>. QED
  BY <1>1, <1>2, Invariance, PurposesStep, PTL
  DEF Spec, FollowsAsPromised, Promised!Spec
=============================================================================
