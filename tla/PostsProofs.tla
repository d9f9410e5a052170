----------------------------- MODULE PostsProofs -----------------------------
(***************************************************************************)
(* Proofs about Posts, for any accounts, usernames and tasks.              *)
(*                                                                         *)
(* The mutex is held exactly by the task between Lock and Unlock, so that  *)
(* the signer's hash holds nothing but the request of that task; what a    *)
(* remote server answered follows from the requests that were on the wire  *)
(* and from names only ever being lost.                                    *)
(***************************************************************************)
EXTENDS Posts, TLAPS

Holding == {"write", "sign", "unlock", "failed"}

\* Who holds the mutex, what is in the hash, and who may still post.
Exclusive ==
    /\ \A t \in Tasks : step[t] \in Holding <=> mu = t
    /\ \A t \in Tasks : t \in hash <=> step[t] = "sign"
    /\ \A t \in Tasks : step[t] \in {"lock", "write", "sign"} => posts[t] < MaxPosts

\* A request signed alone, by and for the user of its task.
Alone(t) ==
    [task |-> t, keyId |-> KeyId(t), key |-> From[t], covers |-> {t},
     activity |-> Activity(t)]

WireOK == wire \subseteq {Alone(t) : t \in Tasks}

AnswersOK == PostsVerify /\ UnverifiedOnlyIfRenamed

IInv == TypeOK /\ Exclusive /\ WireOK /\ AnswersOK

-----------------------------------------------------------------------------
(* The vocabulary and the pages. *)

\* A username that is no account's id leads to its own row only.
LEMMA GetOwn ==
    ASSUME NEW username, username \notin Ids, NEW row \in Get(username)
    PROVE  row = username /\ row \in Names
<1>1. {n \in Names : IdOf[n] = username} = {}
  BY RowsAssumption
<1>. QED
  BY <1>1 DEF Get

\* An answer with status 200 is the page of a row that bears the name.
LEMMA PageAnswered ==
    ASSUME NEW url, NEW answer \in Answers(url), answer.status = 200
    PROVE  \E row \in Get(url.username) : answer.page = Page(url.route, row)
<1>1. answer \in {[status |-> 200, page |-> Page(url.route, row)] : row \in Get(url.username)}
  <2>1. answer \notin {[status |-> 500, page |-> NoPage]}
    OBVIOUS
  <2>2. answer \notin (IF url.username \in bears THEN {} ELSE {[status |-> 404, page |-> NoPage]})
    OBVIOUS
  <2>. QED
    BY <2>1, <2>2 DEF Answers
<1>. QED
  BY <1>1

\* The activity of a task names the user its key names.
LEMMA ActivityActor ==
    ASSUME NEW t \in Tasks
    PROVE  GetActorURL(Activity(t)) = URL("user", From[t])
BY DEF GetActorURL, Activity, GetAccept, GetReject, GetCreateNoteFromTweet

\* A request signed alone verifies with any page found for its key.
LEMMA OwnPageVerifies ==
    ASSUME NEW t \in Tasks, From[t] \notin Ids,
           NEW answer \in Answers(KeyId(t)), answer.status = 200
    PROVE  Verifies(Alone(t), answer.page)
<1>1. KeyId(t).username = From[t] /\ KeyId(t).route = "user"
  BY DEF KeyId, URL
<1>2. PICK row \in Get(From[t]) : answer.page = Page("user", row)
  BY <1>1, PageAnswered
<1>3. row = From[t]
  BY <1>2, GetOwn
<1>4. answer.page = GetActor(From[t])
  BY <1>2, <1>3 DEF Page
<1>5. answer.page.publicKey =
        [id |-> URL("user", From[t]), owner |-> URL("user", From[t]), pem |-> From[t]]
  BY <1>4 DEF GetActor
<1>. QED
  BY <1>5, ActivityActor DEF Verifies, Alone, KeyId

\* What the server of a remote actor answers to a request signed alone.
LEMMA AloneAnswered ==
    ASSUME NEW t \in Tasks, NEW answer \in Answers(KeyId(t)), NEW status,
           status = (IF answer.status # 200 THEN answer.status
                     ELSE IF Verifies(Alone(t), answer.page) THEN 202 ELSE 401)
    PROVE  /\ status \in {202, 401, 404, 500}
           /\ status = 401 => From[t] \in Ids
           /\ status = 404 => From[t] \notin bears
<1>1. KeyId(t).username = From[t]
  BY DEF KeyId, URL
<1>2. answer.status \in {200, 404, 500}
  BY DEF Answers
<1>3. answer.status = 404 => From[t] \notin bears
  BY <1>1 DEF Answers
<1>4. status = 401 => From[t] \in Ids
  BY <1>2, OwnPageVerifies
<1>. QED
  BY <1>2, <1>3, <1>4

-----------------------------------------------------------------------------
(* Every step keeps the invariant. *)

LEMMA InvInit == Init => IInv
<1>. SUFFICES ASSUME Init PROVE IInv
  OBVIOUS
<1>1. TypeOK
  BY BoundsAssumption DEF Init, TypeOK, Steps
<1>2. Exclusive
  BY NobodyAssumption DEF Init, Exclusive, Holding
<1>. QED
  BY <1>1, <1>2 DEF Init, IInv, WireOK, AnswersOK, PostsVerify, UnverifiedOnlyIfRenamed

\* What a task does with the signer keeps the mutex and the hash in step.
LEMMA PostStep ==
    ASSUME TypeOK, Exclusive, NEW t \in Tasks, Post(t)
    PROVE  TypeOK' /\ Exclusive' /\ answered' = answered /\ bears' = bears
<1>. USE DEF TypeOK, Exclusive, Holding, Steps, At, Goto
<1>1. CASE Begin(t)
  BY <1>1 DEF Begin
<1>2. CASE Lock(t)
  BY <1>2, NobodyAssumption DEF Lock
<1>3. CASE WriteHash(t)
  BY <1>3 DEF WriteHash
<1>4. CASE SignRequest(t)
  BY <1>4, BoundsAssumption DEF SignRequest
<1>5. CASE SignFails(t)
  BY <1>5 DEF SignFails
<1>6. CASE Unlock(t)
  BY <1>6, NobodyAssumption DEF Unlock
<1>. QED
  BY <1>1, <1>2, <1>3, <1>4, <1>5, <1>6 DEF Post

\* The request that is signed is alone in the hash.
LEMMA SignedAlone ==
    ASSUME TypeOK, Exclusive, NEW t \in Tasks, At(t, "sign")
    PROVE  Request(t) = Alone(t)
<1>1. mu = t
  BY DEF Exclusive, Holding, At
<1>2. \A s \in Tasks : s \in hash <=> s = t
  BY <1>1 DEF Exclusive, Holding, At
<1>3. hash = {t}
  BY <1>2 DEF TypeOK
<1>. QED
  BY <1>3 DEF Request, Alone

LEMMA WireStep ==
    ASSUME TypeOK, Exclusive, WireOK, [Next]_vars
    PROVE  WireOK'
<1>1. CASE wire' \subseteq wire
  BY <1>1 DEF WireOK, Alone, KeyId, Activity
<1>2. ASSUME NEW t \in Tasks, SignRequest(t)
      PROVE  WireOK'
  <2>1. wire' = wire \cup {Alone(t)}
    BY <1>2, SignedAlone DEF SignRequest
  <2>. QED
    BY <2>1 DEF WireOK
<1>3. ASSUME NEW t \in Tasks, Post(t), ~SignRequest(t)
      PROVE  wire' = wire
  BY <1>3 DEF Post, Begin, Lock, WriteHash, SignFails, Unlock
<1>4. ASSUME NEW m \in wire, Receive(m) \/ Lose(m)
      PROVE  wire' \subseteq wire
  BY <1>4 DEF Receive, Lose
<1>. QED
  BY <1>1, <1>2, <1>3, <1>4 DEF Next, Crash, Rename, vars

LEMMA InvStep == IInv /\ [Next]_vars => IInv'
<1>. SUFFICES ASSUME IInv, [Next]_vars PROVE IInv'
  OBVIOUS
<1>. USE DEF IInv
<1>1. WireOK'
  BY WireStep
<1>2. ASSUME answered' = answered, bears' \subseteq bears
      PROVE  AnswersOK'
  BY <1>2 DEF AnswersOK, PostsVerify, UnverifiedOnlyIfRenamed
<1>3. ASSUME NEW t \in Tasks, Post(t)
      PROVE  IInv'
  BY <1>1, <1>2, <1>3, PostStep
<1>4. CASE Crash
  <2>1. TypeOK' /\ Exclusive'
    BY <1>4, NobodyAssumption DEF Crash, TypeOK, Exclusive, Holding, Steps
  <2>. QED
    BY <1>1, <1>2, <1>4, <2>1 DEF Crash
<1>5. CASE Rename
  <2>1. TypeOK' /\ Exclusive'
    BY <1>5 DEF Rename, TypeOK, Exclusive
  <2>2. bears' \subseteq bears /\ answered' = answered
    BY <1>5 DEF Rename
  <2>. QED
    BY <1>1, <1>2, <2>1, <2>2
<1>6. ASSUME NEW m \in wire, Lose(m)
      PROVE  IInv'
  <2>1. TypeOK' /\ Exclusive'
    BY <1>6 DEF Lose, TypeOK, Exclusive
  <2>. QED
    BY <1>1, <1>2, <1>6, <2>1 DEF Lose
<1>7. ASSUME NEW m \in wire, Receive(m)
      PROVE  IInv'
  <2>1. PICK t \in Tasks : m = Alone(t)
    BY DEF WireOK
  <2>2. m.task = t /\ m.keyId = KeyId(t)
    BY <2>1 DEF Alone
  <2>3. PICK status : /\ answered' = answered \cup {<<t, status>>}
                      /\ status \in {202, 401, 404, 500}
                      /\ status = 401 => From[t] \in Ids
                      /\ status = 404 => From[t] \notin bears
    BY <1>7, <2>1, <2>2, AloneAnswered DEF Receive
  <2>4. TypeOK' /\ Exclusive'
    BY <1>7, <2>3 DEF Receive, TypeOK, Exclusive
  <2>5. AnswersOK'
    BY <1>7, <2>3 DEF Receive, AnswersOK, PostsVerify, UnverifiedOnlyIfRenamed
  <2>. QED
    BY <1>1, <2>4, <2>5
<1>8. CASE UNCHANGED vars
  BY <1>1, <1>2, <1>8 DEF vars, TypeOK, Exclusive
<1>. QED
  BY <1>3, <1>4, <1>5, <1>6, <1>7, <1>8 DEF Next

THEOREM Invariance == Spec => []IInv
BY InvInit, InvStep, PTL DEF Spec

-----------------------------------------------------------------------------
(* What follows. *)

\* Every variable keeps its type; no task posts more often than it began to.
THEOREM TypeCorrect == Spec => []TypeOK
<1>1. IInv => TypeOK
  BY DEF IInv
<1>. QED
  BY <1>1, Invariance, PTL

\* The mutex is enough: with any number of tasks, each request leaves signed
\* over itself alone and with its own user's key, though signing fails and
\* the process is killed at any point.
THEOREM SignaturesAlone == Spec => []SignedByItself
<1>1. IInv => SignedByItself
  BY DEF IInv, WireOK, Alone, SignedByItself
<1>. QED
  BY <1>1, Invariance, PTL

\* A remote server that finds the key accepts the post, unless the username of
\* the sender is the id of another account.
THEOREM PostsAreAccepted == Spec => []PostsVerify
<1>1. IInv => PostsVerify
  BY DEF IInv, AnswersOK
<1>. QED
  BY <1>1, Invariance, PTL

\* The key of a post is not found only after a rename.
THEOREM KeysAreFound == Spec => []UnverifiedOnlyIfRenamed
<1>1. IInv => UnverifiedOnlyIfRenamed
  BY DEF IInv, AnswersOK
<1>. QED
  BY <1>1, Invariance, PTL

\* Whatever usernames and accounts there are, each link from WebFinger on leads
\* to the page that names itself so.
THEOREM PagesAreLinked == Spec => []LinksLeadBack
<1>1. LinksLeadBack
  <2>. SUFFICES ASSUME NEW row \in Names, NEW link \in Links(row),
                       NEW answer \in Answers(link), answer.status = 200, row \notin Ids
                PROVE  answer.page.id = link
    BY DEF LinksLeadBack
  <2>1. PICK route \in {"user", "outbox", "followers", "following"} :
            link = URL(route, row)
    BY DEF Links, HandleWebFinger, GetActor
  <2>2. link.route = route /\ link.username = row
    BY <2>1 DEF URL
  <2>3. PICK r \in Get(row) : answer.page = Page(route, r)
    BY <2>2, PageAnswered
  <2>4. answer.page = Page(route, row)
    BY <2>3, GetOwn
  <2>. QED
    BY <2>1, <2>4 DEF Page, GetActor, GetFollowers, GetFollowing, GetOutbox
<1>. QED
  BY <1>1, PTL
==============================================================================
