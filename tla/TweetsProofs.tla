---------------------------- MODULE TweetsProofs ----------------------------
(***************************************************************************)
(* Proofs about Tweets, for any sends, tweets, authors and references.     *)
(*                                                                         *)
(* The author of a tweet is stored before the tweet: what a send has in    *)
(* hand has authors that are found there, or that it is about to look up.  *)
(***************************************************************************)
EXTENDS Tweets, TLAPS

SendSteps == {"idle", "get", "fetch", "refs", "authors", "users", "create",
              "storerefs", "store", "done", "failed"}

Send == [step: SendSteps, tweet: TweetIds, todo: SUBSET (TweetIds \X Types),
         missing: SUBSET (TweetIds \X Types), got: SUBSET InMemory,
         unsaved: SUBSET InMemory, own: BOOLEAN, authors: SUBSET Authors,
         creating: SUBSET Authors, result: Records \cup {Absent},
         fault: BOOLEAN]

StoreTypes ==
    /\ tweets \in [TweetIds -> Records \cup {Absent}]
    /\ users \in [Authors -> Keys \cup {NoKey}]

\* What a send has in hand came from what it got; there is a result in the end.
InHand(rec) ==
    /\ rec.unsaved \subseteq rec.got
    /\ rec.creating \subseteq rec.authors
    /\ rec.step \in {"idle", "get", "fetch"} => rec.got = {}
    /\ IF rec.step = "done" THEN rec.result \in Records ELSE rec.result = Absent

Known(t) == Found(Author[t])
Coming(rec, t) == Known(t) \/ Author[t] \in rec.authors

\* The references of a tweet got from the store have authors with rows.
GotKnown(rec) == \A g \in rec.got : \A ref \in g[2].refs : Known(ref[1])

\* A tweet whose author has no row yet has it on the list of authors.
AuthorsComing(rec) ==
    /\ rec.step \in {"users", "create"} /\ ~rec.own
        => \A g \in rec.got : Coming(rec, g[1])
    /\ rec.own \/ rec.step = "storerefs" => \A g \in rec.got : Known(g[1])
    /\ rec.step \in {"users", "create"} /\ rec.own => Coming(rec, rec.tweet)
    /\ rec.step = "store" => rec.own /\ Known(rec.tweet)

\* The tweet's own author is last: after the references are stored, if any.
NotOwnYet(rec) ==
    rec.step \in {"idle", "get", "fetch", "refs", "storerefs"} => ~rec.own

\* A row is about to be inserted in the step "create" only.
NoneCreating(rec) == rec.step # "create" => rec.creating = {}

SendOK(rec) ==
    /\ NotOwnYet(rec) /\ NoneCreating(rec)
    /\ InHand(rec) /\ GotKnown(rec) /\ AuthorsComing(rec)

IInv ==
    /\ StoreTypes
    /\ send \in [Sends -> Send]
    /\ \A s \in Sends : SendOK(send[s])
    /\ AuthorsKnown

-----------------------------------------------------------------------------
(* Rows. *)

\* No step removes or replaces a row.
LEMMA RowsStay ==
    ASSUME StoreTypes, [Next]_vars
    PROVE  \A a \in Authors : HasRow(a) => users'[a] = users[a]
<1>1. ASSUME NEW s \in Sends, CreateUser(s)
      PROVE  \A a \in Authors : HasRow(a) => users'[a] = users[a]
  BY <1>1 DEF CreateUser, HasRow, StoreTypes
<1>2. users' = users \/ \E s \in Sends : CreateUser(s)
  BY DEF Next, Begin, SaveTweetAndReferences, KnownTweet, UnknownTweet,
         FetchRawTweet, GetReference, FetchMissing, LookupAuthors, GetUser,
         AuthorsSaved, StoreReference, ReferencesSaved, StoreTweet, Fails,
         Expire, Over, vars
<1>. QED
  BY <1>1, <1>2

LEMMA RowsGrow ==
    ASSUME IInv, [Next]_vars
    PROVE  \A a \in Authors : Found(a) => Found(a)'
<1>1. \A a \in Authors : HasRow(a) => HasRow(a)'
  BY RowsStay DEF HasRow, IInv
<1>. QED
  BY <1>1 DEF Found

\* A tweet in hand has an id and references with authors.
LEMMA Named ==
    ASSUME NEW rec \in Send, NEW g \in rec.got
    PROVE  /\ g[1] \in TweetIds /\ g[2] \in Records
           /\ \A ref \in g[2].refs : ref[1] \in TweetIds
<1>1. g \in InMemory
  BY DEF Send
<1>2. PICK id \in TweetIds, kept \in Records : g = <<id, kept>>
  BY <1>1 DEF InMemory
<1>3. kept.refs \subseteq TweetIds \X Types
  BY DEF Records
<1>. QED
  BY <1>2, <1>3

\* What is known stays known while rows are only added.
LEMMA SendOKStays ==
    ASSUME NEW rec \in Send, SendOK(rec),
           \A a \in Authors : Found(a) => Found(a)'
    PROVE  SendOK(rec)'
<1>1. ASSUME NEW t \in TweetIds, Known(t)
      PROVE  Known(t)'
  BY <1>1, AuthorAssumption DEF Known
<1>2. InHand(rec)'
  BY DEF SendOK, InHand
<1>3. GotKnown(rec)'
  BY <1>1, Named DEF SendOK, GotKnown
<1>4. ASSUME NEW t \in TweetIds, Coming(rec, t)
      PROVE  Coming(rec, t)'
  BY <1>1, <1>4 DEF Coming
<1>5. rec.tweet \in TweetIds
  BY DEF Send
<1>6. AuthorsComing(rec)'
  BY <1>1, <1>4, <1>5, Named DEF SendOK, AuthorsComing
<1>. QED
  BY <1>2, <1>3, <1>6 DEF SendOK, NotOwnYet, NoneCreating

LEMMA AuthorsStayKnown ==
    ASSUME IInv, \A a \in Authors : Found(a) => Found(a)', UNCHANGED tweets
    PROVE  AuthorsKnown'
<1>1. ASSUME NEW t \in TweetIds, NEW ref \in tweets[t].refs
      PROVE  ref[1] \in TweetIds
  BY <1>1 DEF IInv, StoreTypes, Records, Absent
<1>. QED
  BY <1>1, AuthorAssumption DEF IInv, AuthorsKnown

-----------------------------------------------------------------------------
(* The steps of a send. *)

\* One send changes, to a record that is in order.
LEMMA OneSend ==
    ASSUME IInv, [Next]_vars, NEW s \in Sends, NEW rec \in Send,
           send' = [send EXCEPT ![s] = rec], SendOK(rec)', StoreTypes',
           AuthorsKnown'
    PROVE  IInv'
<1>1. send' \in [Sends -> Send]
  BY DEF IInv
<1>2. ASSUME NEW q \in Sends
      PROVE  SendOK(send[q])'
  <2>1. CASE q = s
    BY <2>1 DEF IInv
  <2>2. CASE q # s
    <3>1. PICK other \in Send : other = send[q] /\ other = send'[q]
      BY <2>2 DEF IInv
    <3>2. SendOK(other)
      BY <3>1 DEF IInv
    <3>3. SendOK(other)'
      BY <3>2, RowsGrow, SendOKStays
    <3>. QED
      BY <3>1, <3>3
  <2>. QED
    BY <2>1, <2>2
<1>. QED
  BY <1>1, <1>2 DEF IInv

\* A send that changes neither table.
LEMMA QuietSend ==
    ASSUME IInv, [Next]_vars, NEW s \in Sends, NEW rec \in Send,
           send' = [send EXCEPT ![s] = rec], SendOK(rec),
           UNCHANGED <<tweets, users>>
    PROVE  IInv'
<1>1. SendOK(rec)'
  BY RowsGrow, SendOKStays
<1>2. StoreTypes'
  BY DEF IInv, StoreTypes
<1>3. AuthorsKnown'
  BY RowsGrow, AuthorsStayKnown
<1>. QED
  BY <1>1, <1>2, <1>3, OneSend

\* The lookups before the authors: nothing in hand has its author checked yet.
LEMMA LookupInv ==
    ASSUME IInv, NEW s \in Sends,
           \/ Begin(s) \/ KnownTweet(s) \/ UnknownTweet(s) \/ FetchRawTweet(s)
           \/ GetReference(s) \/ FetchMissing(s)
    PROVE  IInv'
<1>. [Next]_vars
  BY DEF Next, SaveTweetAndReferences
<1>. send[s] \in Send /\ SendOK(send[s]) /\ send \in [Sends -> Send]
  BY DEF IInv
<1>1. CASE Begin(s)
  <2>1. PICK t \in TweetIds :
          send' = [send EXCEPT ![s].step = "get", ![s].tweet = t]
    BY <1>1 DEF Begin
  <2>2. PICK rec : rec = [send[s] EXCEPT !.step = "get", !.tweet = t]
    OBVIOUS
  <2>3. rec \in Send
    BY <2>2 DEF Send, SendSteps
  <2>4. send' = [send EXCEPT ![s] = rec]
    BY <2>1, <2>2
  <2>5. SendOK(rec)
    BY <1>1, <2>2 DEF Begin, At, Send, SendOK, InHand, GotKnown,
        AuthorsComing, NotOwnYet, NoneCreating
  <2>. QED
    BY <1>1, <2>3, <2>4, <2>5, QuietSend DEF Begin
<1>2. CASE KnownTweet(s)
  <2>1. PICK rec : rec = [send[s] EXCEPT !.step = "done",
                                         !.result = tweets[send[s].tweet]]
    OBVIOUS
  <2>2. tweets[send[s].tweet] \in Records
    BY <1>2 DEF KnownTweet, my, IInv, StoreTypes, Send
  <2>3. rec \in Send
    BY <2>1, <2>2 DEF Send, SendSteps
  <2>4. send' = [send EXCEPT ![s] = rec]
    BY <1>2, <2>1 DEF KnownTweet, my
  <2>5. SendOK(rec)
    BY <1>2, <2>1, <2>2
    DEF KnownTweet, At, Send, SendOK, InHand, GotKnown,
        AuthorsComing, NotOwnYet, NoneCreating
  <2>. QED
    BY <1>2, <2>3, <2>4, <2>5, QuietSend DEF KnownTweet
<1>3. CASE UnknownTweet(s)
  <2>1. PICK rec : rec = [send[s] EXCEPT !.step = "fetch"]
    OBVIOUS
  <2>2. rec \in Send
    BY <2>1 DEF Send, SendSteps
  <2>3. send' = [send EXCEPT ![s] = rec]
    BY <1>3, <2>1 DEF UnknownTweet
  <2>4. SendOK(rec)
    BY <1>3, <2>1
    DEF UnknownTweet, At, Send, SendOK, InHand, GotKnown,
        AuthorsComing, NotOwnYet, NoneCreating
  <2>. QED
    BY <1>3, <2>2, <2>3, <2>4, QuietSend DEF UnknownTweet
<1>4. CASE FetchRawTweet(s)
  <2>. DEFINE refs == Refs[send[s].tweet]
  <2>1. PICK rec : rec = [send[s] EXCEPT
                            !.step = IF refs = {} THEN "authors" ELSE "refs",
                            !.own = (refs = {}),
                            !.todo = refs]
    OBVIOUS
  <2>2. refs \subseteq TweetIds \X Types
    BY RefsAssumption DEF Send, Types
  <2>3. rec \in Send
    BY <2>1, <2>2 DEF Send, SendSteps
  <2>4. send' = [send EXCEPT ![s] = rec]
    BY <1>4, <2>1 DEF FetchRawTweet, my
  <2>5. SendOK(rec)
    BY <1>4, <2>1
    DEF FetchRawTweet, At, Send, SendOK, InHand, GotKnown,
        AuthorsComing, NotOwnYet, NoneCreating
  <2>. QED
    BY <1>4, <2>3, <2>4, <2>5, QuietSend DEF FetchRawTweet
<1>5. CASE GetReference(s)
  <2>1. PICK ref \in send[s].todo :
          \/ /\ tweets[ref[1]] # Absent
             /\ send' = [send EXCEPT ![s].todo = @ \ {ref},
                                     ![s].got = @ \cup {<<ref[1], tweets[ref[1]]>>}]
          \/ send' = [send EXCEPT ![s].todo = @ \ {ref},
                                  ![s].missing = @ \cup {ref}]
    BY <1>5 DEF GetReference, my
  <2>2. ref \in TweetIds \X Types /\ ref[1] \in TweetIds
    BY DEF Send
  <2>3. CASE /\ tweets[ref[1]] # Absent
             /\ send' = [send EXCEPT ![s].todo = @ \ {ref},
                                     ![s].got = @ \cup {<<ref[1], tweets[ref[1]]>>}]
    <3>1. PICK hit : hit = <<ref[1], tweets[ref[1]]>>
      OBVIOUS
    <3>2. tweets[ref[1]] \in Records
      BY <2>2, <2>3 DEF IInv, StoreTypes
    <3>3. hit \in InMemory
      BY <2>2, <3>1, <3>2 DEF InMemory
    <3>4. \A other \in hit[2].refs : Known(other[1])
      BY <2>2, <2>3, <3>1 DEF IInv, AuthorsKnown, Known
    <3>5. PICK rec : rec = [send[s] EXCEPT !.todo = @ \ {ref}, !.got = @ \cup {hit}]
      OBVIOUS
    <3>6. rec \in Send
      BY <3>3, <3>5 DEF Send
    <3>7. send' = [send EXCEPT ![s] = rec]
      BY <2>3, <3>1, <3>5
    <3>8. send[s].step = "refs" /\ ~send[s].own
      BY <1>5 DEF GetReference, At, SendOK, NotOwnYet
    <3>9. SendOK(rec)
      BY <3>4, <3>5, <3>8 DEF Send, SendOK, InHand, GotKnown, AuthorsComing, NotOwnYet,
        NoneCreating
    <3>. QED
      BY <1>5, <3>6, <3>7, <3>9, QuietSend DEF GetReference
  <2>4. CASE send' = [send EXCEPT ![s].todo = @ \ {ref}, ![s].missing = @ \cup {ref}]
    <3>1. PICK rec : rec = [send[s] EXCEPT !.todo = @ \ {ref},
                                           !.missing = @ \cup {ref}]
      OBVIOUS
    <3>2. rec \in Send
      BY <2>2, <3>1 DEF Send
    <3>3. send' = [send EXCEPT ![s] = rec]
      BY <2>4, <3>1
    <3>4. SendOK(rec)
      BY <1>5, <3>1 DEF GetReference, At, Send, SendOK, InHand, GotKnown, AuthorsComing, NotOwnYet,
        NoneCreating
    <3>. QED
      BY <1>5, <3>2, <3>3, <3>4, QuietSend DEF GetReference
  <2>. QED
    BY <2>1, <2>3, <2>4
<1>6. CASE FetchMissing(s)
  <2>. DEFINE fetched == {<<ref[1], [type |-> ref[2], refs |-> {}]>> :
                            ref \in send[s].missing}
  <2>1. PICK rec : rec = [send[s] EXCEPT !.step = "authors", !.missing = {},
                                         !.got = @ \cup fetched]
    OBVIOUS
  <2>2. ASSUME NEW g \in fetched
        PROVE  g \in InMemory /\ g[2].refs = {}
    <3>1. PICK ref \in send[s].missing : g = <<ref[1], [type |-> ref[2], refs |-> {}]>>
      OBVIOUS
    <3>2. ref[1] \in TweetIds /\ ref[2] \in Types
      BY DEF Send
    <3>. QED
      BY <3>1, <3>2 DEF InMemory, Records
  <2>3. rec \in Send
    BY <2>1, <2>2 DEF Send, SendSteps
  <2>4. send' = [send EXCEPT ![s] = rec]
    BY <1>6, <2>1 DEF FetchMissing, my
  <2>5. send[s].step = "refs" /\ ~send[s].own
    BY <1>6 DEF FetchMissing, At, SendOK, NotOwnYet
  <2>6. SendOK(rec)
    BY <2>1, <2>2, <2>5
    DEF Send, SendOK, InHand, GotKnown,
        AuthorsComing, NotOwnYet, NoneCreating
  <2>. QED
    BY <1>6, <2>3, <2>4, <2>6, QuietSend DEF FetchMissing
<1>. QED
  BY <1>1, <1>2, <1>3, <1>4, <1>5, <1>6

\* The authors, the references and the tweet itself.
LEMMA SaveInv ==
    ASSUME IInv, NEW s \in Sends,
           \/ LookupAuthors(s) \/ GetUser(s) \/ AuthorsSaved(s)
           \/ ReferencesSaved(s) \/ Fails(s)
    PROVE  IInv'
<1>. [Next]_vars
  BY DEF Next, SaveTweetAndReferences
<1>. send[s] \in Send /\ SendOK(send[s]) /\ send \in [Sends -> Send]
  BY DEF IInv
<1>1. CASE LookupAuthors(s)
  <2>. DEFINE list == IF send[s].own THEN {Author[send[s].tweet]}
                      ELSE {Author[g[1]] : g \in send[s].got}
  <2>1. PICK rec : rec = [send[s] EXCEPT !.step = "users", !.authors = list]
    OBVIOUS
  <2>2. send[s].creating = {}
    BY <1>1 DEF LookupAuthors, At, SendOK, NoneCreating
  <2>3. list \subseteq Authors
    BY Named, AuthorAssumption DEF Send
  <2>4. rec \in Send
    BY <2>1, <2>3 DEF Send, SendSteps
  <2>5. send' = [send EXCEPT ![s] = rec]
    BY <1>1, <2>1 DEF LookupAuthors, my
  <2>6. SendOK(rec)
    BY <1>1, <2>1, <2>2 DEF LookupAuthors, At, Send, SendOK, InHand, GotKnown,
                            AuthorsComing, Coming, NotOwnYet, NoneCreating
  <2>. QED
    BY <1>1, <2>4, <2>5, <2>6, QuietSend DEF LookupAuthors
<1>2. CASE GetUser(s)
  <2>1. PICK a \in send[s].authors :
          IF Found(a)
          THEN send' = [send EXCEPT ![s].authors = @ \ {a}]
          ELSE send' = [send EXCEPT ![s].step = "create", ![s].creating = {a}]
    BY <1>2 DEF GetUser, my
  <2>2. CASE Found(a)
    <3>1. PICK rec : rec = [send[s] EXCEPT !.authors = @ \ {a}]
      OBVIOUS
    <3>2. rec \in Send
      BY <3>1 DEF Send
    <3>3. send' = [send EXCEPT ![s] = rec]
      BY <2>1, <2>2, <3>1
    <3>4. send[s].step = "users" /\ send[s].creating = {}
      BY <1>2 DEF GetUser, At, SendOK, NoneCreating
    <3>5. \A t : Coming(send[s], t) => Coming(rec, t)
      BY <2>2, <3>1 DEF Coming, Known, Send
    <3>6. SendOK(rec)
      BY <3>1, <3>4, <3>5 DEF Send, SendOK, InHand, GotKnown, AuthorsComing,
                              NotOwnYet, NoneCreating
    <3>. QED
      BY <1>2, <3>2, <3>3, <3>6, QuietSend DEF GetUser
  <2>3. CASE ~Found(a)
    <3>1. PICK rec : rec = [send[s] EXCEPT !.step = "create", !.creating = {a}]
      OBVIOUS
    <3>2. rec \in Send
      BY <3>1 DEF Send, SendSteps
    <3>3. send' = [send EXCEPT ![s] = rec]
      BY <2>1, <2>3, <3>1
    <3>4. SendOK(rec)
      BY <1>2, <3>1 DEF GetUser, At, Send, SendOK, InHand, GotKnown,
                        AuthorsComing, Coming, NotOwnYet, NoneCreating
    <3>. QED
      BY <1>2, <3>2, <3>3, <3>4, QuietSend DEF GetUser
  <2>. QED
    BY <2>2, <2>3
<1>3. CASE AuthorsSaved(s)
  <2>1. PICK rec : rec = [send[s] EXCEPT
                            !.step = IF send[s].own THEN "store" ELSE "storerefs",
                            !.unsaved = send[s].got]
    OBVIOUS
  <2>2. rec \in Send
    BY <2>1 DEF Send, SendSteps
  <2>3. send' = [send EXCEPT ![s] = rec]
    BY <1>3, <2>1 DEF AuthorsSaved, my
  <2>4. SendOK(rec)
    BY <1>3, <2>1 DEF AuthorsSaved, At, my, Send, SendOK, InHand, GotKnown,
                      AuthorsComing, Coming, NotOwnYet, NoneCreating
  <2>. QED
    BY <1>3, <2>2, <2>3, <2>4, QuietSend DEF AuthorsSaved
<1>4. CASE ReferencesSaved(s)
  <2>1. PICK rec : rec = [send[s] EXCEPT !.step = "authors", !.own = TRUE]
    OBVIOUS
  <2>2. rec \in Send
    BY <2>1 DEF Send, SendSteps
  <2>3. send' = [send EXCEPT ![s] = rec]
    BY <1>4, <2>1 DEF ReferencesSaved
  <2>4. SendOK(rec)
    BY <1>4, <2>1 DEF ReferencesSaved, At, Send, SendOK, InHand, GotKnown,
                      AuthorsComing, NotOwnYet, NoneCreating
  <2>. QED
    BY <1>4, <2>2, <2>3, <2>4, QuietSend DEF ReferencesSaved
<1>5. CASE Fails(s)
  <2>1. PICK rec : rec = [send[s] EXCEPT !.step = "failed", !.creating = {},
                                         !.fault = TRUE]
    OBVIOUS
  <2>2. rec \in Send
    BY <2>1 DEF Send, SendSteps
  <2>3. send' = [send EXCEPT ![s] = rec]
    BY <1>5, <2>1 DEF Fails
  <2>4. SendOK(rec)
    BY <1>5, <2>1 DEF Fails, Send, SendOK, InHand, GotKnown, AuthorsComing,
                      NotOwnYet, NoneCreating
  <2>. QED
    BY <1>5, <2>2, <2>3, <2>4, QuietSend DEF Fails
<1>. QED
  BY <1>1, <1>2, <1>3, <1>4, <1>5

\* A row is inserted, or the insert fails on the key of another send's row.
LEMMA CreateUserInv ==
    ASSUME IInv, NEW s \in Sends, CreateUser(s)
    PROVE  IInv'
<1>. [Next]_vars
  BY DEF Next, SaveTweetAndReferences
<1>. send[s] \in Send /\ SendOK(send[s]) /\ send \in [Sends -> Send]
  BY DEF IInv
<1>0. send[s].step = "create"
  BY DEF CreateUser, At
<1>1. PICK a \in send[s].creating :
        IF HasRow(a)
        THEN /\ send' = [send EXCEPT ![s].step = "failed", ![s].creating = {}]
             /\ UNCHANGED users
        ELSE /\ users' = [users EXCEPT ![a] = s]
             /\ send' = [send EXCEPT ![s].step = "users", ![s].creating = {},
                                     ![s].authors = @ \ {a}]
  BY DEF CreateUser, my
<1>2. UNCHANGED tweets
  BY DEF CreateUser
<1>3. CASE HasRow(a)
  <2>1. PICK rec : rec = [send[s] EXCEPT !.step = "failed", !.creating = {}]
    OBVIOUS
  <2>2. rec \in Send
    BY <2>1 DEF Send, SendSteps
  <2>3. send' = [send EXCEPT ![s] = rec]
    BY <1>1, <1>3, <2>1
  <2>4. SendOK(rec)
    BY <1>0, <2>1 DEF Send, SendOK, InHand, GotKnown, AuthorsComing, NotOwnYet,
                      NoneCreating
  <2>. QED
    BY <1>1, <1>2, <1>3, <2>2, <2>3, <2>4, QuietSend
<1>4. CASE ~HasRow(a)
  <2>1. PICK rec : rec = [send[s] EXCEPT !.step = "users", !.creating = {},
                                         !.authors = @ \ {a}]
    OBVIOUS
  <2>2. rec \in Send
    BY <2>1 DEF Send, SendSteps
  <2>3. send' = [send EXCEPT ![s] = rec]
    BY <1>1, <1>4, <2>1
  <2>4. users' = [users EXCEPT ![a] = s] /\ a \in Authors
    BY <1>1, <1>4 DEF Send
  <2>5. StoreTypes'
    BY <1>2, <2>4 DEF IInv, StoreTypes, Keys
  <2>6. Found(a)'
    <3>1. HasRow(a)'
      BY <2>4, SendsAssumption DEF IInv, StoreTypes, HasRow, NoKey
    <3>. QED
      BY <3>1 DEF Found
  <2>7. PICK kept : kept = [send[s] EXCEPT !.step = "users", !.creating = {}]
    OBVIOUS
  <2>8. kept \in Send
    BY <2>7 DEF Send, SendSteps
  <2>9. SendOK(kept)
    BY <1>0, <2>7 DEF Send, SendOK, InHand, GotKnown, AuthorsComing, Coming,
                      NotOwnYet, NoneCreating
  <2>10. SendOK(kept)'
    BY <2>8, <2>9, RowsGrow, SendOKStays
  <2>11. /\ rec.step = kept.step /\ rec.own = kept.own /\ rec.got = kept.got
         /\ rec.tweet = kept.tweet /\ rec.unsaved = kept.unsaved
         /\ rec.result = kept.result /\ rec.creating = {}
         /\ rec.authors = kept.authors \ {a}
    BY <2>1, <2>7 DEF Send
  <2>12. \A t : Coming(kept, t)' => Coming(rec, t)'
    BY <2>6, <2>11 DEF Coming, Known
  <2>13. SendOK(rec)'
    BY <2>10, <2>11, <2>12 DEF SendOK, InHand, GotKnown, AuthorsComing,
                               NotOwnYet, NoneCreating
  <2>14. AuthorsKnown'
    BY <1>2, RowsGrow, AuthorsStayKnown
  <2>. QED
    BY <2>2, <2>3, <2>5, <2>13, <2>14, OneSend
<1>. QED
  BY <1>3, <1>4

\* A tweet goes into the store only with an author, and with references that
\* have one.
LEMMA StoreOne ==
    ASSUME IInv, NEW t \in TweetIds, NEW kept \in Records, Known(t),
           \A ref \in kept.refs : Known(ref[1]),
           UNCHANGED users,
           \/ tweets' = [tweets EXCEPT ![t] = kept]
           \/ UNCHANGED tweets
    PROVE  StoreTypes' /\ AuthorsKnown'
<1>1. StoreTypes'
  BY DEF IInv, StoreTypes
<1>2. ASSUME NEW u \in TweetIds, tweets'[u] # Absent
      PROVE  /\ Found(Author[u])
             /\ \A ref \in tweets'[u].refs : Found(Author[ref[1]])
  <2>1. CASE tweets'[u] = tweets[u]
    BY <1>2, <2>1 DEF IInv, AuthorsKnown
  <2>2. CASE u = t /\ tweets'[u] = kept
    BY <2>2 DEF Known
  <2>. QED
    BY <2>1, <2>2 DEF IInv, StoreTypes
<1>3. AuthorsKnown'
  BY <1>2 DEF AuthorsKnown, Found, HasRow
<1>. QED
  BY <1>1, <1>3

LEMMA StoreInv ==
    ASSUME IInv, NEW s \in Sends, StoreReference(s) \/ StoreTweet(s)
    PROVE  IInv'
<1>. [Next]_vars
  BY DEF Next, SaveTweetAndReferences
<1>. send[s] \in Send /\ SendOK(send[s]) /\ send \in [Sends -> Send]
  BY DEF IInv
<1>1. CASE StoreReference(s)
  <2>1. PICK g \in send[s].unsaved :
          /\ \/ tweets' = [tweets EXCEPT ![g[1]] = g[2]]
             \/ UNCHANGED tweets
          /\ send' = [send EXCEPT ![s].unsaved = @ \ {g}]
    BY <1>1 DEF StoreReference, my
  <2>2. PICK rec : rec = [send[s] EXCEPT !.unsaved = @ \ {g}]
    OBVIOUS
  <2>3. rec \in Send
    BY <2>2 DEF Send
  <2>4. send' = [send EXCEPT ![s] = rec]
    BY <2>1, <2>2
  <2>5. SendOK(rec)
    BY <1>1, <2>2 DEF StoreReference, At, Send, SendOK, InHand, GotKnown,
                      AuthorsComing, NotOwnYet, NoneCreating
  <2>6. g \in send[s].got
    BY DEF SendOK, InHand
  <2>7. /\ g[1] \in TweetIds /\ g[2] \in Records /\ Known(g[1])
        /\ \A ref \in g[2].refs : Known(ref[1])
    BY <1>1, <2>6, Named DEF StoreReference, At, SendOK, GotKnown, AuthorsComing
  <2>8. StoreTypes' /\ AuthorsKnown'
    BY <1>1, <2>1, <2>7, StoreOne DEF StoreReference
  <2>9. SendOK(rec)'
    BY <2>3, <2>5, RowsGrow, SendOKStays
  <2>. QED
    BY <2>3, <2>4, <2>8, <2>9, OneSend
<1>2. CASE StoreTweet(s)
  <2>1. PICK tweet : tweet = [type |-> NoType,
                              refs |-> {<<g[1], g[2].type>> : g \in send[s].got}]
    OBVIOUS
  <2>2. /\ \/ tweets' = [tweets EXCEPT ![send[s].tweet] = tweet]
           \/ UNCHANGED tweets
        /\ send' = [send EXCEPT ![s].step = "done", ![s].result = tweet]
        /\ UNCHANGED users
    BY <1>2, <2>1 DEF StoreTweet, my
  <2>3. PICK rec : rec = [send[s] EXCEPT !.step = "done", !.result = tweet]
    OBVIOUS
  <2>4. tweet \in Records
    <3>1. \A g \in send[s].got : <<g[1], g[2].type>> \in TweetIds \X Types
      BY Named DEF Records
    <3>. QED
      BY <2>1, <3>1 DEF Records, Types
  <2>5. rec \in Send
    BY <2>3, <2>4 DEF Send, SendSteps
  <2>6. send' = [send EXCEPT ![s] = rec]
    BY <2>2, <2>3
  <2>7. SendOK(rec)
    BY <1>2, <2>3, <2>4 DEF StoreTweet, At, Send, SendOK, InHand, GotKnown,
                            AuthorsComing, NotOwnYet, NoneCreating
  <2>8. send[s].tweet \in TweetIds /\ Known(send[s].tweet)
    BY <1>2 DEF StoreTweet, At, SendOK, AuthorsComing, Send
  <2>9. \A ref \in tweet.refs : Known(ref[1])
    <3>1. \A g \in send[s].got : Known(g[1])
      BY <1>2 DEF StoreTweet, At, SendOK, AuthorsComing
    <3>. QED
      BY <2>1, <3>1
  <2>10. StoreTypes' /\ AuthorsKnown'
    BY <2>2, <2>4, <2>8, <2>9, StoreOne
  <2>11. SendOK(rec)'
    BY <2>5, <2>7, RowsGrow, SendOKStays
  <2>. QED
    BY <2>5, <2>6, <2>10, <2>11, OneSend
<1>. QED
  BY <1>1, <1>2

\* A tweet expires.
LEMMA ExpireInv ==
    ASSUME IInv, NEW t \in TweetIds, Expire(t)
    PROVE  IInv'
<1>1. tweets' = [tweets EXCEPT ![t] = Absent] /\ UNCHANGED <<users, send>>
  BY DEF Expire
<1>2. StoreTypes' /\ send' \in [Sends -> Send]
  BY <1>1 DEF IInv, StoreTypes
<1>3. AuthorsKnown'
  BY <1>1 DEF IInv, StoreTypes, AuthorsKnown, Found, HasRow
<1>4. \A s \in Sends : SendOK(send[s])'
  BY <1>1 DEF IInv, SendOK, InHand, GotKnown, AuthorsComing, Coming, Known,
              Found, HasRow, NotOwnYet, NoneCreating
<1>. QED
  BY <1>2, <1>3, <1>4 DEF IInv

-----------------------------------------------------------------------------
(* Invariance. *)

LEMMA InitInv == Init => IInv
<1>. SUFFICES ASSUME Init PROVE IInv
  OBVIOUS
<1>1. (CHOOSE t \in TweetIds : TRUE) \in TweetIds
  BY TweetsAssumption
<1>2. Idle \in Send
  BY <1>1 DEF Idle, Send, SendSteps
<1>3. SendOK(Idle)
  BY DEF Idle, SendOK, InHand, GotKnown, AuthorsComing, NotOwnYet, NoneCreating
<1>4. StoreTypes
  BY DEF Init, StoreTypes, Keys
<1>5. AuthorsKnown
  BY DEF Init, AuthorsKnown
<1>. QED
  BY <1>2, <1>3, <1>4, <1>5 DEF Init, IInv

LEMMA NextInv == IInv /\ [Next]_vars => IInv'
<1>. SUFFICES ASSUME IInv, [Next]_vars PROVE IInv'
  OBVIOUS
<1>1. CASE UNCHANGED vars
  BY <1>1 DEF vars, IInv, StoreTypes, AuthorsKnown, SendOK, InHand, GotKnown,
              AuthorsComing, Coming, Known, Found, HasRow, NotOwnYet, NoneCreating
<1>2. ASSUME NEW s \in Sends, Begin(s) \/ SaveTweetAndReferences(s)
      PROVE  IInv'
  BY <1>2, LookupInv, SaveInv, CreateUserInv, StoreInv DEF SaveTweetAndReferences
<1>3. ASSUME NEW t \in TweetIds, Expire(t)
      PROVE  IInv'
  BY <1>3, ExpireInv
<1>. QED
  BY <1>1, <1>2, <1>3 DEF Next, Over

THEOREM Invariance == Spec => []IInv
BY InitInv, NextInv, PTL DEF Spec

\* The variables have their types; a send that succeeds returns a tweet.
THEOREM TypeCorrect == Spec => []TypeOK
<1>1. IInv => TypeOK
  <2>. SUFFICES ASSUME IInv, NEW s \in Sends
                PROVE  /\ send[s] \in Send
                       /\ InHand(send[s])
    BY DEF IInv, StoreTypes, TypeOK, Send, SendSteps, InHand
  <2>. QED
    BY DEF IInv, SendOK
<1>. QED
  BY <1>1, Invariance, PTL

\* Every tweet in the store, and every tweet it refers to, has its author in
\* the users table, unless the author's id is the username in another row:
\* however sends interleave, wherever they fail and whoever has which username.
THEOREM AuthorsBeforeTweets == Spec => []AuthorsKnown
<1>1. IInv => AuthorsKnown
  BY DEF IInv
<1>. QED
  BY <1>1, Invariance, PTL

\* The key pair of a user is made once.
THEOREM KeysAreFinal == Spec => KeysNeverChange
<1>1. IInv /\ [Next]_vars
        => [\A a \in Authors : HasRow(a) => users'[a] = users[a]]_vars
  BY RowsStay DEF IInv
<1>. QED
  BY <1>1, Invariance, PTL DEF Spec, KeysNeverChange
=============================================================================
