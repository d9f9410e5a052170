-------------------------------- MODULE Pages --------------------------------
(***************************************************************************)
(* The pages: HandleUser, HandleFollowing, HandleFollowers, HandleOutbox   *)
(* and HandleWebFinger of src/internal/activitypub/handlers, HandleStatus  *)
(* of src/internal/domain/status, and HTTPErrorHandler of                  *)
(* src/internal/errors, on top of GetFullUser (module Users) and the tweet *)
(* store.  Sends put a tweet of one account into the store.                *)
(***************************************************************************)
EXTENDS Users

CONSTANTS
    Author,     \* the account that wrote the tweet
    Original,   \* the account whose tweet it retweets, or None
    Kinds       \* the pages that are asked for

ASSUME AuthorsAssumption == Author \in Ids /\ Original \in Ids \cup {None}

VARIABLES
    tweet,      \* the tweet in the store: its authors' usernames, or Absent
    draft,      \* the tweet each send has in memory
    page        \* what each request asks for, and its status if it has one

pageVars == <<tweet, draft, page>>
vars == <<userVars, pageVars>>

Absent == [author |-> Gone, original |-> Gone]
Asked(kind, name, status, inStore, shown) ==
    [kind |-> kind, name |-> name, status |-> status, tweet |-> inStore, shown |-> shown]
NoPage == Asked(None, None, 0, Absent, None)

\* A request that is answered without GetFullUser.
Answered == Local(None, "done", None, None, None, None, None)

ActorPages == {"user", "following", "followers", "outbox"}

-----------------------------------------------------------------------------
Init ==
    /\ UsersInit
    /\ tweet = Absent
    /\ draft = [s \in Sends |-> Absent]
    /\ page = [r \in Requests |-> NoPage]

-----------------------------------------------------------------------------
(* The sends. *)

\* Mutant of AuthorUsername: the first user Twitter includes is the author.
FirstIncluded(id) ==
    IF Original # None THEN {account[Original]} \ {Gone} ELSE {account[id], None}

\* convertTweet looks the author up among the users Twitter included: the
\* username of the moment, or none if the author is not among them.
AuthorUsername(id) == {account[id], None} \ {Gone}

\* A tweet is not in the store: Twitter is asked for it, then its authors are
\* created if they have no row ...
BeginSend(s) ==
    /\ call[s].step \in {"idle", "done"}
    /\ tweet = Absent
    /\ \E author \in AuthorUsername(Author) :
       \E original \in IF Original = None THEN {None} ELSE AuthorUsername(Original) :
            draft' = [draft EXCEPT ![s] = [author |-> author, original |-> original]]
    /\ call' = [call EXCEPT ![s] = Call("ids", Author)]
    /\ UNCHANGED <<account, held, stores, todo, tweet, page>>

\* ... and it is stored, unless the write is lost.
Store(s) ==
    /\ At(s, "done")
    /\ call' = [call EXCEPT ![s] = Idle]
    /\ draft' = [draft EXCEPT ![s] = Absent]
    /\ \/ my(s).result = "ok" /\ tweet' = draft[s]
       \/ UNCHANGED tweet
    /\ UNCHANGED <<account, held, stores, todo, page>>

ExpireTweet ==
    /\ tweet # Absent
    /\ tweet' = Absent
    /\ UNCHANGED <<userVars, draft, page>>

-----------------------------------------------------------------------------
(* The pages. *)

Free(r) == call[r].step \in {"idle", "done"} /\ Started

\* The router calls the handler of a page, which calls GetFullUser at once.
AskActorPage(r) ==
    /\ Free(r)
    /\ \E kind \in Kinds \cap ActorPages, name \in Keys :
        /\ page' = [page EXCEPT ![r] = Asked(kind, name, 0, Absent, None)]
        /\ call' = [call EXCEPT ![r] = Call("full", name)]
    /\ UNCHANGED <<account, held, stores, todo, tweet, draft>>

\* HandleWebFinger first refuses what is no account of this instance.
AskWebFinger(r) ==
    /\ Free(r)
    /\ "webfinger" \in Kinds
    /\ \/ \E name \in Keys :
            /\ page' = [page EXCEPT ![r] = Asked("webfinger", name, 0, Absent, None)]
            /\ call' = [call EXCEPT ![r] = Call("full", name)]
       \/ \E status \in {400, 404} :
            /\ page' = [page EXCEPT ![r] = Asked("webfinger", None, status, Absent, None)]
            /\ call' = [call EXCEPT ![r] = Answered]
    /\ UNCHANGED <<account, held, stores, todo, tweet, draft>>

\* HandleStatus reads the store.  A tweet that is not there is nil without an
\* error: IsAuthoredBy panics, and HTTPErrorHandler recovers.
AskStatus(r) ==
    /\ Free(r)
    /\ "status" \in Kinds
    /\ \E name \in Names :
        LET Answer(status) ==
                /\ page' = [page EXCEPT ![r] = Asked("status", name, status, tweet, None)]
                /\ call' = [call EXCEPT ![r] = Answered]
        IN  \/ Answer(404)  \* the store cannot be read
            \/ tweet = Absent /\ Answer(500)
            \/ tweet # Absent /\ tweet.author # name /\ Answer(400)
            \/ /\ tweet.author = name
               /\ page' = [page EXCEPT ![r] = Asked("status", name, 0, tweet, None)]
               /\ call' = [call EXCEPT ![r] = Call("full", name)]
    /\ UNCHANGED <<account, held, stores, todo, tweet, draft>>

\* The page of a retweet shows the original and its author, if it finds one.
AskRetweet(r) ==
    /\ page[r].kind = "status"
    /\ page[r].status = 0
    /\ At(r, "done")
    /\ my(r).result = "ok"
    /\ page[r].tweet.original # None
    /\ page[r].shown = None
    /\ page' = [page EXCEPT ![r] = Asked("status", page[r].name, 0, page[r].tweet, my(r).row)]
    /\ call' = [call EXCEPT ![r] = Call("full", page[r].tweet.original)]
    /\ UNCHANGED <<account, held, stores, todo, tweet, draft>>

-----------------------------------------------------------------------------
(* The answers. *)

HandleUser(result) ==
    IF result \in {"noRow", "notFound"} THEN 404
    ELSE IF result = "error" THEN 500 ELSE 200
HandleFollowing(result) == HandleUser(result)
HandleFollowers(result) == HandleUser(result)
HandleOutbox(result) == HandleUser(result)

HandleWebFinger(result) == IF result = "ok" THEN 200 ELSE 404

\* The author's page failing is an answer, the original author's is not.
HandleStatus(r) ==
    IF page[r].shown # None \/ my(r).result = "ok" THEN 200 ELSE 404

Status(r) ==
    CASE ~At(r, "done") -> 0
      [] page[r].status # 0 -> page[r].status
      [] page[r].kind = "user" -> HandleUser(my(r).result)
      [] page[r].kind = "following" -> HandleFollowing(my(r).result)
      [] page[r].kind = "followers" -> HandleFollowers(my(r).result)
      [] page[r].kind = "outbox" -> HandleOutbox(my(r).result)
      [] page[r].kind = "webfinger" -> HandleWebFinger(my(r).result)
      [] page[r].kind = "status" -> HandleStatus(r)
      [] OTHER -> 0

RestartAll ==
    /\ Restart
    /\ draft' = [s \in Sends |-> Absent]
    /\ page' = [r \in Requests |-> NoPage]
    /\ UNCHANGED tweet

Next ==
    \/ UsersNext /\ UNCHANGED pageVars
    \/ \E s \in Sends : BeginSend(s) \/ Store(s)
    \/ ExpireTweet
    \/ \E r \in Requests :
        AskActorPage(r) \/ AskWebFinger(r) \/ AskStatus(r) \/ AskRetweet(r)
    \/ RestartAll

Spec == Init /\ [][Next]_vars
FairSpec == Spec /\ UsersFairness

-----------------------------------------------------------------------------
(* Properties. *)

TypeOK ==
    /\ UsersTypeOK
    /\ \A r \in Requests : Status(r) \in {0, 200, 400, 404, 500}

\* The link a note carries, /status/<user>/<tweet>, is under the name the
\* author was polled as: the page is not refused as another user's, unless the
\* author was renamed or Twitter did not name it.
NoteLinksResolve ==
    \A r \in Requests :
        /\ page[r].kind = "status"
        /\ users[page[r].name] = Author
        /\ Status(r) = 400
        => Renamed(Author) \/ page[r].tweet.author = None

\* src/.env lines 38-39, of the time to live of stored tweets: "If you set this
\* to a lower period, expect to have som 404 to the statuses endpoints".
ExpiredTweetsAreNotFound ==
    \A r \in Requests :
        page[r].kind = "status" /\ page[r].tweet = Absent => Status(r) \in {0, 404}
=============================================================================
