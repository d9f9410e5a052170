------------------------------ MODULE PagesProofs ------------------------------
(***************************************************************************)
(* Proofs about Users and Pages, for any accounts, usernames, sends and    *)
(* requests.                                                               *)
(*                                                                         *)
(* The history of names carries the argument: whatever a row, a cache      *)
(* entry, a call in progress or a tweet joins an account with is a name    *)
(* the account has had, though by now it may have another.  Rows are only  *)
(* added.                                                                  *)
(***************************************************************************)
EXTENDS Pages, TLAPS

CallSteps == {"idle", "cacheId", "askId", "row", "cache", "ask", "save", "insert", "done"}
Results == {None, "ok", "noRow", "notFound", "error"}
LocalType ==
    [op : {None, "create", "ids", "full"}, step : CallSteps, arg : Keys \cup {None},
     row : Names \cup {None}, id : Ids \cup {None}, name : Names \cup {None},
     result : Results]

\* The row was found for the argument of a call.
RowFor(row, arg, table) ==
    row \in Names /\ table[row] \in Ids /\ (row = arg \/ table[row] = arg)

\* A call at a step of its operation, with what it has found by then in the
\* users table; names are those the accounts have had.
FoundOK(c, names, table) ==
    /\ c.op = "ids" =>
           /\ c.arg \in Ids
           /\ c.step \in {"cacheId", "askId", "row", "insert", "done"}
           /\ c.step \in {"row", "insert"} => <<c.id, c.name>> \in names
    /\ c.op \in {"create", "full"} =>
           /\ c.arg \in Keys
           /\ c.step \in {"row", "cache", "ask", "save", "insert", "done"}
           /\ c.step \in {"save", "insert"} => <<c.id, c.name>> \in names /\ c.name = c.arg
           /\ c.row # None => RowFor(c.row, c.arg, table)
    /\ c.op = "full" =>
           /\ c.step # "insert"
           /\ c.step \in {"cache", "ask", "save"} \/ c.result = "ok" => c.row # None
           /\ c.result = "ok" => <<c.id, c.arg>> \in names
    /\ c.op = None => c.step \in {"idle", "done"} /\ c.row = None /\ c.result = None

\* Whose call it is.
OpOK(p, c) ==
    /\ p = Main => c.op \in {None, "create"}
    /\ p \in Sends => c.op \in {None, "ids"}
    /\ p \in Requests => c.op \in {None, "full"}

HasRow(n, table) == table[n] \in Ids \/ \E m \in Names : table[m] = n

StoresOK ==
    /\ account \in [Ids -> Names \cup {Gone}]
    /\ held \subseteq Ids \X Names
    /\ users \in [Names -> Ids \cup {None}]
    /\ byName \in [Keys -> Ids \cup {None}]
    /\ byId \in [Ids -> Names \cup {None}]
    /\ \A i \in Ids : account[i] # Gone => <<i, account[i]>> \in held
    /\ \A n \in Names : users[n] # None => <<users[n], n>> \in held
    /\ \A n \in Keys : byName[n] # None => <<byName[n], n>> \in held
    /\ \A i \in Ids : byId[i] # None => <<i, byId[i]>> \in held

CallsOK ==
    /\ call \in [Callers -> LocalType]
    /\ \A p \in Callers : OpOK(p, call[p]) /\ FoundOK(call[p], held, users)

TodoOK ==
    /\ todo \subseteq Configured
    /\ \A n \in Configured \ todo : HasRow(n, users)

UsersInv == StoresOK /\ CallsOK /\ TodoOK

-----------------------------------------------------------------------------
(* Rows and names are only added. *)

Grows ==
    /\ held \subseteq held'
    /\ users' \in [Names -> Ids \cup {None}]
    /\ \A n \in Names : users[n] # None => users'[n] = users[n]

LEMMA Sorts ==
    /\ None \notin Ids /\ None \notin Names /\ None \notin Keys
    /\ Gone \notin Ids /\ Gone \notin Names /\ Gone \notin Keys
    /\ Configured \subseteq Keys /\ Names \subseteq Keys /\ Ids \subseteq Keys
BY NoneAssumption, NamesAssumption DEF Keys

LEMMA FoundStays ==
    ASSUME StoresOK, Grows, NEW c \in LocalType, FoundOK(c, held, users)
    PROVE  FoundOK(c, held', users')
<1>1. ASSUME NEW row, NEW arg, RowFor(row, arg, users)
      PROVE  RowFor(row, arg, users')
  BY <1>1, Sorts DEF RowFor, Grows, StoresOK
<1>. QED
  BY <1>1 DEF FoundOK, Grows

LEMMA HasRowStays ==
    ASSUME StoresOK, Grows, NEW n \in Configured, HasRow(n, users)
    PROVE  HasRow(n, users')
BY Sorts, NamesAssumption DEF HasRow, Grows, StoresOK

\* A step of one call, which becomes c.
LEMMA OneCall ==
    ASSUME UsersInv, Grows, NEW p \in Callers, NEW c \in LocalType,
           call' = [call EXCEPT ![p] = c], OpOK(p, c), FoundOK(c, held', users')
    PROVE  CallsOK'
<1>1. call \in [Callers -> LocalType]
  BY DEF UsersInv, CallsOK
<1>2. call' \in [Callers -> LocalType] /\ call'[p] = c
      /\ \A q \in Callers \ {p} : call'[q] = call[q]
  BY <1>1
<1>3. ASSUME NEW q \in Callers \ {p}
      PROVE  OpOK(q, call'[q]) /\ FoundOK(call'[q], held', users')
  <2>1. call[q] \in LocalType /\ OpOK(q, call[q]) /\ FoundOK(call[q], held, users)
    BY <1>1 DEF UsersInv, CallsOK
  <2>2. FoundOK(call[q], held', users')
    BY <2>1, FoundStays DEF UsersInv
  <2>. QED
    BY <1>2, <2>1, <2>2
<1>4. OpOK(p, call'[p]) /\ FoundOK(call'[p], held', users')
  BY <1>2
<1>. QED
  BY <1>2, <1>3, <1>4 DEF CallsOK, OpOK

-----------------------------------------------------------------------------
(* How a step of a call goes on. *)

LEMMA Mine ==
    ASSUME UsersInv, NEW p \in Callers
    PROVE  my(p) \in LocalType /\ OpOK(p, my(p)) /\ FoundOK(my(p), held, users)
BY DEF UsersInv, CallsOK, my

LEMMA TodoStays ==
    ASSUME UsersInv, Grows, UNCHANGED todo
    PROVE  TodoOK'
BY HasRowStays DEF UsersInv, TodoOK

LEMMA GoKeeps ==
    ASSUME UsersInv, Grows, StoresOK', NEW p \in Callers,
           NEW step \in CallSteps, NEW row \in Names \cup {None},
           NEW id \in Ids \cup {None}, NEW name \in Names \cup {None},
           Go(p, step, row, id, name),
           FoundOK(Local(my(p).op, step, my(p).arg, row, id, name, None), held', users')
    PROVE  UsersInv'
<1>. DEFINE c == Local(my(p).op, step, my(p).arg, row, id, name, None)
<1>1. my(p) \in LocalType /\ OpOK(p, my(p))
  BY Mine
<1>2. c \in LocalType /\ c.op = my(p).op
  BY <1>1 DEF LocalType, Local, Results
<1>3. OpOK(p, c)
  BY <1>1, <1>2 DEF OpOK
<1>4. call' = [call EXCEPT ![p] = c] /\ UNCHANGED todo
  BY DEF Go
<1>5. CallsOK'
  BY <1>2, <1>3, <1>4, OneCall
<1>. QED
  BY <1>4, <1>5, TodoStays DEF UsersInv

LEMMA DoneKeeps ==
    ASSUME UsersInv, Grows, StoresOK', NEW p \in Callers, my(p).op # None,
           NEW row \in Names \cup {None}, NEW id \in Ids \cup {None},
           NEW result \in Results, Done(p, row, id, result),
           row # None => RowFor(row, my(p).arg, users'),
           my(p).op = "full" /\ result = "ok" => row # None /\ <<id, my(p).arg>> \in held'
    PROVE  UsersInv'
<1>. DEFINE c == Local(my(p).op, "done", my(p).arg, row, id, None, result)
<1>1. my(p) \in LocalType /\ OpOK(p, my(p)) /\ FoundOK(my(p), held, users)
  BY Mine
<1>2. c \in LocalType /\ c.op = my(p).op
  BY <1>1 DEF LocalType, Local, CallSteps
<1>3. OpOK(p, c)
  BY <1>1, <1>2 DEF OpOK
<1>4. /\ c.step = "done" /\ c.arg = my(p).arg /\ c.row = row /\ c.id = id
      /\ c.result = result
  BY DEF Local
<1>. HIDE DEF c
<1>5. FoundOK(c, held', users')
  BY <1>1, <1>2, <1>4 DEF FoundOK
<1>6. call' = [call EXCEPT ![p] = c] /\ UNCHANGED todo
  BY DEF Done, c
<1>7. CallsOK'
  BY <1>2, <1>3, <1>5, <1>6, OneCall
<1>. QED
  BY <1>6, <1>7, TodoStays DEF UsersInv

LEMMA FailKeeps ==
    ASSUME UsersInv, Grows, StoresOK', NEW p \in Callers, my(p).op # None,
           NEW result \in {"noRow", "notFound", "error"}, Fail(p, result)
    PROVE  UsersInv'
BY DoneKeeps DEF Fail, Results

\* A call begins, is over without having begun, or is forgotten.
LEMMA FreshCall ==
    ASSUME UsersInv, Grows, StoresOK', UNCHANGED todo, NEW p \in Callers,
           NEW c, call' = [call EXCEPT ![p] = c],
           \/ c \in {Idle, Answered}
           \/ p = Main /\ c \in {Call("create", n) : n \in Configured}
           \/ p \in Sends /\ c \in {Call("ids", i) : i \in Ids}
           \/ p \in Requests /\ c \in {Call("full", n) : n \in Keys}
    PROVE  UsersInv'
<1>1. c \in LocalType /\ OpOK(p, c) /\ FoundOK(c, held', users')
  <2>1. CASE c \in {Idle, Answered}
    <3>1. /\ c.op = None /\ c.step \in {"idle", "done"} /\ c.row = None
          /\ c.result = None /\ c \in LocalType
      BY <2>1 DEF Idle, Answered, Local, LocalType, CallSteps, Results
    <3>. QED
      BY <3>1 DEF OpOK, FoundOK, None
  <2>2. CASE p = Main /\ c \in {Call("create", n) : n \in Configured}
    <3>1. /\ c.op = "create" /\ c.step = "row" /\ c.arg \in Keys /\ c.row = None
          /\ c \in LocalType
      BY <2>2, Sorts DEF Call, Local, LocalType, CallSteps, Results
    <3>. QED
      BY <2>2, <3>1, CallersAssumption DEF OpOK, FoundOK, None
  <2>3. CASE p \in Sends /\ c \in {Call("ids", i) : i \in Ids}
    <3>1. c.op = "ids" /\ c.step = "cacheId" /\ c.arg \in Ids /\ c \in LocalType
      BY <2>3, Sorts DEF Call, Local, LocalType, CallSteps, Results
    <3>. QED
      BY <2>3, <3>1, CallersAssumption DEF OpOK, FoundOK, None
  <2>4. CASE p \in Requests /\ c \in {Call("full", n) : n \in Keys}
    <3>1. /\ c.op = "full" /\ c.step = "row" /\ c.arg \in Keys /\ c.row = None
          /\ c.result = None /\ c \in LocalType
      BY <2>4 DEF Call, Local, LocalType, CallSteps, Results
    <3>. QED
      BY <2>4, <3>1, CallersAssumption DEF OpOK, FoundOK, None
  <2>. QED
    BY <2>1, <2>2, <2>3, <2>4
<1>2. CallsOK'
  BY <1>1, OneCall
<1>. QED
  BY <1>2, TodoStays DEF UsersInv

LEMMA ReturnKeeps ==
    ASSUME UsersInv, Grows, StoresOK', NEW p \in Callers, p \notin Requests,
           my(p).op # None, Return(p), p = Main => HasRow(my(p).arg, users')
    PROVE  UsersInv'
<1>1. CASE p # Main
  <2>1. my(p).op # "full"
    <3>1. p \in Sends
      BY <1>1 DEF Callers
    <3>. QED
      BY <3>1, Mine DEF OpOK
  <2>. QED
    BY <1>1, <2>1, DoneKeeps DEF Return, Results
<1>2. CASE p = Main
  <2>1. call' = [call EXCEPT ![p] = Idle] /\ todo' = todo \ {my(p).arg}
    BY <1>2 DEF Return
  <2>2. Idle \in LocalType /\ OpOK(p, Idle) /\ FoundOK(Idle, held', users')
    <3>1. /\ Idle.op = None /\ Idle.step = "idle" /\ Idle.row = None
          /\ Idle.result = None /\ Idle \in LocalType
      BY DEF Idle, Local, LocalType, CallSteps, Results
    <3>. QED
      BY <3>1 DEF OpOK, FoundOK, None
  <2>3. CallsOK'
    BY <2>1, <2>2, OneCall
  <2>4. TodoOK'
    <3>1. \A n \in Configured : HasRow(n, users) => HasRow(n, users')
      BY HasRowStays DEF UsersInv
    <3>. QED
      BY <1>2, <2>1, <3>1 DEF UsersInv, TodoOK
  <2>. QED
    BY <2>3, <2>4 DEF UsersInv
<1>. QED
  BY <1>1, <1>2

-----------------------------------------------------------------------------
(* The steps of a call. *)

LEMMA GetFinds ==
    ASSUME StoresOK, NEW arg \in Keys, NEW row \in Get(arg)
    PROVE  row = None \/ RowFor(row, arg, users)
BY Sorts DEF Get, One, RowFor, StoresOK

\* The stores stay, and so does all that is said of them.
LEMMA StoresStay ==
    ASSUME StoresOK, UNCHANGED <<account, held, stores>>
    PROVE  StoresOK' /\ Grows /\ held' = held /\ users' = users
BY DEF StoresOK, Grows, stores

LEMMA GetRowKeeps ==
    ASSUME UsersInv, NEW p \in Callers, GetRow(p)
    PROVE  UsersInv'
<1>1. my(p) \in LocalType /\ OpOK(p, my(p)) /\ FoundOK(my(p), held, users)
  BY Mine
<1>2. my(p).step = "row" /\ StoresOK' /\ Grows /\ held' = held /\ users' = users
  BY StoresStay DEF GetRow, At, UsersInv
<1>3. my(p).op # None
  BY <1>1, <1>2 DEF FoundOK
<1>. PICK row \in Get(my(p).arg) :
        \/ my(p).op = "full" /\ row = None /\ Fail(p, "noRow")
        \/ my(p).op = "ids" /\ row = None /\ Goto(p, "insert")
        \/ my(p).op = "ids" /\ row # None /\ Return(p)
        \/ my(p).op = "full" /\ row # None /\ Go(p, "cache", row, None, None)
        \/ my(p).op = "create" /\ Go(p, "cache", row, None, None)
  BY DEF GetRow
<1>4. CASE Fail(p, "noRow")
  BY <1>2, <1>3, <1>4, FailKeeps
<1>5. CASE my(p).op = "ids" /\ Goto(p, "insert")
  <2>. DEFINE c == Local(my(p).op, "insert", my(p).arg, my(p).row, my(p).id, my(p).name, None)
  <2>1. c.op = "ids" /\ c.arg = my(p).arg /\ c.step = "insert"
        /\ c.id = my(p).id /\ c.name = my(p).name
    BY <1>5 DEF Local
  <2>2. FoundOK(c, held', users')
    <3>. HIDE DEF c
    <3>. QED
      BY <1>1, <1>2, <1>5, <2>1 DEF FoundOK, None
  <2>3. /\ my(p).row \in Names \cup {None} /\ my(p).id \in Ids \cup {None}
        /\ my(p).name \in Names \cup {None}
    BY <1>1 DEF LocalType
  <2>. QED
    BY <1>2, <1>5, <2>2, <2>3, GoKeeps DEF Goto, CallSteps
<1>6. CASE my(p).op = "ids" /\ Return(p)
  <2>1. p # Main /\ p \notin Requests
    BY <1>1, <1>6 DEF OpOK, None
  <2>. QED
    BY <1>2, <1>3, <1>6, <2>1, ReturnKeeps
<1>7. CASE /\ my(p).op \in {"full", "create"} /\ (my(p).op = "full" => row # None)
           /\ Go(p, "cache", row, None, None)
  <2>1. my(p).arg \in Keys
    BY <1>1, <1>7 DEF FoundOK
  <2>2. row = None \/ RowFor(row, my(p).arg, users)
    BY <2>1, GetFinds DEF UsersInv
  <2>. DEFINE c == Local(my(p).op, "cache", my(p).arg, row, None, None, None)
  <2>3. c.op = my(p).op /\ c.arg = my(p).arg /\ c.step = "cache" /\ c.row = row
        /\ c.result = None
    BY DEF Local
  <2>4. FoundOK(c, held', users')
    <3>. HIDE DEF c
    <3>. QED
      BY <1>2, <1>7, <2>1, <2>2, <2>3 DEF FoundOK, None
  <2>5. row \in Names \cup {None}
    BY <2>2 DEF RowFor
  <2>. QED
    BY <1>2, <1>7, <2>4, <2>5, GoKeeps DEF CallSteps
<1>. QED
  BY <1>4, <1>5, <1>6, <1>7

\* What a call in the middle of GetUser has, and whose it may be.
LEMMA Asking ==
    ASSUME UsersInv, NEW p \in Callers, my(p).step \in {"cache", "ask", "save"}
    PROVE  /\ my(p).op \in {"create", "full"} /\ my(p).arg \in Keys
           /\ (p = Main <=> my(p).op = "create")
           /\ my(p).row \in Names \cup {None}
           /\ my(p).row # None => RowFor(my(p).row, my(p).arg, users)
           /\ my(p).op = "full" => my(p).row # None
<1>1. my(p) \in LocalType /\ OpOK(p, my(p)) /\ FoundOK(my(p), held, users)
  BY Mine
<1>2. my(p).op \in {"create", "full"}
  BY <1>1 DEF LocalType, FoundOK, None
<1>3. p = Main \/ p \in Sends \/ p \in Requests
  BY DEF Callers
<1>. QED
  BY <1>1, <1>2, <1>3 DEF LocalType, FoundOK, OpOK, None

\* GetUser found a user that has had the username asked for.
LEMMA GotUserKeeps ==
    ASSUME UsersInv, StoresOK', Grows, UNCHANGED users,
           NEW p \in Callers, my(p).step \in {"cache", "save"},
           NEW i, NEW n, <<i, n>> \in held', n = my(p).arg, GotUser(p, i, n)
    PROVE  UsersInv'
<1>1. /\ my(p).op \in {"create", "full"} /\ my(p).arg \in Keys
      /\ (p = Main <=> my(p).op = "create")
      /\ my(p).row \in Names \cup {None}
      /\ my(p).row # None => RowFor(my(p).row, my(p).arg, users)
      /\ my(p).op = "full" => my(p).row # None
  BY Asking
<1>2. i \in Ids /\ n \in Names
  BY DEF StoresOK
<1>3. my(p).op # None
  BY <1>1 DEF None
<1>4. CASE p = Main /\ my(p).row = None /\ Go(p, "insert", None, i, n)
  <2>. DEFINE c == Local(my(p).op, "insert", my(p).arg, None, i, n, None)
  <2>1. c.op = "create" /\ c.arg = my(p).arg /\ c.step = "insert" /\ c.row = None
        /\ c.id = i /\ c.name = n
    BY <1>1, <1>4 DEF Local
  <2>2. FoundOK(c, held', users')
    <3>. HIDE DEF c
    <3>. QED
      BY <1>1, <2>1 DEF FoundOK, None
  <2>. QED
    BY <1>2, <1>4, <2>2, GoKeeps DEF CallSteps
<1>5. CASE p = Main /\ my(p).row # None /\ Return(p)
  <2>1. HasRow(my(p).arg, users')
    BY <1>1, <1>5 DEF HasRow, RowFor
  <2>. QED
    BY <1>3, <1>5, <2>1, CallersAssumption, ReturnKeeps
<1>6. CASE p # Main /\ Done(p, my(p).row, i, "ok")
  BY <1>1, <1>2, <1>3, <1>6, DoneKeeps DEF Results
<1>. QED
  BY <1>4, <1>5, <1>6 DEF GotUser

LEMMA CacheHitKeeps ==
    ASSUME UsersInv, NEW p \in Callers, CacheHit(p)
    PROVE  UsersInv'
<1>1. my(p).step = "cache" /\ StoresOK' /\ Grows /\ held' = held /\ users' = users
  BY StoresStay DEF CacheHit, At, UsersInv
<1>2. my(p).arg \in Keys
  BY <1>1, Asking
<1>3. <<byName[my(p).arg], my(p).arg>> \in held'
  BY <1>1, <1>2 DEF CacheHit, UsersInv, StoresOK
<1>. QED
  BY <1>1, <1>3, GotUserKeeps DEF CacheHit

\* A call goes on, and keeps what it has.
LEMMA GotoKeeps ==
    ASSUME UsersInv, UNCHANGED <<account, held, stores>>, NEW p \in Callers,
           NEW step \in CallSteps, Goto(p, step),
           \/ my(p).step = "cache" /\ step = "ask"
           \/ my(p).step = "cacheId" /\ step = "askId"
    PROVE  UsersInv'
<1>1. StoresOK' /\ Grows /\ held' = held /\ users' = users
  BY StoresStay DEF UsersInv
<1>2. my(p) \in LocalType /\ FoundOK(my(p), held, users)
  BY Mine
<1>. DEFINE c == Local(my(p).op, step, my(p).arg, my(p).row, my(p).id, my(p).name, None)
<1>3. c.op = my(p).op /\ c.arg = my(p).arg /\ c.step = step /\ c.row = my(p).row
      /\ c.id = my(p).id /\ c.name = my(p).name /\ c.result = None
  BY DEF Local
<1>4. FoundOK(c, held', users')
  <2>. HIDE DEF c
  <2>. QED
    BY <1>1, <1>2, <1>3 DEF FoundOK, None
<1>5. /\ my(p).row \in Names \cup {None} /\ my(p).id \in Ids \cup {None}
      /\ my(p).name \in Names \cup {None}
  BY <1>2 DEF LocalType
<1>. QED
  BY <1>1, <1>4, <1>5, GoKeeps DEF Goto

LEMMA UserNameLookupKeeps ==
    ASSUME UsersInv, NEW p \in Callers, UserNameLookup(p)
    PROVE  UsersInv'
<1>1. my(p).step = "ask" /\ StoresOK' /\ Grows /\ held' = held /\ users' = users
  BY StoresStay DEF UserNameLookup, At, UsersInv
<1>2. /\ my(p).op \in {"create", "full"} /\ my(p).arg \in Keys
      /\ my(p).row \in Names \cup {None}
      /\ my(p).row # None => RowFor(my(p).row, my(p).arg, users)
      /\ my(p).op = "full" => my(p).row # None
  BY <1>1, Asking
<1>3. CASE Fail(p, "notFound")
  BY <1>1, <1>2, <1>3, FailKeeps DEF None
<1>4. ASSUME NEW i \in Ids, account[i] = my(p).arg, Go(p, "save", my(p).row, i, my(p).arg)
      PROVE  UsersInv'
  <2>1. my(p).arg \in Names /\ <<i, my(p).arg>> \in held
    BY <1>2, <1>4, Sorts DEF UsersInv, StoresOK
  <2>. DEFINE c == Local(my(p).op, "save", my(p).arg, my(p).row, i, my(p).arg, None)
  <2>2. c.op = my(p).op /\ c.arg = my(p).arg /\ c.step = "save" /\ c.row = my(p).row
        /\ c.id = i /\ c.name = my(p).arg /\ c.result = None
    BY DEF Local
  <2>3. FoundOK(c, held', users')
    <3>. HIDE DEF c
    <3>. QED
      BY <1>1, <1>2, <2>1, <2>2 DEF FoundOK, None
  <2>. QED
    BY <1>1, <1>2, <1>4, <2>1, <2>3, GoKeeps DEF CallSteps
<1>. QED
  BY <1>3, <1>4 DEF UserNameLookup

LEMMA SaveUserKeeps ==
    ASSUME UsersInv, NEW p \in Callers, SaveUser(p)
    PROVE  UsersInv'
<1>1. my(p).step = "save" /\ UNCHANGED <<account, held, users>>
  BY DEF SaveUser, At
<1>2. /\ my(p).op \in {"create", "full"}
      /\ FoundOK(my(p), held, users)
  BY <1>1, Asking, Mine
<1>3. <<my(p).id, my(p).name>> \in held /\ my(p).name = my(p).arg
  BY <1>1, <1>2 DEF FoundOK
<1>4. StoresOK' /\ Grows
  BY <1>1, <1>3, Sorts DEF SaveUser, UsersInv, StoresOK, Grows
<1>. QED
  BY <1>1, <1>3, <1>4, GotUserKeeps DEF SaveUser

\* BatchCreateUsersFromIDs was told of a user.
LEMMA ToldKeeps ==
    ASSUME UsersInv, NEW p \in Callers, my(p).step \in {"cacheId", "askId"},
           UNCHANGED <<account, held, stores>>,
           NEW name \in Names, <<my(p).arg, name>> \in held,
           Go(p, "row", None, my(p).arg, name)
    PROVE  UsersInv'
<1>1. StoresOK' /\ Grows /\ held' = held /\ users' = users
  BY StoresStay DEF UsersInv
<1>2. my(p).op = "ids" /\ my(p).arg \in Ids
  BY Mine DEF LocalType, FoundOK
<1>. DEFINE c == Local(my(p).op, "row", my(p).arg, None, my(p).arg, name, None)
<1>3. c.op = "ids" /\ c.arg = my(p).arg /\ c.step = "row" /\ c.id = my(p).arg
      /\ c.name = name
  BY <1>2 DEF Local
<1>4. FoundOK(c, held', users')
  <2>. HIDE DEF c
  <2>. QED
    BY <1>1, <1>2, <1>3 DEF FoundOK, None
<1>. QED
  BY <1>1, <1>2, <1>4, GoKeeps DEF CallSteps

LEMMA CacheIdHitKeeps ==
    ASSUME UsersInv, NEW p \in Callers, CacheIdHit(p)
    PROVE  UsersInv'
<1>1. my(p).step = "cacheId" /\ my(p).arg \in Ids
  BY Mine DEF CacheIdHit, At, LocalType, FoundOK
<1>2. byId[my(p).arg] \in Names /\ <<my(p).arg, byId[my(p).arg]>> \in held
  BY <1>1 DEF CacheIdHit, UsersInv, StoresOK
<1>. QED
  BY <1>1, <1>2, ToldKeeps DEF CacheIdHit

LEMMA UserLookupKeeps ==
    ASSUME UsersInv, NEW p \in Callers, UserLookup(p)
    PROVE  UsersInv'
<1>1. my(p).step = "askId" /\ my(p).arg \in Ids /\ my(p).op = "ids"
  BY Mine DEF UserLookup, At, LocalType, FoundOK
<1>2. CASE Fail(p, "error")
  <2>1. StoresOK' /\ Grows
    BY StoresStay DEF UserLookup, UsersInv
  <2>. QED
    BY <1>1, <1>2, <2>1, FailKeeps DEF None
<1>3. CASE account[my(p).arg] # Gone /\ Go(p, "row", None, my(p).arg, account[my(p).arg])
  <2>1. /\ account[my(p).arg] \in Names
        /\ <<my(p).arg, account[my(p).arg]>> \in held
    BY <1>1, <1>3 DEF UsersInv, StoresOK
  <2>. QED
    BY <1>1, <1>3, <2>1, ToldKeeps DEF UserLookup
<1>. QED
  BY <1>2, <1>3 DEF UserLookup

LEMMA CreateUserKeeps ==
    ASSUME UsersInv, NEW p \in Callers, CreateUser(p)
    PROVE  UsersInv'
<1>1. my(p) \in LocalType /\ OpOK(p, my(p)) /\ FoundOK(my(p), held, users)
  BY Mine
<1>2. my(p).step = "insert" /\ my(p).op \in {"create", "ids"}
  BY <1>1 DEF CreateUser, At, LocalType, FoundOK, None
<1>3. <<my(p).id, my(p).name>> \in held /\ (my(p).op = "create" => my(p).name = my(p).arg)
  BY <1>1, <1>2 DEF FoundOK
<1>4. my(p).id \in Ids /\ my(p).name \in Names
  BY <1>3 DEF UsersInv, StoresOK
<1>5. p \notin Requests /\ (p = Main => my(p).op = "create") /\ my(p).op # None
  BY <1>1, <1>2 DEF OpOK, None
<1>6. CASE Insert(p)
  <2>1. /\ users[my(p).name] = None /\ users' = [users EXCEPT ![my(p).name] = my(p).id]
        /\ Return(p) /\ UNCHANGED <<account, held, byName, byId>>
    BY <1>6 DEF Insert, CreateUser
  <2>2. StoresOK' /\ Grows
    BY <1>3, <1>4, <2>1, Sorts DEF UsersInv, StoresOK, Grows
  <2>3. users'[my(p).name] = my(p).id
    BY <1>4, <2>1 DEF UsersInv, StoresOK
  <2>4. p = Main => HasRow(my(p).arg, users')
    BY <1>3, <1>4, <1>5, <2>3 DEF HasRow
  <2>. QED
    BY <1>5, <2>1, <2>2, <2>4, ReturnKeeps
<1>7. CASE Fail(p, "error") /\ UNCHANGED users
  <2>1. StoresOK' /\ Grows
    BY <1>7, StoresStay DEF CreateUser, UsersInv, stores
  <2>. QED
    BY <1>5, <1>7, <2>1, FailKeeps
<1>. QED
  BY <1>6, <1>7 DEF CreateUser

LEMMA CallFailsKeeps ==
    ASSUME UsersInv, NEW p \in Callers, CallFails(p)
    PROVE  UsersInv'
<1>1. StoresOK' /\ Grows
  BY StoresStay DEF CallFails, UsersInv
<1>2. my(p).op # None
  BY Mine DEF CallFails, FoundOK
<1>. QED
  BY <1>1, <1>2, FailKeeps DEF CallFails

LEMMA StepKeeps ==
    ASSUME UsersInv, NEW p \in Callers, Step(p)
    PROVE  UsersInv'
<1>1. CASE CacheMiss(p)
  BY <1>1, GotoKeeps DEF CacheMiss, At, CallSteps
<1>2. CASE CacheIdMiss(p)
  BY <1>2, GotoKeeps DEF CacheIdMiss, At, CallSteps
<1>. QED
  BY <1>1, <1>2, GetRowKeeps, CacheHitKeeps, UserNameLookupKeeps, SaveUserKeeps,
     CacheIdHitKeeps, UserLookupKeeps, CreateUserKeeps, CallFailsKeeps DEF Step

-----------------------------------------------------------------------------
(* The other steps of module Users. *)

\* Neither the calls nor main's list change.
LEMMA OthersKeep ==
    ASSUME UsersInv, StoresOK', Grows, UNCHANGED <<todo, call>>
    PROVE  UsersInv'
<1>1. CallsOK'
  BY FoundStays DEF UsersInv, CallsOK, OpOK
<1>. QED
  BY <1>1, TodoStays DEF UsersInv

LEMMA RenameKeeps ==
    ASSUME UsersInv, NEW i \in Ids, NEW n \in Names, Rename(i, n)
    PROVE  UsersInv'
<1>1. /\ account' = [account EXCEPT ![i] = n] /\ held' = held \cup {<<i, n>>}
      /\ UNCHANGED <<stores, todo, call>>
  BY DEF Rename
<1>2. StoresOK' /\ Grows
  BY <1>1, Sorts DEF UsersInv, StoresOK, Grows, stores
<1>. QED
  BY <1>1, <1>2, OthersKeep

LEMMA LeaveKeeps ==
    ASSUME UsersInv, NEW i \in Ids, Leave(i)
    PROVE  UsersInv'
<1>1. /\ account' = [account EXCEPT ![i] = Gone]
      /\ UNCHANGED <<held, stores, todo, call>>
  BY DEF Leave
<1>2. StoresOK' /\ Grows
  BY <1>1, Sorts DEF UsersInv, StoresOK, Grows, stores
<1>. QED
  BY <1>1, <1>2, OthersKeep

LEMMA ExpireNameKeeps ==
    ASSUME UsersInv, NEW n \in Keys, ExpireName(n)
    PROVE  UsersInv'
<1>1. StoresOK' /\ Grows
  BY Sorts DEF ExpireName, UsersInv, StoresOK, Grows
<1>. QED
  BY <1>1, OthersKeep DEF ExpireName

LEMMA ExpireIdKeeps ==
    ASSUME UsersInv, NEW i \in Ids, ExpireId(i)
    PROVE  UsersInv'
<1>1. StoresOK' /\ Grows
  BY Sorts DEF ExpireId, UsersInv, StoresOK, Grows
<1>. QED
  BY <1>1, OthersKeep DEF ExpireId

LEMMA StartUserKeeps ==
    ASSUME UsersInv, StartUser
    PROVE  UsersInv'
<1>1. StoresOK' /\ Grows /\ UNCHANGED todo
  BY StoresStay DEF StartUser, UsersInv
<1>2. PICK n \in todo : call' = [call EXCEPT ![Main] = Call("create", n)]
  BY DEF StartUser
<1>3. n \in Configured /\ Main \in Callers
  BY DEF UsersInv, TodoOK, Callers
<1>. QED
  BY <1>1, <1>2, <1>3, FreshCall

LEMMA RestartKeeps ==
    ASSUME UsersInv, Restart
    PROVE  UsersInv'
<1>1. StoresOK'
  BY StoresStay DEF Restart, UsersInv
<1>2. /\ Idle.op = None /\ Idle.step = "idle" /\ Idle.row = None
      /\ Idle.result = None /\ Idle \in LocalType
  BY DEF Idle, Local, LocalType, CallSteps, Results
<1>3. \A p \in Callers : OpOK(p, Idle) /\ FoundOK(Idle, held', users')
  BY <1>2 DEF OpOK, FoundOK, None
<1>4. CallsOK'
  BY <1>2, <1>3 DEF Restart, CallsOK, OpOK
<1>5. TodoOK'
  BY DEF Restart, TodoOK
<1>. QED
  BY <1>1, <1>4, <1>5 DEF UsersInv

LEMMA UsersInitially ==
    ASSUME UsersInit
    PROVE  UsersInv
<1>1. StoresOK
  BY NamesAssumption, Sorts DEF UsersInit, StoresOK
<1>2. /\ Idle.op = None /\ Idle.step = "idle" /\ Idle.row = None
      /\ Idle.result = None /\ Idle \in LocalType
  BY DEF Idle, Local, LocalType, CallSteps, Results
<1>3. CallsOK
  BY <1>2 DEF UsersInit, CallsOK, OpOK, FoundOK, None
<1>4. TodoOK
  BY DEF UsersInit, TodoOK
<1>. QED
  BY <1>1, <1>3, <1>4 DEF UsersInv

LEMMA UsersNextKeeps ==
    ASSUME UsersInv, UsersNext
    PROVE  UsersInv'
BY RenameKeeps, LeaveKeeps, ExpireNameKeeps, ExpireIdKeeps, StartUserKeeps, StepKeeps
   DEF UsersNext

-----------------------------------------------------------------------------
(* The pages and the tweet. *)

Usernames == Names \cup {None, Gone}
TweetType == [author : Usernames, original : Usernames]
PageType ==
    [kind : ActorPages \cup {None, "webfinger", "status"}, name : Keys \cup {None},
     status : {0, 400, 404, 500}, tweet : TweetType, shown : Names \cup {None}]

\* A tweet's author is named as it was called once, or not at all.
TweetOK(t, names) ==
    /\ t \in TweetType
    /\ t # Absent =>
           /\ t.author \in Names => <<Author, t.author>> \in names
           /\ t.author # Gone /\ t.original # Gone

PageOK(q, names) ==
    /\ q \in PageType
    /\ TweetOK(q.tweet, names)
    /\ q.kind = "status" =>
           /\ q.name \in Names
           /\ q.status = 0 => q.tweet # Absent
           /\ q.status = 400 => q.tweet # Absent /\ q.tweet.author # q.name

TweetsOK ==
    /\ TweetOK(tweet, held)
    /\ draft \in [Sends -> TweetType]
    /\ \A s \in Sends : TweetOK(draft[s], held)

PagesOK ==
    /\ page \in [Requests -> PageType]
    /\ \A r \in Requests : PageOK(page[r], held)

IInv == UsersInv /\ TweetsOK /\ PagesOK

LEMMA AbsentOK ==
    ASSUME NEW names
    PROVE  TweetOK(Absent, names)
BY DEF TweetOK, Absent, TweetType, Usernames

LEMMA NoPageOK ==
    ASSUME NEW names
    PROVE  PageOK(NoPage, names)
<1>1. /\ NoPage.kind = None /\ NoPage.name = None /\ NoPage.status = 0
      /\ NoPage.tweet = Absent /\ NoPage.shown = None
  BY DEF NoPage, Asked
<1>2. Absent \in TweetType
  BY DEF Absent, TweetType, Usernames
<1>3. NoPage \in PageType
  BY <1>2 DEF NoPage, Asked, PageType
<1>. QED
  BY <1>1, <1>3, AbsentOK DEF PageOK, None

LEMMA Initially == Init => IInv
<1>. SUFFICES ASSUME Init PROVE IInv
  OBVIOUS
<1>1. UsersInv
  BY UsersInitially DEF Init
<1>2. TweetsOK
  BY AbsentOK DEF Init, TweetsOK, TweetOK
<1>3. PagesOK
  BY NoPageOK DEF Init, PagesOK, PageOK
<1>. QED
  BY <1>1, <1>2, <1>3 DEF IInv

\* Names are only added: what is said of tweets and pages stays.
LEMMA PagesStay ==
    ASSUME IInv, held \subseteq held', UNCHANGED pageVars
    PROVE  TweetsOK' /\ PagesOK'
BY DEF IInv, TweetsOK, PagesOK, TweetOK, PageOK, pageVars

LEMMA HeldGrows ==
    ASSUME UsersInv, UsersNext
    PROVE  held \subseteq held'
BY DEF UsersNext, Rename, Leave, ExpireName, ExpireId, StartUser, Step, GetRow, CacheHit,
       CacheMiss, UserNameLookup, SaveUser, CacheIdHit, CacheIdMiss, UserLookup,
       CreateUser, CallFails

LEMMA BeginSendKeeps ==
    ASSUME IInv, NEW s \in Sends, BeginSend(s)
    PROVE  IInv'
<1>1. UsersInv'
  <2>1. StoresOK' /\ Grows
    BY StoresStay DEF BeginSend, IInv, UsersInv
  <2>2. s \in Callers /\ Author \in Ids
    BY AuthorsAssumption DEF Callers
  <2>. QED
    BY <2>1, <2>2, FreshCall DEF BeginSend, IInv
<1>2. PICK author \in AuthorUsername(Author) :
        \E original \in IF Original = None THEN {None} ELSE AuthorUsername(Original) :
            draft' = [draft EXCEPT ![s] = [author |-> author, original |-> original]]
  BY DEF BeginSend
<1>3. PICK original \in IF Original = None THEN {None} ELSE AuthorUsername(Original) :
            draft' = [draft EXCEPT ![s] = [author |-> author, original |-> original]]
  BY <1>2
<1>. DEFINE t == [author |-> author, original |-> original]
<1>4. author \in Names \cup {None} /\ (author \in Names => <<Author, author>> \in held)
  BY <1>2, AuthorsAssumption, Sorts DEF AuthorUsername, IInv, UsersInv, StoresOK
<1>5. original \in Names \cup {None}
  BY <1>3, AuthorsAssumption, Sorts DEF AuthorUsername, IInv, UsersInv, StoresOK
<1>6. TweetOK(t, held)
  BY <1>4, <1>5, Sorts, NoneAssumption DEF TweetOK, TweetType, Usernames, None, Gone
<1>7. TweetsOK'
  BY <1>3, <1>6 DEF BeginSend, IInv, TweetsOK, TweetOK
<1>8. PagesOK'
  BY DEF BeginSend, IInv, PagesOK
<1>. QED
  BY <1>1, <1>7, <1>8 DEF IInv

LEMMA StoreKeeps ==
    ASSUME IInv, NEW s \in Sends, Store(s)
    PROVE  IInv'
<1>1. UsersInv'
  <2>1. StoresOK' /\ Grows
    BY StoresStay DEF Store, IInv, UsersInv
  <2>2. s \in Callers
    BY DEF Callers
  <2>. QED
    BY <2>1, <2>2, FreshCall DEF Store, IInv
<1>2. TweetsOK'
  BY AbsentOK DEF Store, IInv, TweetsOK, TweetOK
<1>3. PagesOK'
  BY DEF Store, IInv, PagesOK
<1>. QED
  BY <1>1, <1>2, <1>3 DEF IInv

LEMMA ExpireTweetKeeps ==
    ASSUME IInv, ExpireTweet
    PROVE  IInv'
<1>1. UsersInv'
  <2>1. StoresOK' /\ Grows
    BY StoresStay DEF ExpireTweet, IInv, UsersInv, userVars, stores
  <2>. QED
    BY <2>1, OthersKeep DEF ExpireTweet, IInv, userVars
<1>2. TweetsOK' /\ PagesOK'
  BY AbsentOK DEF ExpireTweet, IInv, TweetsOK, PagesOK, userVars
<1>. QED
  BY <1>1, <1>2 DEF IInv

\* A request asks for page q, and its call becomes c.
LEMMA AskKeeps ==
    ASSUME IInv, NEW r \in Requests, NEW q, PageOK(q, held), NEW c,
           page' = [page EXCEPT ![r] = q], call' = [call EXCEPT ![r] = c],
           c = Answered \/ c \in {Call("full", n) : n \in Keys},
           UNCHANGED <<account, held, stores, todo, tweet, draft>>
    PROVE  IInv'
<1>1. UsersInv'
  <2>1. StoresOK' /\ Grows
    BY StoresStay DEF IInv, UsersInv
  <2>2. r \in Callers
    BY DEF Callers
  <2>. QED
    BY <2>1, <2>2, FreshCall DEF IInv
<1>2. TweetsOK'
  BY DEF IInv, TweetsOK
<1>3. PagesOK'
  BY DEF IInv, PagesOK, PageOK
<1>. QED
  BY <1>1, <1>2, <1>3 DEF IInv

LEMMA AskActorPageKeeps ==
    ASSUME IInv, NEW r \in Requests, AskActorPage(r)
    PROVE  IInv'
<1>1. PICK kind \in Kinds \cap ActorPages, name \in Keys :
        /\ page' = [page EXCEPT ![r] = Asked(kind, name, 0, Absent, None)]
        /\ call' = [call EXCEPT ![r] = Call("full", name)]
  BY DEF AskActorPage
<1>. DEFINE q == Asked(kind, name, 0, Absent, None)
<1>2. q.kind = kind /\ q.tweet = Absent
  BY DEF Asked
<1>3. q \in PageType
  <2>1. Absent \in TweetType
    BY DEF Absent, TweetType, Usernames
  <2>. QED
    BY <2>1 DEF Asked, PageType
<1>4. PageOK(q, held)
  BY <1>2, <1>3, AbsentOK DEF PageOK, ActorPages
<1>. QED
  BY <1>1, <1>4, AskKeeps DEF AskActorPage

LEMMA WebFingerPage ==
    ASSUME NEW name \in Keys \cup {None}, NEW status \in {0, 400, 404}, NEW names
    PROVE  PageOK(Asked("webfinger", name, status, Absent, None), names)
<1>. DEFINE q == Asked("webfinger", name, status, Absent, None)
<1>1. q.kind = "webfinger" /\ q.tweet = Absent
  BY DEF Asked
<1>2. q \in PageType
  <2>1. Absent \in TweetType
    BY DEF Absent, TweetType, Usernames
  <2>. QED
    BY <2>1 DEF Asked, PageType
<1>. QED
  BY <1>1, <1>2, AbsentOK DEF PageOK

LEMMA AskWebFingerKeeps ==
    ASSUME IInv, NEW r \in Requests, AskWebFinger(r)
    PROVE  IInv'
<1>1. UNCHANGED <<account, held, stores, todo, tweet, draft>>
  BY DEF AskWebFinger
<1>2. ASSUME NEW name \in Keys,
             page' = [page EXCEPT ![r] = Asked("webfinger", name, 0, Absent, None)],
             call' = [call EXCEPT ![r] = Call("full", name)]
      PROVE  IInv'
  BY <1>1, <1>2, WebFingerPage, AskKeeps
<1>3. ASSUME NEW status \in {400, 404},
             page' = [page EXCEPT ![r] = Asked("webfinger", None, status, Absent, None)],
             call' = [call EXCEPT ![r] = Answered]
      PROVE  IInv'
  <2>1. PageOK(Asked("webfinger", None, status, Absent, None), held)
    BY <1>3, WebFingerPage
  <2>. QED
    BY <1>1, <1>3, <2>1, AskKeeps
<1>. QED
  BY <1>2, <1>3 DEF AskWebFinger

LEMMA StatusPage ==
    ASSUME NEW name \in Names, NEW status \in {0, 400, 404, 500}, NEW names,
           NEW t, TweetOK(t, names), NEW shown \in Names \cup {None},
           status = 0 => t # Absent,
           status = 400 => t # Absent /\ t.author # name
    PROVE  PageOK(Asked("status", name, status, t, shown), names)
<1>. DEFINE q == Asked("status", name, status, t, shown)
<1>1. q.kind = "status" /\ q.tweet = t /\ q.name = name /\ q.status = status
  BY DEF Asked
<1>2. q \in PageType
  BY Sorts DEF Asked, PageType, TweetOK
<1>. QED
  BY <1>1, <1>2 DEF PageOK

LEMMA AskStatusKeeps ==
    ASSUME IInv, NEW r \in Requests, AskStatus(r)
    PROVE  IInv'
<1>1. UNCHANGED <<account, held, stores, todo, tweet, draft>> /\ TweetOK(tweet, held)
  BY DEF AskStatus, IInv, TweetsOK
<1>2. PICK name \in Names :
        \/ \E status \in {400, 404, 500} :
             /\ status = 400 => tweet # Absent /\ tweet.author # name
             /\ page' = [page EXCEPT ![r] = Asked("status", name, status, tweet, None)]
             /\ call' = [call EXCEPT ![r] = Answered]
        \/ /\ tweet.author = name
           /\ page' = [page EXCEPT ![r] = Asked("status", name, 0, tweet, None)]
           /\ call' = [call EXCEPT ![r] = Call("full", name)]
  BY DEF AskStatus
<1>3. ASSUME NEW status \in {400, 404, 500},
             status = 400 => tweet # Absent /\ tweet.author # name,
             page' = [page EXCEPT ![r] = Asked("status", name, status, tweet, None)],
             call' = [call EXCEPT ![r] = Answered]
      PROVE  IInv'
  <2>. DEFINE q == Asked("status", name, status, tweet, None)
  <2>1. PageOK(q, held)
    BY <1>1, <1>3, StatusPage
  <2>2. page' = [page EXCEPT ![r] = q] /\ call' = [call EXCEPT ![r] = Answered]
    BY <1>3
  <2>. HIDE DEF q
  <2>. QED
    BY <1>1, <2>1, <2>2, AskKeeps
<1>4. CASE /\ tweet.author = name
           /\ page' = [page EXCEPT ![r] = Asked("status", name, 0, tweet, None)]
           /\ call' = [call EXCEPT ![r] = Call("full", name)]
  <2>1. tweet # Absent /\ name \in Keys
    BY <1>4, Sorts DEF Absent
  <2>. QED
    <3>1. PageOK(Asked("status", name, 0, tweet, None), held)
      BY <1>1, <2>1, StatusPage
    <3>. QED
      BY <1>1, <1>4, <2>1, <3>1, AskKeeps
<1>. QED
  BY <1>2, <1>3, <1>4

LEMMA AskRetweetKeeps ==
    ASSUME IInv, NEW r \in Requests, AskRetweet(r)
    PROVE  IInv'
<1>. DEFINE t == page[r].tweet
            name == page[r].name
            shown == my(r).row
<1>1. PageOK(page[r], held) /\ page[r].kind = "status" /\ page[r].status = 0
      /\ t.original # None
  BY DEF AskRetweet, IInv, PagesOK
<1>2. name \in Names /\ t # Absent /\ TweetOK(t, held) /\ t.original \in Keys
  BY <1>1, Sorts DEF PageOK, TweetOK, TweetType, Usernames
<1>3. shown \in Names \cup {None}
  <2>1. r \in Callers
    BY DEF Callers
  <2>. QED
    BY <2>1, Mine DEF IInv, LocalType
<1>4. PageOK(Asked("status", name, 0, t, shown), held)
  BY <1>2, <1>3, StatusPage
<1>. QED
  BY <1>2, <1>4, AskKeeps DEF AskRetweet

LEMMA RestartAllKeeps ==
    ASSUME IInv, RestartAll
    PROVE  IInv'
<1>1. UsersInv'
  BY RestartKeeps DEF RestartAll, IInv
<1>2. TweetsOK'
  BY AbsentOK DEF RestartAll, Restart, IInv, TweetsOK, TweetOK
<1>3. PagesOK'
  BY NoPageOK DEF RestartAll, PagesOK, PageOK
<1>. QED
  BY <1>1, <1>2, <1>3 DEF IInv

\* The inductive invariant of the user service and the pages.
THEOREM Invariance == Spec => []IInv
<1>1. IInv /\ [Next]_vars => IInv'
  <2>. SUFFICES ASSUME IInv, [Next]_vars PROVE IInv'
    OBVIOUS
  <2>1. CASE UsersNext /\ UNCHANGED pageVars
    BY <2>1, UsersNextKeeps, HeldGrows, PagesStay DEF IInv
  <2>2. CASE UNCHANGED vars
    <3>1. StoresOK' /\ Grows
      BY <2>2, StoresStay DEF vars, userVars, stores, IInv, UsersInv
    <3>2. UsersInv'
      BY <2>2, <3>1, OthersKeep DEF vars, userVars, IInv
    <3>. QED
      BY <2>2, <3>2, PagesStay DEF vars, userVars, IInv
  <2>. QED
    BY <2>1, <2>2, BeginSendKeeps, StoreKeeps, ExpireTweetKeeps, AskActorPageKeeps,
       AskWebFingerKeeps, AskStatusKeeps, AskRetweetKeeps, RestartAllKeeps DEF Next
<1>. QED
  BY Initially, <1>1, PTL DEF Spec

-----------------------------------------------------------------------------
(* What follows. *)

\* Every variable of the user service keeps its type, and every page is answered
\* with a status of its handler.
THEOREM TypeCorrect == Spec => []TypeOK
<1>1. IInv => TypeOK
  <2>. SUFFICES ASSUME IInv PROVE TypeOK
    OBVIOUS
  <2>1. UsersTypeOK
    BY DEF IInv, UsersInv, StoresOK, CallsOK, TodoOK, LocalType, UsersTypeOK, my
  <2>2. ASSUME NEW r \in Requests
        PROVE  Status(r) \in {0, 200, 400, 404, 500}
    <3>1. page[r].status \in {0, 400, 404, 500}
      BY DEF IInv, PagesOK, PageType
    <3>. QED
      BY <3>1 DEF Status, HandleUser, HandleFollowing, HandleFollowers, HandleOutbox,
                  HandleWebFinger, HandleStatus
  <2>. QED
    BY <2>1, <2>2 DEF TypeOK
<1>. QED
  BY Invariance, <1>1, PTL

\* When main serves, BatchCreateUsers has seen to it that every configured user
\* has a row, whoever inserted it.
THEOREM ServedUsersHaveRows == Spec => []ConfiguredUsersHaveRows
<1>1. IInv => ConfiguredUsersHaveRows
  BY Sorts DEF IInv, UsersInv, TodoOK, HasRow, ConfiguredUsersHaveRows, Started
<1>. QED
  BY Invariance, <1>1, PTL

\* CreateUser gives an account a second row only under another of its names.
THEOREM OneRowPerName == Spec => []SecondRowNeedsRename
<1>1. IInv => SecondRowNeedsRename
  BY DEF IInv, UsersInv, StoresOK, SecondRowNeedsRename, Renamed
<1>. QED
  BY Invariance, <1>1, PTL

\* GetFullUser joins a row and a Twitter user of one account, cached or not.
THEOREM PagesShowOneAccount == Spec => []OneAccountPerPage
<1>1. IInv => OneAccountPerPage
  <2>. SUFFICES ASSUME IInv, NEW p \in Requests, my(p).result = "ok",
                       my(p).id # users[my(p).row], my(p).arg \notin Ids
                PROVE  ChangedHands(my(p).arg)
    BY DEF OneAccountPerPage
  <2>1. p \in Callers
    BY DEF Callers
  <2>2. my(p) \in LocalType /\ OpOK(p, my(p)) /\ FoundOK(my(p), held, users)
    BY <2>1, Mine DEF IInv
  <2>3. my(p).op = "full"
    BY <2>2 DEF OpOK, FoundOK, None
  <2>4. RowFor(my(p).row, my(p).arg, users) /\ <<my(p).id, my(p).arg>> \in held
    BY <2>2, <2>3 DEF FoundOK
  <2>5. my(p).row = my(p).arg /\ users[my(p).row] \in Ids /\ my(p).arg \in Names
    BY <2>4 DEF RowFor
  <2>6. <<users[my(p).row], my(p).arg>> \in held
    BY <2>5, Sorts DEF IInv, UsersInv, StoresOK
  <2>7. my(p).id \in Ids
    BY <2>4 DEF IInv, UsersInv, StoresOK
  <2>. QED
    BY <2>4, <2>5, <2>6, <2>7 DEF ChangedHands
<1>. QED
  BY Invariance, <1>1, PTL

\* HandleStatus refuses a note's link only after its author was renamed, or if
\* Twitter did not say who wrote it.
THEOREM NotesAreFound == Spec => []NoteLinksResolve
<1>1. IInv => NoteLinksResolve
  <2>. SUFFICES ASSUME IInv, NEW r \in Requests, page[r].kind = "status",
                       users[page[r].name] = Author, Status(r) = 400,
                       page[r].tweet.author # None
                PROVE  Renamed(Author)
    BY DEF NoteLinksResolve
  <2>1. PageOK(page[r], held) /\ page[r].status \in {0, 400, 404, 500}
    BY DEF IInv, PagesOK, PageType
  <2>2. page[r].status = 400
    BY <2>1 DEF Status, HandleUser, HandleFollowing, HandleFollowers, HandleOutbox,
                HandleWebFinger, HandleStatus
  <2>3. /\ page[r].name \in Names /\ page[r].tweet.author # page[r].name
        /\ page[r].tweet.author \in Names /\ <<Author, page[r].tweet.author>> \in held
    BY <2>1, <2>2 DEF PageOK, TweetOK, TweetType, Usernames
  <2>4. <<Author, page[r].name>> \in held
    BY <2>3, AuthorsAssumption, Sorts DEF IInv, UsersInv, StoresOK
  <2>. QED
    BY <2>3, <2>4 DEF Renamed
<1>. QED
  BY Invariance, <1>1, PTL
=============================================================================
