----------------------------- MODULE ServerProofs -----------------------------
(***************************************************************************)
(* Proofs about Server and Signatures, for any remote actors, requests,    *)
(* settings and size of the key cache.                                     *)
(*                                                                         *)
(* What the key cache holds was told since the process started, and by the *)
(* actor the key is of: so is what a request holds between asking for a    *)
(* key and adding it.  The programs' phases fix what was started.          *)
(***************************************************************************)
EXTENDS Server, TLAPS

\* A key number that an actor has had since the process started.
Recent(a, k) == born[a] <= k /\ k <= key[a]

CacheOK == \A i \in DOMAIN cache : Recent(cache[i].actor, cache[i].key)

ReqOK(q) ==
    /\ q.step \in {"get", "ask", "add"} => q.actor \in Actors
    /\ q.actor \in Actors => q.made <= key[q.actor]
    /\ q.step = "add" => Recent(q.actor, q.got)
    /\ q.step = "refused" /\ q.actor \in Actors \ Unusual /\ key[q.actor] = born[q.actor] =>
           q.made < key[q.actor]
    /\ q.step = "handled" /\ ~DisableHTTPSignatureVerify =>
           q.actor \in Actors /\ born[q.actor] <= q.made

SigInv ==
    /\ SigTypeOK
    /\ \A a \in Actors : born[a] <= key[a]
    /\ CacheOK
    /\ \A r \in Requests : ReqOK(req[r])

Entry == [actor : Actors, key : 0..MaxChanges]
Record == [step : Steps, actor : Actors \cup {None}, made : 0..MaxChanges, got : 0..MaxChanges]

-----------------------------------------------------------------------------
(* The cache. *)

LEMMA OthersAreCached ==
    ASSUME SigTypeOK, NEW a
    PROVE  /\ Others(a) \in Seq(Entry)
           /\ \A i \in DOMAIN Others(a) : \E j \in DOMAIN cache : Others(a)[i] = cache[j]
<1>1. cache \in Seq(Entry)
  BY DEF SigTypeOK, Entry
<1>2. CASE Hit(a)
  <2>1. Cached(a) \in DOMAIN cache
    BY <1>2 DEF Hit, Cached
  <2>2. Cached(a) \in 1..Len(cache)
    BY <1>1, <2>1
  <2>. DEFINE front == SubSeq(cache, 1, Cached(a) - 1)
              back == SubSeq(cache, Cached(a) + 1, Len(cache))
  <2>3. front \in Seq(Entry) /\ Len(front) = Cached(a) - 1
        /\ \A i \in 1..Len(front) : front[i] = cache[i]
    BY <1>1, <2>2
  <2>4. back \in Seq(Entry) /\ Len(back) = Len(cache) - Cached(a)
        /\ \A i \in 1..Len(back) : back[i] = cache[i + Cached(a)]
    BY <1>1, <2>2
  <2>5. Others(a) = front \o back
    BY <1>2 DEF Others
  <2>. HIDE DEF front, back
  <2>6. Others(a) \in Seq(Entry)
    BY <2>3, <2>4, <2>5
  <2>7. ASSUME NEW i \in DOMAIN Others(a)
        PROVE  \E j \in DOMAIN cache : Others(a)[i] = cache[j]
    <3>1. i \in 1..(Len(front) + Len(back))
      BY <2>3, <2>4, <2>5, <2>7
    <3>2. CASE i <= Len(front)
      <4>1. Others(a)[i] = front[i] /\ i \in 1..Len(front)
        BY <2>3, <2>4, <2>5, <3>1, <3>2
      <4>2. i \in DOMAIN cache
        BY <1>1, <2>2, <2>3, <4>1
      <4>. QED
        BY <2>3, <4>1, <4>2
    <3>3. CASE i > Len(front)
      <4>. DEFINE k == i - Len(front)
      <4>1. Others(a)[i] = back[k] /\ k \in 1..Len(back)
        BY <2>3, <2>4, <2>5, <3>1, <3>3
      <4>2. k + Cached(a) \in DOMAIN cache
        BY <1>1, <2>2, <2>4, <4>1
      <4>3. back[k] = cache[k + Cached(a)]
        BY <2>4, <4>1
      <4>. QED
        BY <4>1, <4>2, <4>3
    <3>. QED
      BY <2>3, <3>1, <3>2, <3>3
  <2>. QED
    BY <2>6, <2>7
<1>3. CASE ~Hit(a)
  BY <1>1, <1>3 DEF Others
<1>. QED
  BY <1>2, <1>3

LEMMA TouchKeeps ==
    ASSUME SigInv, NEW a, Hit(a)
    PROVE  /\ Touch(a) \in Seq(Entry)
           /\ \A i \in DOMAIN Touch(a) : Recent(Touch(a)[i].actor, Touch(a)[i].key)
<1>1. Cached(a) \in DOMAIN cache
  BY DEF Hit, Cached
<1>a. cache \in Seq(Entry)
  BY DEF SigInv, SigTypeOK, Entry
<1>2. cache \in Seq(Entry) /\ cache[Cached(a)] \in Entry
  BY <1>1, <1>a
<1>3. /\ Others(a) \in Seq(Entry)
      /\ \A i \in DOMAIN Others(a) : \E j \in DOMAIN cache : Others(a)[i] = cache[j]
  BY OthersAreCached DEF SigInv
<1>4. Touch(a) = <<cache[Cached(a)]>> \o Others(a)
  BY DEF Touch
<1>5. Touch(a) \in Seq(Entry)
  BY <1>2, <1>3, <1>4
<1>6. ASSUME NEW i \in DOMAIN Touch(a)
      PROVE  \E j \in DOMAIN cache : Touch(a)[i] = cache[j]
  <2>1. CASE i = 1
    BY <1>1, <1>2, <1>3, <1>4, <2>1
  <2>2. CASE i # 1
    <3>1. i - 1 \in DOMAIN Others(a) /\ Touch(a)[i] = Others(a)[i - 1]
      BY <1>2, <1>3, <1>4, <1>6, <2>2
    <3>. QED
      BY <1>3, <3>1
  <2>. QED
    BY <2>1, <2>2
<1>. QED
  BY <1>5, <1>6 DEF SigInv, CacheOK

LEMMA AddKeeps ==
    ASSUME SigInv, NEW a \in Actors, NEW k \in 0..MaxChanges, Recent(a, k)
    PROVE  /\ Add(a, k) \in Seq(Entry)
           /\ \A i \in DOMAIN Add(a, k) : Recent(Add(a, k)[i].actor, Add(a, k)[i].key)
<1>. DEFINE new == [actor |-> a, key |-> k]
            entries == <<new>> \o Others(a)
<1>1. new \in Entry /\ Recent(new.actor, new.key)
  BY DEF Entry
<1>2. /\ Others(a) \in Seq(Entry)
      /\ \A i \in DOMAIN Others(a) : \E j \in DOMAIN cache : Others(a)[i] = cache[j]
  BY OthersAreCached DEF SigInv
<1>. HIDE DEF new
<1>3. entries \in Seq(Entry)
  BY <1>1, <1>2
<1>4. ASSUME NEW i \in DOMAIN entries
      PROVE  Recent(entries[i].actor, entries[i].key)
  <2>1. CASE i = 1
    <3>1. entries[i] = new
      BY <1>1, <1>2, <2>1
    <3>. QED
      BY <1>1, <3>1
  <2>2. CASE i # 1
    <3>1. i - 1 \in DOMAIN Others(a) /\ entries[i] = Others(a)[i - 1]
      BY <1>1, <1>2, <1>4, <2>2
    <3>. QED
      BY <1>2, <3>1 DEF SigInv, CacheOK
  <2>. QED
    BY <2>1, <2>2
<1>5. Add(a, k) = IF Len(entries) > Capacity THEN SubSeq(entries, 1, Capacity) ELSE entries
  BY DEF Add, new
<1>. HIDE DEF entries
<1>6. CASE Len(entries) > Capacity
  <2>1. Add(a, k) \in Seq(Entry) /\ Len(Add(a, k)) = Capacity
        /\ \A i \in 1..Capacity : Add(a, k)[i] = entries[i]
    BY <1>3, <1>5, <1>6, CapacityAssumption
  <2>. QED
    BY <1>3, <1>4, <1>6, <2>1, CapacityAssumption
<1>7. CASE ~(Len(entries) > Capacity)
  BY <1>3, <1>4, <1>5, <1>7
<1>. QED
  BY <1>6, <1>7

-----------------------------------------------------------------------------
(* The requests. *)

Told == <<key, born>>

\* A step of one request, which becomes q, that leaves the keys alone.
LEMMA OneRequest ==
    ASSUME SigInv, NEW r \in Requests, NEW q \in Record, ReqOK(q),
           req' = [req EXCEPT ![r] = q], UNCHANGED Told,
           cache' \in Seq(Entry),
           \A i \in DOMAIN cache' : Recent(cache'[i].actor, cache'[i].key)
    PROVE  SigInv'
<1>1. SigTypeOK'
  BY DEF SigInv, SigTypeOK, Entry, Record, Told
<1>2. CacheOK'
  BY DEF CacheOK, Recent, Told
<1>3. ReqOK(q)'
  BY DEF ReqOK, Recent, Told
<1>4. \A s \in Requests \ {r} : ReqOK(req[s])'
  BY DEF SigInv, SigTypeOK, ReqOK, Recent, Told
<1>5. req'[r] = q
  BY DEF SigInv, SigTypeOK
<1>. QED
  BY <1>1, <1>2, <1>3, <1>4, <1>5 DEF SigInv, Told, ReqOK, Recent

LEMMA CacheStays ==
    ASSUME SigInv, UNCHANGED cache
    PROVE  /\ cache' \in Seq(Entry)
           /\ \A i \in DOMAIN cache' : Recent(cache'[i].actor, cache'[i].key)
BY DEF SigInv, SigTypeOK, CacheOK, Entry

\* The answer to a request whose signature was made with no key later than the
\* actor's: only a recent key it verifies with lets it through.
LEMMA AnswerOK ==
    ASSUME SigInv, NEW r \in Requests, req[r].actor \in Actors,
           NEW k \in Nat, Recent(req[r].actor, k)
    PROVE  LET a == req[r].actor
               step == IF Verify(a, req[r].made, k) \/ DisableHTTPSignatureVerify
                       THEN "handled" ELSE "refused"
               q == Request(step, a, req[r].made, 0)
           IN  q \in Record /\ ReqOK(q)
<1>. DEFINE a == req[r].actor
            made == req[r].made
            step == IF Verify(a, made, k) \/ DisableHTTPSignatureVerify
                    THEN "handled" ELSE "refused"
            q == Request(step, a, made, 0)
<1>1. made \in 0..MaxChanges /\ made <= key[a] /\ key[a] \in Nat /\ born[a] \in Nat
  BY ChangesAssumption DEF SigInv, SigTypeOK, ReqOK
<1>2. step \in {"handled", "refused"}
  OBVIOUS
<1>3. /\ q.step = step /\ q.actor = a /\ q.made = made /\ q.got = 0
      /\ q \in Record
  BY <1>1, <1>2, ChangesAssumption DEF Request, Record, Steps
<1>4. step = "handled" /\ ~DisableHTTPSignatureVerify => born[a] <= made
  BY SettingAssumption DEF Verify, Recent
<1>5. step = "refused" /\ a \in Actors \ Unusual /\ key[a] = born[a] => made < key[a]
  BY <1>1 DEF Verify, Algorithm, Recent, None
<1>6. ReqOK(q)
  BY <1>1, <1>2, <1>3, <1>4, <1>5 DEF ReqOK
<1>. QED
  BY <1>3, <1>6

LEMMA UnsignedKeeps ==
    ASSUME SigInv, NEW r \in Requests, Unsigned(r)
    PROVE  SigInv'
<1>. DEFINE step == IF DisableHTTPSignatureVerify THEN "handled" ELSE "refused"
            q == Request(step, None, 0, 0)
<1>1. q.step = step /\ q.actor = None /\ q \in Record
  BY ChangesAssumption DEF Request, Record, Steps
<1>2. ReqOK(q)
  BY <1>1, NoneAssumption, SettingAssumption DEF ReqOK
<1>3. req' = [req EXCEPT ![r] = q] /\ UNCHANGED Told /\ UNCHANGED cache
  BY DEF Unsigned, Told
<1>. QED
  BY <1>1, <1>2, <1>3, OneRequest, CacheStays

LEMMA ArriveKeeps ==
    ASSUME SigInv, NEW r \in Requests, Arrive(r)
    PROVE  SigInv'
<1>a. PICK a \in Actors :
        \E made \in 0..key[a] : req' = [req EXCEPT ![r] = Request("get", a, made, 0)]
  BY DEF Arrive
<1>1. PICK made \in 0..key[a] : req' = [req EXCEPT ![r] = Request("get", a, made, 0)]
  BY <1>a
<1>. DEFINE q == Request("get", a, made, 0)
<1>2. key[a] \in 0..MaxChanges
  BY DEF SigInv, SigTypeOK
<1>3. q.step = "get" /\ q.actor = a /\ q.made = made /\ q \in Record
  BY <1>2, ChangesAssumption DEF Request, Record, Steps
<1>4. ReqOK(q)
  BY <1>2, <1>3, ChangesAssumption DEF ReqOK
<1>5. UNCHANGED Told /\ UNCHANGED cache
  BY DEF Arrive, Told
<1>. QED
  BY <1>1, <1>3, <1>4, <1>5, OneRequest, CacheStays

\* A request goes on to ask for the key, or fails to get it.
LEMMA WithoutKeyKeeps ==
    ASSUME SigInv, NEW r \in Requests, req[r].step \in {"get", "ask"},
           NEW step \in {"ask", "failed", "handled"}, Goto(r, step, 0),
           step = "handled" => DisableHTTPSignatureVerify,
           UNCHANGED Told, UNCHANGED cache
    PROVE  SigInv'
<1>. DEFINE q == Request(step, req[r].actor, req[r].made, 0)
<1>1. req[r] \in Record /\ req[r].actor \in Actors /\ req[r].made <= key[req[r].actor]
  BY DEF SigInv, SigTypeOK, ReqOK, Record
<1>2. q.step = step /\ q.actor = req[r].actor /\ q.made = req[r].made /\ q \in Record
  BY <1>1, ChangesAssumption DEF Request, Record, Steps
<1>3. ReqOK(q)
  BY <1>1, <1>2 DEF ReqOK
<1>. QED
  BY <1>2, <1>3, OneRequest, CacheStays DEF Goto

LEMMA GetKeyKeeps ==
    ASSUME SigInv, NEW r \in Requests, GetKey(r)
    PROVE  SigInv'
<1>. DEFINE a == req[r].actor
            k == cache[Cached(a)].key
<1>1. Is(r, "get") /\ UNCHANGED Told
  BY DEF GetKey, Told
<1>2. a \in Actors
  BY <1>1 DEF SigInv, ReqOK, Is
<1>3. CASE Hit(a)
  <2>1. Cached(a) \in DOMAIN cache /\ cache[Cached(a)].actor = a
    BY <1>3 DEF Hit, Cached
  <2>2. cache \in Seq(Entry)
    BY DEF SigInv, SigTypeOK, Entry
  <2>a. cache[Cached(a)] \in Entry
    BY <2>1, <2>2
  <2>b. Recent(a, k)
    BY <2>1 DEF SigInv, CacheOK
  <2>3. k \in Nat /\ Recent(a, k)
    BY <2>a, <2>b, ChangesAssumption DEF Entry
  <2>4. cache' = Touch(a) /\ Answer(r, Verify(a, req[r].made, k), "refused")
    BY <1>3 DEF GetKey
  <2>5. /\ cache' \in Seq(Entry)
        /\ \A i \in DOMAIN cache' : Recent(cache'[i].actor, cache'[i].key)
    BY <1>3, <2>4, TouchKeeps
  <2>. QED
    BY <1>1, <1>2, <2>3, <2>4, <2>5, AnswerOK, OneRequest DEF Answer, Goto
<1>4. CASE ~Hit(a)
  <2>1. Goto(r, "ask", 0) /\ UNCHANGED cache
    BY <1>4 DEF GetKey
  <2>. QED
    BY <1>1, <2>1, WithoutKeyKeeps DEF Is
<1>. QED
  BY <1>3, <1>4

LEMMA AskKeyKeeps ==
    ASSUME SigInv, NEW r \in Requests, AskKey(r)
    PROVE  SigInv'
<1>. DEFINE a == req[r].actor
            q == Request("add", a, req[r].made, key[a])
<1>1. req[r] \in Record /\ a \in Actors /\ req[r].made <= key[a]
  BY DEF SigInv, SigTypeOK, ReqOK, Record, AskKey, Is
<1>2. key[a] \in 0..MaxChanges /\ born[a] \in 0..MaxChanges /\ born[a] <= key[a]
  BY <1>1 DEF SigInv, SigTypeOK
<1>3. /\ q.step = "add" /\ q.actor = a /\ q.made = req[r].made /\ q.got = key[a]
      /\ q \in Record
  BY <1>1, <1>2 DEF Request, Record, Steps
<1>4. ReqOK(q)
  BY <1>1, <1>2, <1>3, ChangesAssumption DEF ReqOK, Recent
<1>5. req' = [req EXCEPT ![r] = q] /\ UNCHANGED Told /\ UNCHANGED cache
  BY DEF AskKey, Goto, Told
<1>. QED
  BY <1>3, <1>4, <1>5, OneRequest, CacheStays

LEMMA AskFailsKeeps ==
    ASSUME SigInv, NEW r \in Requests, AskFails(r)
    PROVE  SigInv'
<1>. DEFINE step == IF DisableHTTPSignatureVerify THEN "handled" ELSE "failed"
<1>1. Goto(r, step, 0) /\ Is(r, "ask") /\ UNCHANGED Told /\ UNCHANGED cache
  BY SettingAssumption DEF AskFails, Answer, Told
<1>. QED
  BY <1>1, WithoutKeyKeeps DEF Is

LEMMA AddKeyKeeps ==
    ASSUME SigInv, NEW r \in Requests, AddKey(r)
    PROVE  SigInv'
<1>. DEFINE a == req[r].actor
            k == req[r].got
<1>1. k \in 0..MaxChanges /\ a \in Actors /\ Recent(a, k)
  BY DEF SigInv, SigTypeOK, ReqOK, AddKey, Is
<1>2. /\ cache' = Add(a, k) /\ Answer(r, Verify(a, req[r].made, k), "refused")
      /\ UNCHANGED Told
  BY DEF AddKey, Told
<1>3. /\ cache' \in Seq(Entry)
      /\ \A i \in DOMAIN cache' : Recent(cache'[i].actor, cache'[i].key)
  BY <1>1, <1>2, AddKeeps
<1>4. k \in Nat
  BY <1>1, ChangesAssumption
<1>. QED
  BY <1>1, <1>2, <1>3, <1>4, AnswerOK, OneRequest DEF Answer, Goto

LEMMA ChangeKeyKeeps ==
    ASSUME SigInv, NEW a \in Actors, ChangeKey(a)
    PROVE  SigInv'
<1>1. /\ key' = [key EXCEPT ![a] = key[a] + 1] /\ key[a] < MaxChanges
      /\ UNCHANGED <<born, cache, req>>
  BY DEF ChangeKey
<1>2. key \in [Actors -> 0..MaxChanges] /\ born \in [Actors -> 0..MaxChanges]
  BY DEF SigInv, SigTypeOK
<1>3. \A b \in Actors : key[b] <= key'[b] /\ (b # a => key'[b] = key[b])
  BY <1>1, <1>2, ChangesAssumption
<1>4. key' \in [Actors -> 0..MaxChanges] /\ key'[a] = key[a] + 1
  BY <1>1, <1>2, ChangesAssumption
<1>5. SigTypeOK'
  BY <1>1, <1>4 DEF SigInv, SigTypeOK
<1>6. \A b \in Actors : born'[b] <= key'[b]
  BY <1>1, <1>2, <1>3, <1>4, ChangesAssumption DEF SigInv
<1>7. ASSUME NEW i \in DOMAIN cache
      PROVE  Recent(cache[i].actor, cache[i].key)'
  <2>1. cache[i].actor \in Actors /\ cache[i].key \in 0..MaxChanges
    <3>1. cache \in Seq(Entry)
      BY DEF SigInv, SigTypeOK, Entry
    <3>2. cache[i] \in Entry
      BY <1>7, <3>1
    <3>. QED
      BY <3>2 DEF Entry
  <2>2. Recent(cache[i].actor, cache[i].key)
    BY <1>7 DEF SigInv, CacheOK
  <2>. QED
    BY <1>1, <1>2, <1>3, <1>4, <2>1, <2>2, ChangesAssumption DEF Recent
<1>8. ASSUME NEW r \in Requests
      PROVE  ReqOK(req[r])'
  <2>1. req[r] \in Record /\ ReqOK(req[r])
    BY DEF SigInv, SigTypeOK, Record
  <2>2. req[r].made \in 0..MaxChanges /\ req[r].got \in 0..MaxChanges
    BY <2>1 DEF Record
  <2>. QED
    BY <1>1, <1>2, <1>3, <1>4, <2>1, <2>2, ChangesAssumption DEF ReqOK, Recent, SigInv
<1>. QED
  BY <1>1, <1>5, <1>6, <1>7, <1>8 DEF SigInv, CacheOK

\* The process is gone, and all it was told with it.
LEMMA ForgetKeysKeeps ==
    ASSUME SigInv, ForgetKeys
    PROVE  SigInv'
<1>1. cache' = <<>> /\ req' = [r \in Requests |-> Idle] /\ born' = key /\ key' = key
  BY DEF ForgetKeys
<1>2. key \in [Actors -> 0..MaxChanges]
  BY DEF SigInv, SigTypeOK
<1>3. Idle.step = "idle" /\ Idle.actor = None /\ Idle \in Record
  BY ChangesAssumption DEF Idle, Request, Record, Steps
<1>4. SigTypeOK'
  BY <1>1, <1>2, <1>3 DEF SigTypeOK, Record
<1>5. \A r \in Requests : ReqOK(req[r])'
  BY <1>1, <1>3, NoneAssumption DEF ReqOK
<1>6. CacheOK'
  BY <1>1 DEF CacheOK
<1>. QED
  BY <1>1, <1>2, <1>4, <1>5, <1>6, ChangesAssumption DEF SigInv

-----------------------------------------------------------------------------
(* The life of the programs. *)

LifeTypeOK ==
    /\ phase \in [Programs -> Phases]
    /\ cancelled \in [Programs -> BOOLEAN]
    /\ exit \in [Programs -> Exits]
    /\ tables \in BOOLEAN /\ users \in BOOLEAN
    /\ embedded \in {"off", "starting", "running"}
    /\ poller \in {"off", "starting", "running"}
    /\ http \in {"off", "starting", "listening", "failed"}
    /\ cut \in BOOLEAN

\* What was started found what it works on, and lives no longer than estrys.
Started ==
    /\ embedded = "running" /\ RunMigrations => tables
    /\ poller = "running" => tables
    /\ poller # "off" \/ http # "off" =>
        /\ users
        /\ RunMigrations \/ TwitterAllowedUsers # {} => tables
    /\ Begun("estrys", "users") /\ RunMigrations => tables
    /\ InFlight # {} => http = "listening"
    /\ http # "off" => Begun("estrys", "serve")

IInv == SigInv /\ LifeTypeOK /\ Started /\ ExitZeroCutsNothing

LEMMA Initially == Init => IInv
<1>. SUFFICES ASSUME Init PROVE IInv
  OBVIOUS
<1>1. Idle.step = "idle" /\ Idle.actor = None /\ Idle \in Record
  BY ChangesAssumption DEF Idle, Request, Record, Steps
<1>2. SigInv
  <2>1. /\ key = [a \in Actors |-> 0] /\ born = key /\ cache = <<>>
        /\ req = [r \in Requests |-> Idle]
    BY DEF Init, SigInit
  <2>2. SigTypeOK
    BY <1>1, <2>1, ChangesAssumption DEF SigTypeOK, Record
  <2>3. \A r \in Requests : ReqOK(req[r])
    BY <1>1, <2>1, NoneAssumption DEF ReqOK
  <2>4. CacheOK
    BY <2>1 DEF CacheOK
  <2>. QED
    BY <2>1, <2>2, <2>3, <2>4 DEF SigInv
<1>3. LifeTypeOK
  BY DEF Init, LifeTypeOK, Phases, Exits
<1>4. InFlight = {}
  BY <1>1 DEF Init, SigInit, InFlight
<1>5. ~Begun("estrys", "users")
  BY DEF Init, Begun, Programs
<1>. QED
  BY <1>2, <1>3, <1>4, <1>5 DEF Init, IInv, Started, ExitZeroCutsNothing

\* An exit takes everything in memory with it; it may be called 0 if nothing is
\* in flight.
LEMMA ExitKeeps ==
    ASSUME IInv, NEW p \in Programs, NEW code \in Exits, Exit(p, code),
           p = "estrys" /\ code = "0" => InFlight = {}
    PROVE  IInv'
<1>1. /\ phase' = [phase EXCEPT ![p] = "down"] /\ exit' = [exit EXCEPT ![p] = code]
      /\ cancelled' = [cancelled EXCEPT ![p] = FALSE] /\ tables' = tables
  BY DEF Exit, Become
<1>2. CASE p = "estrys"
  <2>1. /\ cut' = (InFlight # {}) /\ users' = FALSE /\ embedded' = "off"
        /\ poller' = "off" /\ http' = "off" /\ ForgetKeys
    BY <1>2 DEF Exit
  <2>2. SigInv'
    BY <2>1, ForgetKeysKeeps DEF IInv
  <2>3. InFlight' = {}
    BY <2>1, ChangesAssumption DEF ForgetKeys, InFlight, Idle, Request
  <2>4. LifeTypeOK'
    BY <1>1, <2>1 DEF IInv, LifeTypeOK, Phases
  <2>5. ExitZeroCutsNothing'
    BY <1>1, <1>2, <2>1 DEF IInv, LifeTypeOK, ExitZeroCutsNothing, Programs
  <2>6. ~Begun("estrys", "users")'
    BY <1>1, <1>2 DEF IInv, LifeTypeOK, Begun, Programs
  <2>. QED
    BY <2>1, <2>2, <2>3, <2>4, <2>5, <2>6 DEF IInv, Started
<1>3. CASE p # "estrys"
  <2>1. UNCHANGED <<sigVars, users, goroutines, cut>>
    BY <1>3 DEF Exit
  <2>2. SigInv' /\ InFlight' = InFlight
    BY <2>1 DEF IInv, SigInv, SigTypeOK, CacheOK, ReqOK, Recent, sigVars, InFlight
  <2>3. LifeTypeOK'
    BY <1>1, <2>1 DEF IInv, LifeTypeOK, Phases, goroutines
  <2>4. exit'["estrys"] = exit["estrys"] /\ phase'["estrys"] = phase["estrys"]
    BY <1>1, <1>3 DEF IInv, LifeTypeOK, Programs
  <2>. QED
    BY <1>1, <2>1, <2>2, <2>3, <2>4 DEF IInv, Started, goroutines, ExitZeroCutsNothing, Begun
<1>. QED
  BY <1>2, <1>3

\* A program goes on to another phase, and keeps what it has.
LEMMA PhaseKeeps ==
    ASSUME IInv, NEW p \in Programs, NEW s \in Phases, ~Begun(p, "serve"), s # "users", Become(p, s),
           UNCHANGED <<sigVars, cancelled, exit, tables, users, goroutines, cut>>
    PROVE  IInv'
<1>1. SigInv' /\ InFlight' = InFlight
  BY DEF IInv, SigInv, SigTypeOK, CacheOK, ReqOK, Recent, sigVars, InFlight
<1>2. LifeTypeOK'
  BY DEF IInv, LifeTypeOK, Become, goroutines
<1>3. (http # "off" => Begun("estrys", "serve"))'
  BY DEF IInv, LifeTypeOK, Started, Begun, Become, goroutines, Programs
<1>4. Begun("estrys", "users")' => Begun("estrys", "users")
  BY DEF IInv, LifeTypeOK, Begun, Become, Programs
<1>. QED
  BY <1>1, <1>2, <1>3, <1>4 DEF IInv, Started, goroutines, ExitZeroCutsNothing

LEMMA SigStays ==
    ASSUME IInv, UNCHANGED sigVars
    PROVE  SigInv' /\ InFlight' = InFlight
BY DEF IInv, SigInv, SigTypeOK, CacheOK, ReqOK, Recent, sigVars, InFlight

LEMMA StartKeeps ==
    ASSUME IInv, NEW p \in Programs, Start(p)
    PROVE  IInv'
<1>1. SigInv' /\ InFlight' = InFlight
  BY SigStays DEF Start
<1>2. /\ exit' = [exit EXCEPT ![p] = "running"]
      /\ cut' = IF p = "estrys" THEN FALSE ELSE cut
      /\ UNCHANGED <<cancelled, tables, users, goroutines>>
      /\ phase' = [phase EXCEPT ![p] = "build"]
  BY DEF Start, Become
<1>3. LifeTypeOK'
  BY <1>2 DEF IInv, LifeTypeOK, Phases, Exits, goroutines
<1>4. ExitZeroCutsNothing'
  BY <1>2 DEF IInv, LifeTypeOK, ExitZeroCutsNothing, Programs
<1>5. (http # "off" => Begun("estrys", "serve"))'
  BY <1>2 DEF IInv, LifeTypeOK, Started, Start, Begun, goroutines, Programs
<1>6. Begun("estrys", "users")' => Begun("estrys", "users")
  BY <1>2 DEF IInv, LifeTypeOK, Begun, Programs
<1>. QED
  BY <1>1, <1>2, <1>3, <1>4, <1>5, <1>6 DEF IInv, Started, goroutines

LEMMA BootKeeps ==
    ASSUME IInv, NEW p \in Programs, Boot(p)
    PROVE  IInv'
<1>1. BootstrapError(p) \in Exits /\ BootstrapError(p) # "0"
  BY DEF BootstrapError, Exits
<1>2. \/ Exit(p, BootstrapError(p))
      \/ /\ \E s \in Phases \ {"users"} : Become(p, s)
         /\ ~Begun(p, "serve")
         /\ UNCHANGED <<sigVars, cancelled, exit, tables, users, goroutines, cut>>
  BY DEF Boot, Build, Connect, Ping, Phases, Begun
<1>. QED
  BY <1>1, <1>2, ExitKeeps, PhaseKeeps

LEMMA SignalKeeps ==
    ASSUME IInv, NEW p \in Programs, Signal(p)
    PROVE  IInv'
<1>1. CASE Exit(p, "killed")
  BY <1>1, ExitKeeps DEF Exits
<1>2. CASE /\ cancelled' = [cancelled EXCEPT ![p] = TRUE]
           /\ UNCHANGED <<sigVars, phase, exit, tables, users, goroutines, cut>>
  <2>1. SigInv' /\ InFlight' = InFlight
    BY <1>2, SigStays
  <2>2. LifeTypeOK'
    BY <1>2 DEF IInv, LifeTypeOK, goroutines
  <2>. QED
    BY <1>2, <2>1, <2>2 DEF IInv, Started, goroutines, ExitZeroCutsNothing, Begun
<1>3. CASE /\ Begun(p, "broker")
           /\ Become(p, "stopping")
           /\ cancelled' = [cancelled EXCEPT ![p] = TRUE]
           /\ UNCHANGED <<sigVars, exit, tables, users, goroutines, cut>>
  <2>1. SigInv' /\ InFlight' = InFlight
    BY <1>3, SigStays
  <2>2. LifeTypeOK'
    BY <1>3 DEF IInv, LifeTypeOK, goroutines, Become, Phases
  <2>3. (http # "off" => Begun("estrys", "serve"))'
    BY <1>3 DEF IInv, LifeTypeOK, Started, Begun, Become, goroutines, Programs
  <2>4. Begun("estrys", "users")' => Begun("estrys", "users")
    BY <1>3 DEF IInv, LifeTypeOK, Begun, Become, Programs
  <2>. QED
    BY <1>3, <2>1, <2>2, <2>3, <2>4 DEF IInv, Started, goroutines, ExitZeroCutsNothing
<1>. QED
  BY <1>1, <1>2, <1>3 DEF Signal

LEMMA MigrateKeeps ==
    ASSUME IInv, Migrate
    PROVE  IInv'
<1>1. CASE Exit("estrys", "1")
  BY <1>1, ExitKeeps DEF Exits, Programs
<1>2. CASE /\ Become("estrys", "users")
           /\ tables' = (tables \/ RunMigrations)
           /\ embedded' = IF DisableEmbedWorker THEN "off" ELSE "running"
           /\ UNCHANGED <<sigVars, cancelled, exit, users, poller, http, cut>>
  <2>1. SigInv' /\ InFlight' = InFlight
    BY <1>2, SigStays
  <2>2. tables' \in BOOLEAN /\ (tables => tables') /\ (RunMigrations => tables')
    BY <1>2, ServerSettings DEF IInv, LifeTypeOK
  <2>3. phase' \in [Programs -> Phases]
    BY <1>2 DEF IInv, LifeTypeOK, Become, Phases
  <2>4. embedded' \in {"off", "starting", "running"}
    BY <1>2
  <2>5. LifeTypeOK'
    BY <1>2, <2>2, <2>3, <2>4 DEF IInv, LifeTypeOK
  <2>. QED
    BY <1>2, <2>1, <2>2, <2>5 DEF IInv, Started, ExitZeroCutsNothing, Migrate, Begun
<1>. QED
  BY <1>1, <1>2 DEF Migrate

LEMMA CreateUsersKeeps ==
    ASSUME IInv, CreateUsers
    PROVE  IInv'
<1>1. CASE Exit("estrys", "1")
  BY <1>1, ExitKeeps DEF Exits, Programs
<1>2. CASE /\ BatchCreateUsers
           /\ Become("estrys", "serve")
           /\ users' = TRUE
           /\ poller' = "starting"
           /\ http' = "starting"
           /\ UNCHANGED <<sigVars, cancelled, exit, tables, embedded, cut>>
  <2>1. SigInv' /\ InFlight' = InFlight
    BY <1>2, SigStays
  <2>2. LifeTypeOK'
    BY <1>2 DEF IInv, LifeTypeOK, Become, Phases
  <2>3. InFlight = {}
    BY DEF CreateUsers, IInv, Started, Begun
  <2>4. Begun("estrys", "serve")'
    BY <1>2 DEF IInv, LifeTypeOK, Begun, Become, Programs
  <2>5. RunMigrations \/ TwitterAllowedUsers # {} => tables
    BY <1>2 DEF CreateUsers, BatchCreateUsers, IInv, Started
  <2>6. ~Begun("estrys", "users")'
    BY <2>4 DEF Begun
  <2>. QED
    BY <1>2, <2>1, <2>2, <2>3, <2>4, <2>5, <2>6 DEF IInv, Started, ExitZeroCutsNothing
<1>. QED
  BY <1>1, <1>2 DEF CreateUsers

LEMMA StartPollerKeeps ==
    ASSUME IInv, StartPoller
    PROVE  IInv'
<1>1. CASE Exit("estrys", "1")
  BY <1>1, ExitKeeps DEF Exits, Programs
<1>2. CASE /\ tables
           /\ poller' = "running"
           /\ UNCHANGED <<sigVars, phase, cancelled, exit, tables, users, embedded, http, cut>>
  <2>1. SigInv' /\ InFlight' = InFlight
    BY <1>2, SigStays
  <2>. QED
    BY <1>2, <2>1 DEF StartPoller, IInv, LifeTypeOK, Started, ExitZeroCutsNothing, Begun
<1>. QED
  BY <1>1, <1>2 DEF StartPoller

LEMMA ListenAndServeKeeps ==
    ASSUME IInv, ListenAndServe
    PROVE  IInv'
<1>1. SigInv' /\ InFlight' = InFlight
  BY SigStays DEF ListenAndServe
<1>. QED
  BY <1>1 DEF ListenAndServe, IInv, LifeTypeOK, Started, ExitZeroCutsNothing, Begun

LEMMA ShutdownKeeps ==
    ASSUME IInv, Shutdown
    PROVE  IInv'
<1>. "estrys" \in Programs /\ {"0", "1"} \subseteq Exits
  BY DEF Programs, Exits
<1>1. CASE InFlight = {} /\ Exit("estrys", "0")
  BY <1>1, ExitKeeps
<1>2. CASE Exit("estrys", "1")
  BY <1>2, ExitKeeps
<1>. QED
  BY <1>1, <1>2 DEF Shutdown

LEMMA BrokerKeeps ==
    ASSUME IInv, Broker
    PROVE  IInv'
<1>1. CASE Exit("worker", "0") \/ Exit("worker", "1")
  BY <1>1, ExitKeeps DEF Exits, Programs
<1>2. CASE /\ Begun("worker", "starting")
           /\ Become("worker", "broker")
           /\ UNCHANGED <<sigVars, cancelled, exit, tables, users, goroutines, cut>>
  <2>1. ~Begun("worker", "serve") /\ "broker" \in Phases /\ "worker" \in Programs
    BY <1>2 DEF Begun, Phases, Programs
  <2>. QED
    BY <1>2, <2>1, PhaseKeeps
<1>. QED
  BY <1>1, <1>2 DEF Broker, StartBroker, StopBroker

\* A request is in flight only if one arrived at a server that listens.
LEMMA ServeHTTPKeeps ==
    ASSUME IInv, NEW r \in Requests, ServeHTTP(r)
    PROVE  IInv'
<1>1. SigInv'
  BY UnsignedKeeps, ArriveKeeps, GetKeyKeeps, AskKeyKeeps, AskFailsKeeps, AddKeyKeeps
     DEF ServeHTTP, Handle, IInv
<1>2. LifeTypeOK' /\ ExitZeroCutsNothing'
  BY DEF ServeHTTP, IInv, LifeTypeOK, ExitZeroCutsNothing, lifeVars
<1>3. CASE http = "listening"
  BY <1>1, <1>2, <1>3 DEF ServeHTTP, IInv, Started, lifeVars, Begun
<1>4. CASE Handle(r)
  <2>1. r \in InFlight
    BY <1>4 DEF Handle, GetKey, AskKey, AskFails, AddKey, Is, InFlight
  <2>. QED
    BY <1>1, <1>2, <2>1 DEF ServeHTTP, IInv, Started, lifeVars, Begun
<1>. QED
  BY <1>3, <1>4 DEF ServeHTTP

LEMMA RemoteChangesKeyKeeps ==
    ASSUME IInv, NEW a \in Actors, RemoteChangesKey(a)
    PROVE  IInv'
<1>1. SigInv' /\ InFlight' = InFlight
  BY ChangeKeyKeeps DEF RemoteChangesKey, ChangeKey, IInv, InFlight
<1>. QED
  BY <1>1
  DEF RemoteChangesKey, IInv, LifeTypeOK, Started, ExitZeroCutsNothing, lifeVars, Begun

LEMMA StutterKeeps ==
    ASSUME IInv, UNCHANGED vars
    PROVE  IInv'
<1>1. SigInv' /\ InFlight' = InFlight
  BY SigStays DEF vars
<1>. QED
  BY <1>1 DEF vars, lifeVars, IInv, LifeTypeOK, Started, ExitZeroCutsNothing, Begun

\* The inductive invariant of the programs and of the key cache in estrys.
THEOREM Invariance == Spec => []IInv
<1>1. IInv /\ [Next]_vars => IInv'
  BY StartKeeps, BootKeeps, SignalKeeps, MigrateKeeps, CreateUsersKeeps, ShutdownKeeps,
     BrokerKeeps, StartPollerKeeps, ListenAndServeKeeps, ServeHTTPKeeps,
     RemoteChangesKeyKeeps, StutterKeeps DEF Next, Main
<1>. QED
  BY Initially, <1>1, PTL DEF Spec

-----------------------------------------------------------------------------
(* What follows. *)

\* Every variable of the programs and of the key cache keeps its type.
THEOREM TypeCorrect == Spec => []TypeOK
<1>1. IInv => TypeOK
  BY DEF IInv, SigInv, LifeTypeOK, TypeOK
<1>. QED
  BY Invariance, <1>1, PTL

\* For any settings: with migrations or users of the configuration, nothing of
\* estrys works without tables; without either, the poller does not get past its
\* first list and the embedded worker and the server do not wait for tables.  No
\* request or poller is before main has seen to the users of the configuration.
THEOREM StartsInOrder == Spec => []NothingStartsEarly
<1>1. IInv => NothingStartsEarly
  BY DEF IInv, Started, NothingStartsEarly
<1>. QED
  BY Invariance, <1>1, PTL

\* An exit with status 0 cut no request off: Shutdown's error, with a cancelled
\* context, is what tells.
THEOREM ExitTells == Spec => []ExitZeroCutsNothing
<1>1. IInv => ExitZeroCutsNothing
  BY DEF IInv
<1>. QED
  BY Invariance, <1>1, PTL

\* HTTPSigMiddleware refuses no request of an actor that has kept its key since
\* the process started, however many actors share the cache.
THEOREM KeptKeysAreTrusted == Spec => []OneKeyIsTrusted
<1>1. IInv => OneKeyIsTrusted
  BY DEF IInv, SigInv, ReqOK, OneKeyIsTrusted, Is
<1>. QED
  BY Invariance, <1>1, PTL

\* A key given up before the process started is not trusted again.
THEOREM OldKeysAreNotTrusted == Spec => []OldKeysAreForgotten
<1>1. IInv => OldKeysAreForgotten
  <2>. SUFFICES ASSUME IInv, NEW r \in Requests, Is(r, "handled"),
                       ~DisableHTTPSignatureVerify
                PROVE  req[r].made >= born[req[r].actor]
    BY DEF OldKeysAreForgotten
  <2>1. req[r].actor \in Actors /\ born[req[r].actor] <= req[r].made
    BY DEF IInv, SigInv, ReqOK, Is
  <2>2. born[req[r].actor] \in Nat /\ req[r].made \in Nat
    BY <2>1, ChangesAssumption DEF IInv, SigInv, SigTypeOK
  <2>. QED
    BY <2>1, <2>2
<1>. QED
  BY Invariance, <1>1, PTL

-----------------------------------------------------------------------------
(* The refinement of Trust.                                                  *)

LEMMA Views ==
    ASSUME NEW q
    PROVE  /\ q.step \in {"get", "ask", "add"} =>
                  View(q) = Promised!Seen("open", q.actor, q.made)
           /\ q.step \notin {"get", "ask", "add"} =>
                  View(q) = Promised!Seen(q.step, q.actor, q.made)
BY DEF View, Promised!Seen

\* The view of a step of one request, which becomes q.
LEMMA OneSeen ==
    ASSUME SigInv, NEW r \in Requests, NEW q, req' = [req EXCEPT ![r] = q]
    PROVE  /\ seen[r] = View(req[r]) /\ seen'[r] = View(q)
           /\ seen' = [seen EXCEPT ![r] = seen'[r]]
<1>1. req'[r] = q /\ \A s \in Requests \ {r} : req'[s] = req[s]
  BY DEF SigInv, SigTypeOK
<1>2. /\ seen[r] = View(req[r]) /\ seen'[r] = View(q)
      /\ \A s \in Requests \ {r} : seen'[s] = seen[s]
  BY <1>1 DEF seen, View
<1>. QED
  BY <1>2 DEF seen

LEMMA RequestFields ==
    ASSUME NEW step, NEW actor, NEW made, NEW got
    PROVE  /\ Request(step, actor, made, got).step = step
           /\ Request(step, actor, made, got).actor = actor
           /\ Request(step, actor, made, got).made = made
BY DEF Request

\* A request that was open is answered.
LEMMA AnswerSeen ==
    ASSUME SigInv, NEW r \in Requests, req[r].step \in {"get", "ask", "add"},
           NEW verified \in BOOLEAN, NEW step \in {"refused", "failed"},
           Answer(r, verified, step)
    PROVE  /\ seen[r].stage = "open"
           /\ seen[r].actor = req[r].actor /\ seen[r].made = req[r].made
           /\ seen' = [seen EXCEPT ![r] = seen'[r]]
           /\ Promised!Stays(r)
           /\ Promised!Answer(r, verified, step)
<1>. DEFINE to == IF verified \/ DisableHTTPSignatureVerify THEN "handled" ELSE step
            q == Request(to, req[r].actor, req[r].made, 0)
<1>1. req' = [req EXCEPT ![r] = q]
  BY DEF Answer, Goto
<1>2. q.step = to /\ q.actor = req[r].actor /\ q.made = req[r].made
  BY RequestFields
<1>3. to \notin {"get", "ask", "add"}
  OBVIOUS
<1>4. seen'[r] = Promised!Seen(to, req[r].actor, req[r].made)
  <2>1. seen'[r] = View(q)
    BY <1>1, OneSeen
  <2>. QED
    BY <1>2, <1>3, <2>1, Views
<1>5. seen[r] = Promised!Seen("open", req[r].actor, req[r].made)
  BY <1>1, OneSeen, Views
<1>6. seen'[r].actor = req[r].actor /\ seen'[r].made = req[r].made
  BY <1>4 DEF Promised!Seen
<1>7. seen[r].stage = "open" /\ seen[r].actor = req[r].actor /\ seen[r].made = req[r].made
  BY <1>5 DEF Promised!Seen
<1>8. Promised!Answer(r, verified, step)
  BY <1>4, <1>6 DEF Promised!Answer
<1>. QED
  BY <1>1, <1>6, <1>7, <1>8, OneSeen DEF Promised!Stays

\* The signature was compared with a recent key: from the cache, or told.
LEMMA JudgeSeen ==
    ASSUME SigInv, NEW r \in Requests, req[r].step \in {"get", "add"},
           NEW k \in Nat, Recent(req[r].actor, k),
           Answer(r, Verify(req[r].actor, req[r].made, k), "refused")
    PROVE  /\ seen' = [seen EXCEPT ![r] = seen'[r]]
           /\ Promised!Judge(r)
<1>. DEFINE a == req[r].actor
            verified == a \notin Unusual /\ req[r].made = k
<1>1. Verify(a, req[r].made, k) <=> verified
  BY DEF Verify, Algorithm, None
<1>2. Answer(r, verified, "refused") /\ verified \in BOOLEAN
  BY <1>1 DEF Answer, Goto
<1>3. /\ seen[r].stage = "open" /\ seen[r].actor = a /\ seen[r].made = req[r].made
      /\ seen' = [seen EXCEPT ![r] = seen'[r]]
      /\ Promised!Stays(r) /\ Promised!Answer(r, verified, "refused")
  BY <1>2, AnswerSeen
<1>4. a \in Actors
  BY DEF SigInv, ReqOK
<1>5. k \in born[a]..key[a]
  BY <1>4, ChangesAssumption DEF SigInv, SigTypeOK, Recent
<1>. QED
  BY <1>3, <1>5 DEF Promised!Judge

\* A request that goes on is still open.
LEMMA GoesOn ==
    ASSUME SigInv, NEW r \in Requests, req[r].step \in {"get", "ask", "add"},
           NEW step \in {"get", "ask", "add"}, NEW got, Goto(r, step, got)
    PROVE  UNCHANGED seen
<1>. DEFINE q == Request(step, req[r].actor, req[r].made, got)
<1>1. req' = [req EXCEPT ![r] = q]
  BY DEF Goto
<1>2. q.step = step /\ q.actor = req[r].actor /\ q.made = req[r].made
  BY RequestFields
<1>. HIDE DEF q
<1>3. View(q) = View(req[r])
  BY <1>2 DEF View
<1>4. seen' = [seen EXCEPT ![r] = seen[r]]
  BY <1>1, <1>3, OneSeen
<1>. QED
  BY <1>4 DEF seen

LEMMA NewSeen ==
    ASSUME SigInv, NEW r \in Requests, Unsigned(r) \/ Arrive(r)
    PROVE  /\ seen' = [seen EXCEPT ![r] = seen'[r]]
           /\ Promised!Unsigned(r) \/ Promised!Arrive(r)
<1>1. seen[r].stage # "open"
  <2>1. req[r].step \in Free
    BY DEF Unsigned, Arrive
  <2>2. req[r].step \notin {"get", "ask", "add"} /\ req[r].step # "open"
    BY <2>1 DEF Free
  <2>3. seen[r] = Promised!Seen(req[r].step, req[r].actor, req[r].made)
    BY <2>2, Views DEF seen
  <2>. QED
    BY <2>2, <2>3 DEF Promised!Seen
<1>2. CASE Unsigned(r)
  <2>. DEFINE step == IF DisableHTTPSignatureVerify THEN "handled" ELSE "refused"
              q == Request(step, None, 0, 0)
  <2>1. req' = [req EXCEPT ![r] = q]
    BY <1>2 DEF Unsigned
  <2>2. q.step = step /\ q.actor = None /\ q.made = 0
    BY RequestFields
  <2>3. step \notin {"get", "ask", "add"}
    OBVIOUS
  <2>4. seen'[r] = View(q) /\ seen' = [seen EXCEPT ![r] = seen'[r]]
    BY <2>1, OneSeen
  <2>5. seen'[r] = Promised!Seen(step, None, 0)
    BY <2>2, <2>3, <2>4, Views
  <2>6. seen'[r].actor = None /\ seen'[r].made = 0
    BY <2>5 DEF Promised!Seen
  <2>7. Promised!Answer(r, FALSE, "refused")
    BY <2>5, <2>6 DEF Promised!Answer
  <2>. QED
    BY <1>1, <2>4, <2>6, <2>7 DEF Promised!Unsigned, Promised!Nobody, None
<1>3. CASE Arrive(r)
  <2>1. PICK a \in Actors :
            \E made \in 0..key[a] : req' = [req EXCEPT ![r] = Request("get", a, made, 0)]
    BY <1>3 DEF Arrive
  <2>2. PICK made \in 0..key[a] : req' = [req EXCEPT ![r] = Request("get", a, made, 0)]
    BY <2>1
  <2>. DEFINE q == Request("get", a, made, 0)
  <2>3. q.step = "get" /\ q.actor = a /\ q.made = made
    BY RequestFields
  <2>4. seen'[r] = View(q) /\ seen' = [seen EXCEPT ![r] = seen'[r]]
    BY <2>2, OneSeen
  <2>5. seen'[r] = Promised!Seen("open", a, made)
    BY <2>3, <2>4, Views
  <2>6. seen'[r].actor = a /\ seen'[r].made = made
    BY <2>5 DEF Promised!Seen
  <2>. QED
    BY <1>1, <2>4, <2>5, <2>6 DEF Promised!Arrive
<1>. QED
  BY <1>2, <1>3

\* A request step is one of Trust's: in the server's reach, for what is open
\* was taken by a server that listened, and listens.
LEMMA RequestSeen ==
    ASSUME IInv, NEW r \in Requests, ServeHTTP(r)
    PROVE  [Promised!Next]_(Promised!trust)
<1>1. SigInv /\ UNCHANGED <<key, born, up>>
  BY DEF IInv, ServeHTTP, Unsigned, Arrive, Handle, GetKey, AskKey, AskFails, AddKey,
     lifeVars, up
<1>2. up
  BY DEF IInv, Started, InFlight, ServeHTTP, Handle, GetKey, AskKey, AskFails, AddKey, Is, up
<1>. SUFFICES ASSUME seen' # seen
              PROVE  /\ seen' = [seen EXCEPT ![r] = seen'[r]]
                     /\ \/ Promised!Unsigned(r) \/ Promised!Arrive(r)
                        \/ Promised!Judge(r) \/ Promised!Fail(r)
  BY <1>1, <1>2 DEF Promised!Next, Promised!Serve, Promised!trust
<1>3. CASE Unsigned(r) \/ Arrive(r)
  BY <1>1, <1>3, NewSeen
<1>4. CASE GetKey(r)
  <2>. DEFINE a == req[r].actor
              k == cache[Cached(a)].key
  <2>1. Is(r, "get")
    BY <1>4 DEF GetKey
  <2>2. CASE Hit(a)
    <3>1. Cached(a) \in DOMAIN cache /\ cache[Cached(a)].actor = a
      BY <2>2 DEF Hit, Cached
    <3>2. cache \in Seq(Entry)
      BY <1>1 DEF SigInv, SigTypeOK, Entry
    <3>3. cache[Cached(a)] \in Entry
      BY <3>1, <3>2
    <3>4. k \in Nat
      BY <3>3, ChangesAssumption DEF Entry
    <3>5. Recent(a, k)
      BY <1>1, <3>1 DEF SigInv, CacheOK
    <3>6. Answer(r, Verify(a, req[r].made, k), "refused")
      BY <1>4, <2>2 DEF GetKey
    <3>. QED
      BY <1>1, <2>1, <3>4, <3>5, <3>6, JudgeSeen DEF Is
  <2>3. CASE ~Hit(a)
    <3>1. Goto(r, "ask", 0)
      BY <1>4, <2>3 DEF GetKey
    <3>. QED
      BY <1>1, <2>1, <3>1, GoesOn DEF Is
  <2>. QED
    BY <2>2, <2>3
<1>5. CASE AskKey(r)
  BY <1>1, <1>5, GoesOn DEF AskKey, Is
<1>6. CASE AskFails(r)
  BY <1>1, <1>6, AnswerSeen DEF AskFails, Is, Promised!Fail
<1>7. CASE AddKey(r)
  <2>1. /\ Is(r, "add")
        /\ Answer(r, Verify(req[r].actor, req[r].made, req[r].got), "refused")
    BY <1>7 DEF AddKey
  <2>2. req[r].got \in Nat /\ Recent(req[r].actor, req[r].got)
    BY <1>1, <2>1, ChangesAssumption DEF SigInv, SigTypeOK, ReqOK, Is
  <2>. QED
    BY <1>1, <2>1, <2>2, JudgeSeen DEF Is
<1>. QED
  BY <1>3, <1>4, <1>5, <1>6, <1>7 DEF ServeHTTP, Handle

LEMMA ViewOfIdle == View(Idle) = Promised!Idle
BY DEF View, Idle, Request, None, Promised!Idle, Promised!Seen, Promised!Nobody

\* An exit of estrys is a restart, one of the worker is not seen.
LEMMA ExitSeen ==
    ASSUME IInv, NEW p \in Programs, NEW code, Exit(p, code)
    PROVE  [Promised!Next]_(Promised!trust)
<1>1. CASE p = "estrys"
  <2>1. /\ http' = "off" /\ req' = [r \in Requests |-> Idle]
        /\ born' = key /\ key' = key
    BY <1>1 DEF Exit, ForgetKeys
  <2>2. ~up' /\ seen' = [r \in Requests |-> Promised!Idle]
    BY <2>1, ViewOfIdle DEF up, seen, View
  <2>. QED
    BY <2>1, <2>2 DEF Promised!Next, Promised!Restart, up
<1>2. CASE p # "estrys"
  BY <1>2 DEF Exit, sigVars, goroutines, Promised!trust, up, seen, View
<1>. QED
  BY <1>1, <1>2

LEMMA Unseen ==
    ASSUME UNCHANGED <<sigVars, http>>
    PROVE  UNCHANGED Promised!trust
BY DEF sigVars, Promised!trust, up, seen, View

\* FetchKey, HTTPSigMiddleware and the life of estrys implement Trust: a remote
\* actor that changes its key only while estrys is down never notices the cache;
\* one that changes it otherwise may be judged by any key it has had since.
THEOREM ServerImplementsTrust == Spec => VerifiesAsPromised
<1>1. Init => Promised!Init
  <2>. SUFFICES ASSUME Init PROVE Promised!Init
    OBVIOUS
  <2>1. ~up /\ seen = [r \in Requests |-> Promised!Idle]
    BY ViewOfIdle DEF Init, SigInit, up, seen
  <2>. QED
    BY <2>1 DEF Init, SigInit, Promised!Init, up
<1>2. IInv /\ [Next]_vars => [Promised!Next]_(Promised!trust)
  <2>. SUFFICES ASSUME IInv, [Next]_vars PROVE [Promised!Next]_(Promised!trust)
    OBVIOUS
  <2>1. ASSUME NEW p \in Programs, Start(p) \/ Boot(p) \/ Signal(p)
        PROVE  [Promised!Next]_(Promised!trust)
    BY <2>1, ExitSeen, Unseen DEF Start, Boot, Build, Connect, Ping, Signal, goroutines
  <2>2. CASE Main \/ Broker \/ StartPoller
    <3>. "estrys" \in Programs /\ "worker" \in Programs
      BY DEF Programs
    <3>1. CASE Migrate
      BY <3>1, ExitSeen, Unseen DEF Migrate
    <3>2. CASE CreateUsers
      <4>1. CASE Exit("estrys", "1")
        BY <4>1, ExitSeen
      <4>2. CASE http' = "starting" /\ UNCHANGED sigVars
        <5>1. ~up /\ ~up'
          BY <3>2, <4>2 DEF CreateUsers, IInv, Started, Begun, up
        <5>. QED
          BY <4>2, <5>1 DEF Promised!trust, sigVars, seen, View, up
      <4>. QED
        BY <3>2, <4>1, <4>2 DEF CreateUsers
    <3>3. CASE Shutdown
      BY <3>3, ExitSeen DEF Shutdown
    <3>4. CASE Broker
      BY <3>4, ExitSeen, Unseen DEF Broker, StartBroker, StopBroker, goroutines
    <3>5. CASE StartPoller
      BY <3>5, ExitSeen, Unseen DEF StartPoller
    <3>. QED
      BY <2>2, <3>1, <3>2, <3>3, <3>4, <3>5 DEF Main
  <2>3. CASE ListenAndServe
    <3>1. ~up /\ UNCHANGED sigVars
      BY <2>3 DEF ListenAndServe, up
    <3>. QED
      BY <2>3, <3>1 DEF Promised!Next, Promised!ComeUp, Promised!trust, sigVars, seen, View,
         ListenAndServe, up
  <2>4. ASSUME NEW r \in Requests, ServeHTTP(r)
        PROVE  [Promised!Next]_(Promised!trust)
    BY <2>4, RequestSeen
  <2>5. ASSUME NEW a \in Actors, RemoteChangesKey(a)
        PROVE  Promised!ChangeKey(a)
    BY <2>5 DEF RemoteChangesKey, ChangeKey, lifeVars, Promised!ChangeKey, up, seen, View
  <2>6. CASE UNCHANGED vars
    BY <2>6, Unseen DEF vars, lifeVars
  <2>. QED
    BY <2>1, <2>2, <2>3, <2>4, <2>5, <2>6 DEF Next, Promised!Next
<1>. QED
  BY <1>1, <1>2, Invariance, PTL DEF Spec, VerifiesAsPromised, Promised!Spec
=============================================================================
