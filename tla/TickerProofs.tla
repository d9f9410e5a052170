---------------------------- MODULE TickerProofs -----------------------------
(***************************************************************************)
(* The bound on the poller's requests, for any period, any number of them  *)
(* in a window, and any delays.                                            *)
(*                                                                         *)
(* After a request of time t, the n-th tick (or request) from then on is   *)
(* taken into account before the ticker is due at t + (n - 2) periods: the *)
(* first may have waited in the channel, the second been late, and all     *)
(* that follow are a period apart.                                         *)
(***************************************************************************)
EXTENDS Ticker, TLAPS

TypeOK ==
    /\ now \in Nat
    /\ due \in Int
    /\ ticks \in 0..1
    /\ pc \in {"wait", "fetch"}
    /\ asked \in Seq(Nat)

\* Ticks that may still become requests.
Held == ticks + IF pc = "fetch" THEN 1 ELSE 0

\* Requests after the i-th, made or to be made of the ticks held.
After(i) == Len(asked) - i + Held

DueLater ==
    \A i \in 1..Len(asked) :
        After(i) <= 1 \/ due >= asked[i] + (After(i) - 2) * Period

Spaced ==
    \A i, j \in 1..Len(asked) : i < j => asked[j] >= asked[i] + (j - i - 3) * Period

IInv ==
    /\ TypeOK
    /\ due <= now + Period
    /\ \A i \in 1..Len(asked) : asked[i] <= now
    /\ DueLater
    /\ Spaced

-----------------------------------------------------------------------------
(* Multiples of the period. *)

LEMMA OneMore ==
    ASSUME NEW n \in Int, NEW p \in Int
    PROVE  (n + 1) * p = n * p + p
OBVIOUS

LEMMA NotMore ==
    ASSUME NEW p \in Nat, NEW m \in Int, NEW n \in Int, m <= n
    PROVE  m * p <= n * p
<1>1. PICK k \in Nat : n = m + k
  <2>1. n - m \in Nat /\ n = m + (n - m)
    OBVIOUS
  <2>. QED
    BY <2>1
<1>2. n * p = m * p + k * p
  BY <1>1
<1>3. k * p >= 0
  OBVIOUS
<1>4. m * p \in Int /\ k * p \in Int
  OBVIOUS
<1>. QED
  BY <1>2, <1>3, <1>4

-----------------------------------------------------------------------------
LEMMA PassKeeps ==
    ASSUME Period \in Nat \ {0}, IInv, Pass
    PROVE  IInv'
<1>1. now' = now + 1 /\ due' = due /\ asked' = asked /\ Held' = Held /\ TypeOK'
  BY DEF Pass, Held, IInv, TypeOK
<1>2. DueLater' /\ Spaced'
  BY <1>1 DEF IInv, DueLater, Spaced, After
<1>. QED
  BY <1>1, <1>2 DEF IInv, TypeOK

LEMMA TickKeeps ==
    ASSUME Period \in Nat \ {0}, IInv, Tick
    PROVE  IInv'
<1>1. /\ now' = now /\ asked' = asked /\ Spaced' /\ now' \in Nat /\ asked' \in Seq(Nat)
      /\ ticks' \in 0..1 /\ pc' \in {"wait", "fetch"}
  BY DEF Tick, IInv, TypeOK, Spaced
<1>2. PICK k \in 1..(1 + now - due) : due' = due + k * Period
  BY DEF Tick
<1>3. now \in Nat /\ due \in Int /\ now >= due /\ k \in Int /\ k >= 1
  BY DEF Tick, IInv, TypeOK
<1>4. k * Period >= Period
  BY <1>3, NotMore
<1>5. due' \in Int /\ due' >= due + Period /\ due' > now /\ due' <= now + Period
  BY <1>2, <1>3, <1>4 DEF Tick
<1>6. Held \in 0..2 /\ Held' \in 0..2 /\ Held' <= Held + 1
  BY DEF Tick, Held, IInv, TypeOK
<1>7. ASSUME NEW i \in 1..Len(asked), After(i)' > 1
      PROVE  due' >= asked[i] + (After(i)' - 2) * Period
  <2>. DEFINE n == After(i)
              m == After(i)'
  <2>1. n \in Int /\ m \in Int /\ m <= n + 1 /\ asked[i] \in Nat /\ asked[i] <= now
    BY <1>1, <1>6 DEF After, IInv, TypeOK
  <2>. HIDE DEF n, m
  <2>2. CASE n <= 1
    <3>1. m - 2 <= 0
      BY <2>1, <2>2
    <3>2. (m - 2) * Period <= 0 * Period /\ (m - 2) * Period \in Int
      BY <2>1, <3>1, NotMore
    <3>. QED
      BY <1>3, <1>5, <2>1, <3>2 DEF m
  <2>3. CASE n > 1
    <3>1. due >= asked[i] + (n - 2) * Period
      BY <2>1, <2>3 DEF IInv, DueLater, n
    <3>2. (m - 2) * Period <= ((n - 2) + 1) * Period
      BY <2>1, NotMore
    <3>3. ((n - 2) + 1) * Period = (n - 2) * Period + Period
      BY <2>1, OneMore
    <3>4. (m - 2) * Period \in Int /\ (n - 2) * Period \in Int
      BY <2>1
    <3>5. (m - 2) * Period <= (n - 2) * Period + Period
      BY <3>2, <3>3
    <3>. HIDE DEF m
    <3>6. due' >= asked[i] + (m - 2) * Period
      BY <1>3, <1>5, <2>1, <3>1, <3>4, <3>5
    <3>. QED
      BY <3>6 DEF m
  <2>. QED
    BY <2>1, <2>2, <2>3
<1>8. DueLater'
  <2>1. \A i \in 1..Len(asked) : After(i)' \in Int
    BY <1>1, <1>6 DEF After
  <2>. QED
    BY <1>1, <1>7, <2>1 DEF DueLater
<1>. QED
  BY <1>1, <1>5, <1>8 DEF IInv, TypeOK

\* Nothing is asked, and no more ticks are held than before.
LEMMA HoldingKeeps ==
    ASSUME Period \in Nat \ {0}, IInv, UNCHANGED <<now, asked>>,
           ticks' \in 0..1, pc' \in {"wait", "fetch"},
           Held \in 0..2, Held' \in 0..Held,
           due' \in Int, due <= due', due' <= now + Period
    PROVE  IInv'
<1>1. TypeOK' /\ Spaced' /\ now \in Nat /\ due \in Int
  BY DEF IInv, TypeOK, Spaced
<1>3. ASSUME NEW i \in 1..Len(asked), ~(After(i)' <= 1)
      PROVE  due' >= asked[i] + (After(i)' - 2) * Period
  <2>. DEFINE n == After(i)
              m == After(i)'
  <2>1. n \in Int /\ m \in Int /\ m <= n /\ asked[i] \in Nat /\ n > 1
    BY <1>3 DEF After, IInv, TypeOK
  <2>2. due >= asked[i] + (n - 2) * Period
    BY <2>1 DEF IInv, DueLater
  <2>. HIDE DEF n, m
  <2>3. (m - 2) * Period <= (n - 2) * Period
    BY <2>1, NotMore
  <2>4. (m - 2) * Period \in Int /\ (n - 2) * Period \in Int
    BY <2>1
  <2>5. due' >= asked[i] + (m - 2) * Period
    BY <1>1, <2>1, <2>2, <2>3, <2>4
  <2>. QED
    BY <2>5 DEF m
<1>4. DueLater'
  BY <1>3 DEF DueLater
<1>. QED
  BY <1>1, <1>4 DEF IInv

LEMMA TakeTickKeeps ==
    ASSUME Period \in Nat \ {0}, IInv, TakeTick
    PROVE  IInv'
<1>1. ticks' \in 0..1 /\ pc' \in {"wait", "fetch"}
      /\ Held \in 0..2 /\ Held' \in 0..Held
  BY DEF TakeTick, Held, IInv, TypeOK
<1>. QED
  BY <1>1, HoldingKeeps DEF TakeTick, IInv, TypeOK

LEMMA AskNothingKeeps ==
    ASSUME Period \in Nat \ {0}, IInv, AskNothing
    PROVE  IInv'
<1>1. ticks' \in 0..1 /\ pc' \in {"wait", "fetch"}
      /\ Held \in 0..2 /\ Held' \in 0..Held
  BY DEF AskNothing, Held, IInv, TypeOK
<1>. QED
  BY <1>1, HoldingKeeps DEF AskNothing, IInv, TypeOK

\* A new ticker is due as late as any: the old one was due within a period.
LEMMA RestartKeeps ==
    ASSUME Period \in Nat \ {0}, IInv, Restart
    PROVE  IInv'
<1>1. ticks' \in 0..1 /\ pc' \in {"wait", "fetch"}
      /\ Held \in 0..2 /\ Held' \in 0..Held
  BY DEF Restart, Held, IInv, TypeOK
<1>2. due' \in Int /\ due <= due' /\ due' <= now + Period
  BY DEF Restart, IInv, TypeOK
<1>. QED
  BY <1>1, <1>2, HoldingKeeps DEF Restart

\* The request takes the place of a tick held; it comes no earlier than a period
\* before the ticker is due.
LEMMA GetUserTweetsKeeps ==
    ASSUME Period \in Nat \ {0}, IInv, GetUserTweets
    PROVE  IInv'
<1>. DEFINE n == Len(asked)
<1>1. /\ now \in Nat /\ due \in Int /\ asked \in Seq(Nat) /\ n \in Nat
      /\ now' = now /\ due' = due /\ asked' = Append(asked, now)
  BY DEF GetUserTweets, IInv, TypeOK
<1>2. /\ asked' \in Seq(Nat) /\ Len(asked') = n + 1 /\ asked'[n + 1] = now
      /\ \A i \in 1..n : asked'[i] = asked[i] /\ asked[i] \in Nat
  BY <1>1
<1>3. TypeOK'
  BY <1>1, <1>2 DEF GetUserTweets, IInv, TypeOK
<1>4. Held' = Held - 1 /\ Held \in 1..2
  BY DEF GetUserTweets, Held, IInv, TypeOK
<1>5. \A i \in 1..n : After(i)' = After(i)
  BY <1>2, <1>4 DEF After
<1>6. Len(asked') - (n + 1) + Held' <= 1
  BY <1>1, <1>2, <1>4
<1>7. DueLater'
  <2>. SUFFICES ASSUME NEW i \in 1..(n + 1)
                PROVE  (After(i) <= 1 \/ due >= asked[i] + (After(i) - 2) * Period)'
    BY <1>2 DEF DueLater
  <2>1. CASE i = n + 1
    BY <1>6, <2>1 DEF After
  <2>2. CASE i \in 1..n
    BY <1>1, <1>2, <1>5, <2>2 DEF IInv, DueLater
  <2>. QED
    BY <2>1, <2>2
<1>8. ASSUME NEW i \in 1..n
      PROVE  now >= asked[i] + ((n + 1) - i - 3) * Period
  <2>. DEFINE d == (n + 1) - i - 3
  <2>1. d \in Int /\ d * Period \in Int /\ asked[i] \in Nat /\ asked[i] <= now
    BY <1>1, <1>2 DEF IInv
  <2>2. CASE After(i) <= 1
    <3>1. d <= 0
      BY <1>1, <1>4, <2>2 DEF After
    <3>2. d * Period <= 0 * Period
      BY <2>1, <3>1, NotMore
    <3>. HIDE DEF d
    <3>3. now >= asked[i] + d * Period
      BY <1>1, <2>1, <3>2
    <3>. QED
      BY <3>3 DEF d
  <2>3. CASE ~(After(i) <= 1)
    <3>1. due >= asked[i] + (After(i) - 2) * Period
      BY <2>3 DEF IInv, DueLater
    <3>2. After(i) \in Int /\ d + 1 <= After(i) - 2
      BY <1>1, <1>4 DEF After
    <3>3. (d + 1) * Period <= (After(i) - 2) * Period /\ (After(i) - 2) * Period \in Int
      BY <2>1, <3>2, NotMore
    <3>4. (d + 1) * Period = d * Period + Period
      BY <2>1, OneMore
    <3>5. due <= now + Period
      BY DEF IInv
    <3>. HIDE DEF d
    <3>6. now >= asked[i] + d * Period
      BY <1>1, <2>1, <3>1, <3>3, <3>4, <3>5
    <3>. QED
      BY <3>6 DEF d
  <2>. QED
    BY <2>2, <2>3
<1>9. Spaced'
  <2>. SUFFICES ASSUME NEW i \in 1..(n + 1), NEW j \in 1..(n + 1), i < j
                PROVE  asked'[j] >= asked'[i] + (j - i - 3) * Period
    BY <1>2 DEF Spaced
  <2>1. i \in 1..n
    BY <1>1
  <2>2. CASE j = n + 1
    BY <1>2, <1>8, <2>1, <2>2
  <2>3. CASE j \in 1..n
    BY <1>2, <2>1, <2>3 DEF IInv, Spaced
  <2>. QED
    BY <2>2, <2>3
<1>10. \A i \in 1..(n + 1) : asked'[i] <= now
  BY <1>1, <1>2 DEF IInv
<1>. QED
  BY <1>1, <1>2, <1>3, <1>7, <1>9, <1>10 DEF IInv

LEMMA Invariance ==
    ASSUME Period \in Nat \ {0}
    PROVE  Spec => []IInv
<1>1. Init => IInv
  <2>. SUFFICES ASSUME Init PROVE IInv
    OBVIOUS
  <2>1. asked = <<>> /\ Len(asked) = 0 /\ now = 0 /\ due = Period
    BY DEF Init
  <2>2. TypeOK
    BY <2>1 DEF Init, TypeOK
  <2>. QED
    BY <2>1, <2>2 DEF IInv, DueLater, Spaced
<1>2. IInv /\ [Next]_vars => IInv'
  <2>1. IInv /\ UNCHANGED vars => IInv'
    BY DEF vars, IInv, TypeOK, DueLater, Spaced, After, Held
  <2>. QED
    BY <2>1, PassKeeps, TickKeeps, TakeTickKeeps, GetUserTweetsKeeps, AskNothingKeeps,
       RestartKeeps DEF Next
<1>. QED
  BY <1>1, <1>2, PTL DEF Spec

\* However late ticks, lists, requests and restarts are, the loop of Start asks
\* Twitter for at most MaxRequests + 3 timelines in any MaxRequests periods,
\* which are periodMins minutes.
THEOREM AtMostThreeTooMany ==
    ASSUME Period \in Nat \ {0}, MaxRequests \in Nat
    PROVE  Spec => []WindowBounded
<1>1. IInv => WindowBounded
  <2>. SUFFICES ASSUME IInv, NEW i \in DOMAIN asked,
                       i + MaxRequests + 3 \in DOMAIN asked
                PROVE  asked[i + MaxRequests + 3] - asked[i] >= MaxRequests * Period
    BY DEF WindowBounded
  <2>. DEFINE j == i + MaxRequests + 3
  <2>1. asked \in Seq(Nat) /\ DOMAIN asked = 1..Len(asked) /\ Len(asked) \in Nat
    BY DEF IInv, TypeOK
  <2>a. i \in 1..Len(asked) /\ j \in 1..Len(asked)
    BY <2>1
  <2>b. i \in Int
    BY <2>a
  <2>2. i \in 1..Len(asked) /\ j \in 1..Len(asked) /\ i < j /\ j - i - 3 = MaxRequests
    BY <2>a, <2>b
  <2>3. asked[i] \in Nat /\ asked[j] \in Nat
    BY <2>1, <2>2
  <2>. HIDE DEF j
  <2>4. asked[j] >= asked[i] + (j - i - 3) * Period
    BY <2>2 DEF IInv, Spaced
  <2>5. asked[j] >= asked[i] + MaxRequests * Period /\ MaxRequests * Period \in Int
    BY <2>2, <2>4
  <2>. QED
    BY <2>3, <2>5 DEF j
<1>. QED
  BY <1>1, Invariance, PTL
=============================================================================
