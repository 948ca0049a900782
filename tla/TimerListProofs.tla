--------------------------- MODULE TimerListProofs ---------------------------
(***************************************************************************)
(* What module TimerList keeps for every number of timers, every timeout     *)
(* and every width of the tick count: the list stays sorted and free of      *)
(* duplicates, no callback comes early, no wake-up is lost, and a timer calls *)
(* back at most once each time it is started.                               *)
(***************************************************************************)
EXTENDS TimerList, NaturalsInduction, WellFoundedInduction, SequenceTheorems, TLAPS

-----------------------------------------------------------------------------
(* Numbers: the least of a set, and remainders by a range that is a parameter. *)

\* Every set of natural numbers with an element has a least one.
LEMMA LeastElement ==
    ASSUME NEW S, S \subseteq Nat, S # {}
    PROVE  \E m \in S : \A i \in S : m <= i
<1> DEFINE R == {ss \in Nat \X Nat : ss[1] < ss[2]}
<1>1. IsWellFoundedOn(R, Nat)
  BY NatLessThanWellFounded DEF OpToRel
<1>2. PICK m \in S : \A i \in S : ~ (<<i, m>> \in R)
  BY <1>1, WFMin
<1>3. \A i \in S : i \in Nat /\ m \in Nat /\ ~ (i < m)
  BY <1>2
<1>4. QED
  BY <1>3

\* Division with remainder.
LEMMA Division ==
    ASSUME NEW w \in Nat \ {0}, NEW x \in Nat
    PROVE  /\ x \div w \in Nat /\ w * (x \div w) \in Nat
           /\ x % w \in 0 .. (w - 1)
           /\ x = w * (x \div w) + (x % w)
<1>1. x \div w \in Nat /\ x % w \in 0 .. (w - 1) /\ x = w * (x \div w) + (x % w)
  OBVIOUS
<1>2. \A p \in Nat : w * p \in Nat
  OBVIOUS
<1>3. QED
  BY <1>1, <1>2

LEMMA Multiples ==
    ASSUME NEW w \in Nat \ {0}, NEW p \in Nat, NEW q \in Nat, q < p
    PROVE  w * q + w <= w * p
<1>1. w * p = w * q + w * (p - q)
  OBVIOUS
<1>2. w <= w * (p - q)
  OBVIOUS
<1>3. QED
  BY <1>1, <1>2

\* Quotient and remainder are unique.
LEMMA RemainderIs ==
    ASSUME NEW w \in Nat \ {0}, NEW q \in Nat, NEW r \in 0 .. (w - 1)
    PROVE  (w * q + r) % w = r
<1> DEFINE x == w * q + r
           p == x \div w
           s == x % w
<1>1. x \in Nat /\ w * q \in Nat
  OBVIOUS
<1> HIDE DEF x
<1>2. p \in Nat /\ s \in 0 .. (w - 1) /\ x = w * p + s /\ w * p \in Nat
  BY <1>1, Division
<1>3. x = w * q + r
  BY DEF x
<1> HIDE DEF p, s
<1>4. ~ (q < p)
  BY <1>1, <1>2, <1>3, Multiples
<1>5. ~ (p < q)
  BY <1>1, <1>2, <1>3, Multiples
<1>6. p = q
  BY <1>2, <1>4, <1>5
<1>7. s = r
  BY <1>1, <1>2, <1>3, <1>6
<1>8. QED
  BY <1>7 DEF s, x

\* The remainder of the next number is one larger, or 0 when it was the largest.
LEMMA NextRemainder ==
    ASSUME NEW w \in Nat \ {0}, NEW x \in Nat
    PROVE  (x + 1) % w = IF (x % w) + 1 = w THEN 0 ELSE (x % w) + 1
<1> DEFINE q == x \div w
           r == x % w
<1>1. q \in Nat /\ w * q \in Nat /\ r \in 0 .. (w - 1) /\ x = w * q + r
  BY Division
<1> HIDE DEF q, r
<1>2. CASE r + 1 = w
  <2>1. w * (q + 1) = w * q + w
    BY <1>1
  <2>2. x + 1 = w * (q + 1) + 0
    BY <1>1, <1>2, <2>1
  <2>3. (w * (q + 1) + 0) % w = 0
    BY <1>1, RemainderIs
  <2>4. QED
    BY <1>2, <2>2, <2>3 DEF r
<1>3. CASE r + 1 # w
  <2>1. x + 1 = w * q + (r + 1) /\ r + 1 \in 0 .. (w - 1)
    BY <1>1, <1>3
  <2>2. (w * q + (r + 1)) % w = r + 1
    BY <1>1, <2>1, RemainderIs
  <2>3. QED
    BY <1>3, <2>1, <2>2 DEF r
<1>4. QED
  BY <1>2, <1>3

-----------------------------------------------------------------------------
(***************************************************************************)
(* The inductive invariant, in parts.                                      *)
(***************************************************************************)
FiredOK(f) ==
    /\ f = [timer |-> f.timer, late |-> f.late, inStep |-> f.inStep, owed |-> f.owed]
    /\ f.late \in Int /\ f.inStep \in BOOLEAN /\ f.owed \in BOOLEAN

ThreadOK ==
    /\ thread = [pc |-> thread.pc, last |-> thread.last, seen |-> thread.seen,
                 sleep |-> thread.sleep, wake |-> thread.wake,
                 fired |-> thread.fired, at |-> thread.at]
    /\ thread.pc \in Places /\ thread.last \in 0 .. (Word - 1)
    /\ thread.seen = None \/ thread.seen \in [timer : Timers]
    /\ thread.sleep \in Nat /\ thread.at \in Nat
    /\ FiredOK(thread.fired)
    /\ thread.pc = "post" => thread.fired.timer \in Timers

TypeInv == TypeOK /\ ThreadOK

\* The upper word of the thread never runs ahead, and while the thread holds a tick
\* count the clock has not rolled over since, or the upper word lags by that rollover.
Holding == {"compare", "subtract", "wait", "lock"}

ClockInv ==
    /\ absTimeHi <= HighWord(now)
    /\ thread.pc \in Holding =>
         absTimeHi + Word <= HighWord(now) \/ thread.last <= Tick32(now)

\* A timer started in step has the target time that was meant.
DueInv ==
    /\ \A t \in Timers : inStep[t] => target[t] = due[t]
    /\ NeverEarly

\* What is listed is owed, and what expired was.
OwedInv ==
    /\ \A i \in DOMAIN list : owed[list[i]]
    /\ OncePerStart

\* Unless the event is set, the head the thread saw is still the head; once compared,
\* it does not lie in the past of the thread.
LookInv ==
    /\ thread.pc \in {"compare", "subtract"} /\ ~ event =>
         list # <<>> /\ thread.seen = [timer |-> Head(list)]
    /\ thread.pc = "subtract" /\ ~ event =>
         absTimeHi + thread.last <= target[Head(list)]
    /\ NoOversleep

IInv == TypeInv /\ ListOK /\ ClockInv /\ DueInv /\ OwedInv /\ LookInv

-----------------------------------------------------------------------------
(***************************************************************************)
(* The list: what unlinking and linking a timer do to a sorted list         *)
(* without duplicates.                                                     *)
(***************************************************************************)
Distinct(l) == \A i, j \in DOMAIN l : l[i] = l[j] => i = j
Sorted(l, x) == \A i, j \in DOMAIN l : i < j => x[l[i]] <= x[l[j]]
Within(k, l) == \A i \in DOMAIN k : \E j \in DOMAIN l : k[i] = l[j]
Without(l, t) == \A i \in DOMAIN l : l[i] # t

\* Unlinking keeps the rest in order, and the timer is gone.
LEMMA UnlinkedList ==
    ASSUME NEW l \in Seq(Timers), NEW t, Distinct(l),
           NEW x \in [Timers -> Nat], Sorted(l, x)
    PROVE  LET u == Unlinked(l, t)
           IN  /\ u \in Seq(Timers)
               /\ Within(u, l) /\ Without(u, t) /\ Distinct(u) /\ Sorted(u, x)
<1>1. CASE Without(l, t)
  <2>1. Unlinked(l, t) = l
    BY <1>1 DEF Unlinked, Without
  <2>2. Within(l, l)
    BY DEF Within
  <2>3. QED
    BY <1>1, <2>1, <2>2
<1>2. CASE ~ Without(l, t)
  <2> DEFINE at == CHOOSE i \in DOMAIN l : l[i] = t /\ \A j \in 1 .. (i - 1) : l[j] # t
             u == [i \in 1 .. (Len(l) - 1) |-> IF i < at THEN l[i] ELSE l[i + 1]]
  <2>1. DOMAIN l = 1 .. Len(l) /\ Len(l) \in Nat /\ \A i \in 1 .. Len(l) : l[i] \in Timers
    OBVIOUS
  <2>2. \E i \in DOMAIN l : l[i] = t /\ \A j \in 1 .. (i - 1) : l[j] # t
    <3>1. PICK i \in DOMAIN l : l[i] = t
      BY <1>2 DEF Without
    <3>2. \A j \in 1 .. (i - 1) : j \in DOMAIN l /\ j # i
      BY <2>1, <3>1
    <3>3. \A j \in 1 .. (i - 1) : l[j] # t
      BY <3>1, <3>2 DEF Distinct
    <3>4. QED
      BY <3>1, <3>3
  <2>3. at \in 1 .. Len(l) /\ l[at] = t
    BY <2>1, <2>2
  <2>4. Unlinked(l, t) = u
    BY <1>2 DEF Unlinked, Without
  <2> HIDE DEF at
  <2>5. u \in Seq(Timers) /\ DOMAIN u = 1 .. (Len(l) - 1)
    <3>1. Len(l) - 1 \in Nat
      BY <2>1, <2>3
    <3>2. \A i \in 1 .. (Len(l) - 1) : u[i] \in Timers
      BY <2>1, <2>3
    <3>3. QED
      BY <3>1, <3>2
  <2> DEFINE from(i) == IF i < at THEN i ELSE i + 1
  <2>6. \A i \in DOMAIN u : from(i) \in DOMAIN l /\ from(i) # at /\ u[i] = l[from(i)]
    BY <2>1, <2>3, <2>5
  <2>7. \A i, j \in DOMAIN u : (i < j => from(i) < from(j)) /\ (from(i) = from(j) => i = j)
    BY <2>3, <2>5
  <2> HIDE DEF u, from
  <2>8. Within(u, l)
    BY <2>6 DEF Within
  <2>9. Without(u, t)
    BY <2>1, <2>3, <2>6 DEF Without, Distinct
  <2>10. Distinct(u)
    BY <2>6, <2>7 DEF Distinct
  <2>11. Sorted(u, x)
    BY <2>6, <2>7 DEF Sorted
  <2>12. QED
    BY <2>4, <2>5, <2>8, <2>9, <2>10, <2>11
<1>3. QED
  BY <1>1, <1>2

\* Linking puts the timer where its new target belongs.
LEMMA LinkedList ==
    ASSUME NEW u \in Seq(Timers), NEW t \in Timers, NEW x \in Nat,
           target \in [Timers -> Nat],
           Without(u, t), Distinct(u), Sorted(u, target)
    PROVE  LET r == Linked(u, t, x)
           IN  /\ r \in Seq(Timers)
               /\ \A i \in DOMAIN r : r[i] = t \/ \E j \in DOMAIN u : r[i] = u[j]
               /\ Distinct(r) /\ Sorted(r, [target EXCEPT ![t] = x])
<1> DEFINE later == {i \in DOMAIN u : target[u[i]] > x}
           at    == IF later = {} THEN Len(u) + 1
                    ELSE CHOOSE i \in later : \A j \in later : i <= j
           r     == [i \in 1 .. (Len(u) + 1) |->
                        IF i < at THEN u[i] ELSE IF i = at THEN t ELSE u[i - 1]]
           y     == [target EXCEPT ![t] = x]
<1>1. DOMAIN u = 1 .. Len(u) /\ Len(u) \in Nat /\ \A i \in 1 .. Len(u) : u[i] \in Timers
  OBVIOUS
<1>2. later # {} => at \in later /\ \A j \in later : at <= j
  <2>1. later \subseteq Nat
    BY <1>1
  <2>2. later # {} => \E i \in later : \A j \in later : i <= j
    BY <2>1, LeastElement
  <2>3. QED
    BY <2>2
<1>3. at \in 1 .. (Len(u) + 1) /\ \A j \in DOMAIN u : j < at => ~ (target[u[j]] > x)
  <2>1. CASE later = {}
    <3>1. at = Len(u) + 1 /\ \A j \in DOMAIN u : ~ (target[u[j]] > x)
      BY <2>1
    <3> HIDE DEF at, later
    <3>2. QED
      BY <1>1, <3>1
  <2>2. CASE later # {}
    <3> HIDE DEF at
    <3>1. \A j \in DOMAIN u : j \in Nat
      BY <1>1
    <3>2. at \in DOMAIN u /\ \A j \in DOMAIN u : target[u[j]] > x => at <= j
      BY <1>2, <2>2
    <3>3. QED
      BY <1>1, <3>1, <3>2
  <2>3. QED
    BY <2>1, <2>2
<1>4. \A j \in DOMAIN u : j >= at => target[u[j]] > x
  <2>1. CASE later = {}
    BY <1>1, <2>1
  <2>2. CASE later # {}
    <3> HIDE DEF at
    <3>1. at \in DOMAIN u /\ target[u[at]] > x
      BY <1>2, <2>2
    <3>2. \A j \in DOMAIN u : j > at => target[u[at]] <= target[u[j]]
      BY <1>1, <3>1 DEF Sorted
    <3>3. \A j \in DOMAIN u : target[u[j]] \in Nat
      BY <1>1
    <3>4. QED
      BY <1>1, <3>1, <3>2, <3>3
  <2>3. QED
    BY <2>1, <2>2
<1>5. Linked(u, t, x) = r
  BY DEF Linked
<1> HIDE DEF at, later
<1>6. r \in Seq(Timers) /\ DOMAIN r = 1 .. (Len(u) + 1)
  <2>1. \A i \in 1 .. (Len(u) + 1) : r[i] \in Timers
    BY <1>1, <1>3
  <2>2. QED
    BY <1>1, <2>1
<1> DEFINE from(i) == IF i < at THEN i ELSE i - 1
<1>7. \A i \in DOMAIN r : /\ i = at => r[i] = t
                          /\ i # at => from(i) \in DOMAIN u /\ r[i] = u[from(i)]
  BY <1>1, <1>3, <1>6
<1>8. \A i, j \in DOMAIN r :
        i # at /\ j # at => (i < j => from(i) < from(j)) /\ (from(i) = from(j) => i = j)
  BY <1>3, <1>6
<1>9. \A i \in DOMAIN r : /\ i < at => y[r[i]] <= x
                          /\ i > at => y[r[i]] > x
                          /\ i # at => y[r[i]] = target[r[i]] /\ r[i] # t
                          /\ y[r[i]] \in Nat
  <2>1. \A i \in DOMAIN r : (i < at => from(i) < at) /\ (i > at => from(i) >= at)
    BY <1>3, <1>6
  <2> HIDE DEF from, r
  <2>2. \A i \in DOMAIN u : u[i] # t /\ u[i] \in Timers /\ y[u[i]] = target[u[i]]
    BY <1>1 DEF Without
  <2>3. y[t] = x
    OBVIOUS
  <2>4. at \in Nat /\ DOMAIN r \subseteq Nat
    BY <1>1, <1>3, <1>6
  <2> HIDE DEF y
  <2>5. \A i \in DOMAIN u : target[u[i]] \in Nat
    BY <2>2
  <2>6. QED
    BY <1>3, <1>4, <1>7, <2>1, <2>2, <2>3, <2>4, <2>5
<1> HIDE DEF r, from, y
<1>10. \A i \in DOMAIN r : r[i] = t \/ \E j \in DOMAIN u : r[i] = u[j]
  BY <1>7
<1>11. Distinct(r)
  BY <1>7, <1>8, <1>9 DEF Distinct
<1>12. Sorted(r, y)
  <2> SUFFICES ASSUME NEW i \in DOMAIN r, NEW j \in DOMAIN r, i < j
               PROVE  y[r[i]] <= y[r[j]]
    BY DEF Sorted
  <2>1. i \in Nat /\ j \in Nat /\ at \in Nat /\ x \in Nat
    BY <1>1, <1>3, <1>6
  <2>2. y[t] = x
    BY DEF y
  <2>3. CASE i = at \/ j = at
    BY <1>7, <1>9, <2>1, <2>2, <2>3
  <2>4. CASE i # at /\ j # at
    BY <1>7, <1>8, <1>9, <2>4 DEF Sorted
  <2>5. QED
    BY <2>3, <2>4
<1>13. QED
  BY <1>5, <1>6, <1>10, <1>11, <1>12 DEF y

-----------------------------------------------------------------------------
(***************************************************************************)
(* The tick count.                                                         *)
(***************************************************************************)

\* The time is the upper word and the tick count, and a millisecond later the upper
\* word is the same and the tick count one more, or the tick count has rolled over.
LEMMA ClockParts ==
    ASSUME NEW n \in Nat
    PROVE  /\ Tick32(n) \in 0 .. (Word - 1) /\ HighWord(n) \in Nat
           /\ n = HighWord(n) + Tick32(n)
<1>1. Word \in Nat \ {0}
  BY TimerAssumption
<1>2. n % Word \in 0 .. (Word - 1) /\ n % Word <= n
  BY <1>1
<1>3. QED
  BY <1>1, <1>2 DEF Tick32, HighWord

LEMMA ClockStep ==
    ASSUME NEW n \in Nat
    PROVE  \/ HighWord(n + 1) = HighWord(n) /\ Tick32(n + 1) = Tick32(n) + 1
           \/ HighWord(n + 1) = HighWord(n) + Word
<1>1. Word \in Nat \ {0}
  BY TimerAssumption
<1>2. n % Word \in 0 .. (Word - 1)
  BY <1>1
<1>3. (n + 1) % Word = IF (n % Word) + 1 = Word THEN 0 ELSE (n % Word) + 1
  BY <1>1, NextRemainder
<1>4. CASE (n % Word) + 1 = Word
  <2>1. (n + 1) % Word = 0
    BY <1>3, <1>4
  <2>2. QED
    BY <1>1, <1>2, <1>4, <2>1 DEF HighWord, Tick32
<1>5. CASE (n % Word) + 1 # Word
  <2>1. (n + 1) % Word = (n % Word) + 1
    BY <1>3, <1>5
  <2>2. QED
    BY <1>1, <1>2, <2>1 DEF HighWord, Tick32
<1>6. QED
  BY <1>4, <1>5

\* The target of a timer is the time it is due when the upper word is up to date, and
\* never below the upper word.
LEMMA TargetMeant ==
    ASSUME now \in Nat, NEW hi \in Nat, NEW timeout \in 0 .. (Word - 1)
    PROVE  /\ TargetTime(hi, timeout) \in Nat
           /\ hi = HighWord(now) => TargetTime(hi, timeout) = now + timeout
<1> DEFINE c == Tick32(now)
<1>1. Word \in Nat \ {0}
  BY TimerAssumption
<1>2. c \in 0 .. (Word - 1) /\ HighWord(now) \in Nat /\ now = HighWord(now) + c
  BY ClockParts
<1> HIDE DEF c
<1>3. CASE c + timeout < Word
  <2>1. c + timeout \in 0 .. (Word - 1)
    BY <1>1, <1>2, <1>3
  <2>2. (c + timeout) % Word = c + timeout
    BY <1>1, <2>1
  <2>3. TargetTime(hi, timeout) = hi + (c + timeout)
    BY <1>1, <1>2, <1>3, <2>2 DEF TargetTime, Tick32, c
  <2>4. QED
    BY <1>1, <1>2, <2>3
<1>4. CASE c + timeout >= Word
  <2>1. (c + timeout) % Word = (c + timeout) - Word
    BY <1>1, <1>2, <1>4
  <2>2. TargetTime(hi, timeout) = hi + ((c + timeout) - Word) + Word
    BY <1>1, <1>2, <1>4, <2>1 DEF TargetTime, Tick32, c
  <2>3. QED
    BY <1>1, <1>2, <1>4, <2>2
<1>5. QED
  BY <1>1, <1>2, <1>3, <1>4

-----------------------------------------------------------------------------
(***************************************************************************)
(* Starting and stopping a timer, by whichever thread.                     *)
(***************************************************************************)
ListInv == ListOK /\ \A i \in DOMAIN list : owed[list[i]]

ListTypes ==
    /\ now \in Nat
    /\ list \in Seq(Timers)
    /\ target \in [Timers -> Nat] /\ due \in [Timers -> Nat]
    /\ interval \in [Timers -> {0} \cup Timeouts]
    /\ event \in BOOLEAN /\ inStep \in [Timers -> BOOLEAN]
    /\ owed \in [Timers -> BOOLEAN]

LEMMA StopSound ==
    ASSUME ListTypes, ListInv, \A s \in Timers : inStep[s] => target[s] = due[s],
           NEW t \in Timers, StopTimer(t), now' = now
    PROVE  /\ ListTypes' /\ ListInv' /\ event'
           /\ \A s \in Timers : inStep'[s] => target'[s] = due'[s]
<1> DEFINE u == Unlinked(list, t)
<1>1. Distinct(list) /\ Sorted(list, target) /\ list \in Seq(Timers)
  BY DEF ListTypes, ListInv, ListOK, Distinct, Sorted
<1>2. u \in Seq(Timers) /\ Within(u, list) /\ Without(u, t) /\ Distinct(u) /\ Sorted(u, target)
  BY <1>1, UnlinkedList DEF ListTypes
<1>3. /\ list' = u /\ event' = TRUE /\ owed' = [owed EXCEPT ![t] = FALSE]
      /\ target' = target /\ interval' = interval /\ due' = due /\ inStep' = inStep
  BY DEF StopTimer
<1> HIDE DEF u
<1>4. ListTypes'
  BY <1>2, <1>3 DEF ListTypes
<1>5. \A i \in DOMAIN u : u[i] # t /\ owed[u[i]] /\ u[i] \in Timers
  BY <1>1, <1>2 DEF ListInv, Within, Without
<1>6. ListInv'
  BY <1>2, <1>3, <1>5 DEF ListInv, ListOK, ListTypes, Distinct, Sorted
<1>7. QED
  BY <1>3, <1>4, <1>6

LEMMA StartSound ==
    ASSUME ListTypes, ListInv, \A s \in Timers : inStep[s] => target[s] = due[s],
           NEW t \in Timers, NEW timeout \in {0} \cup Timeouts, NEW hi \in Nat,
           StartTimer(t, timeout, hi), now' = now
    PROVE  /\ ListTypes' /\ ListInv' /\ event'
           /\ \A s \in Timers : inStep'[s] => target'[s] = due'[s]
<1> DEFINE u == Unlinked(list, t)
           x == TargetTime(hi, timeout)
           r == Linked(u, t, x)
<1>1. Distinct(list) /\ Sorted(list, target) /\ list \in Seq(Timers)
  BY DEF ListTypes, ListInv, ListOK, Distinct, Sorted
<1>2. u \in Seq(Timers) /\ Within(u, list) /\ Without(u, t) /\ Distinct(u) /\ Sorted(u, target)
  BY <1>1, UnlinkedList DEF ListTypes
<1>3. timeout \in 0 .. (Word - 1) /\ timeout \in Nat
  BY TimerAssumption
<1>4. x \in Nat /\ (hi = HighWord(now) => x = now + timeout)
  BY <1>3, TargetMeant DEF ListTypes
<1>5. /\ list' = r /\ event' = TRUE /\ owed' = [owed EXCEPT ![t] = TRUE]
      /\ target' = [target EXCEPT ![t] = x] /\ interval' = [interval EXCEPT ![t] = timeout]
      /\ due' = [due EXCEPT ![t] = now + timeout]
      /\ inStep' = [inStep EXCEPT ![t] = (hi = HighWord(now))]
  BY DEF StartTimer
<1> HIDE DEF u, x
<1>6. /\ r \in Seq(Timers)
      /\ \A i \in DOMAIN r : r[i] = t \/ \E j \in DOMAIN u : r[i] = u[j]
      /\ Distinct(r) /\ Sorted(r, [target EXCEPT ![t] = x])
  BY <1>2, <1>4, LinkedList DEF ListTypes
<1> HIDE DEF r
<1>7. ListTypes'
  BY <1>3, <1>4, <1>5, <1>6 DEF ListTypes
<1>8. \A i \in DOMAIN r : owed'[r[i]]
  <2>1. \A i \in DOMAIN u : owed[u[i]] /\ u[i] \in Timers
    BY <1>1, <1>2 DEF ListInv, Within
  <2>2. \A s \in Timers : owed'[s] = IF s = t THEN TRUE ELSE owed[s]
    BY <1>5 DEF ListTypes
  <2>3. QED
    BY <1>6, <2>1, <2>2
<1>9. ListInv'
  BY <1>5, <1>6, <1>8 DEF ListInv, ListOK, Distinct, Sorted
<1>10. \A s \in Timers : inStep'[s] => target'[s] = due'[s]
  BY <1>4, <1>5 DEF ListTypes
<1>11. QED
  BY <1>5, <1>7, <1>9, <1>10

-----------------------------------------------------------------------------
(***************************************************************************)
(* Every step keeps the invariant.                                         *)
(***************************************************************************)
LEMMA Parts ==
    ASSUME IInv
    PROVE  /\ ListTypes /\ ListInv
           /\ \A s \in Timers : inStep[s] => target[s] = due[s]
           /\ absTimeHi \in Nat /\ Word \in Nat \ {0}
           /\ list # <<>> => Head(list) \in Timers /\ Len(list) \in Nat \ {0}
                             /\ 1 \in DOMAIN list /\ Head(list) = list[1]
<1>1. ListTypes
  BY TimerAssumption DEF IInv, TypeInv, TypeOK, ListTypes
<1>2. Word \in Nat \ {0}
  BY TimerAssumption
<1>3. list # <<>> => Head(list) \in Timers /\ Len(list) \in Nat \ {0}
                     /\ 1 \in DOMAIN list /\ Head(list) = list[1]
  BY <1>1 DEF ListTypes
<1>4. QED
  BY <1>1, <1>2, <1>3 DEF IInv, TypeInv, TypeOK, ListInv, OwedInv, DueInv

\* What the list's operations do is all the invariant needs to know of them: they set
\* the event, so that nothing is said of a thread that is about to sleep.
LEMMA ListChanged ==
    ASSUME IInv, ListTypes', ListInv', event',
           \A s \in Timers : inStep'[s] => target'[s] = due'[s],
           now' = now, absTimeHi' \in Nat, posts' = posts, starts' \in Nat
    PROVE  /\ TypeOK' <=> thread'.pc \in Places /\ thread'.last \in 0 .. (Word - 1)
           /\ ListOK' /\ LookInv'
           /\ DueInv' <=> NeverEarly'
           /\ OwedInv' <=> OncePerStart'
<1>1. TypeOK' <=> thread'.pc \in Places /\ thread'.last \in 0 .. (Word - 1)
  BY DEF IInv, TypeInv, TypeOK, ListTypes
<1>2. LookInv'
  BY DEF LookInv, NoOversleep
<1>3. QED
  BY <1>1, <1>2 DEF ListInv, DueInv, OwedInv

LEMMA InitSound == ASSUME Init PROVE IInv
<1>1. Word \in Nat \ {0} /\ MaxTime \in Nat
  BY TimerAssumption
<1>2. list = <<>> /\ list \in Seq(Timers) /\ posts = <<>>
      /\ posts \in Seq(Timers) /\ DOMAIN list = {}
  BY DEF Init
<1>3. TypeOK
  <2>1. thread.pc \in Places /\ thread.last \in 0 .. (Word - 1)
    <3>1. thread.pc = "none" /\ thread.last = 0
      BY DEF Init
    <3>2. QED
      BY <1>1, <3>1 DEF Places
  <2>2. /\ target \in [Timers -> Nat] /\ due \in [Timers -> Nat]
        /\ interval \in [Timers -> {0} \cup Timeouts]
    BY DEF Init
  <2>3. inStep \in [Timers -> BOOLEAN] /\ owed \in [Timers -> BOOLEAN]
    BY DEF Init
  <2>4. now \in 0 .. MaxTime /\ absTimeHi \in Nat /\ starts \in Nat /\ event \in BOOLEAN
    <3>1. now = 0 /\ absTimeHi = 0 /\ starts = 0
      BY DEF Init
    <3>2. now \in 0 .. MaxTime /\ absTimeHi \in Nat /\ starts \in Nat
      BY <1>1, <3>1
    <3>3. event \in BOOLEAN
      BY Zenon DEF Init
    <3>4. QED
      BY <3>2, <3>3
  <2>5. QED
    BY <1>2, <2>1, <2>2, <2>3, <2>4, Zenon DEF TypeOK
<1>4. ThreadOK
  <2>1. FiredOK(NoFired)
    BY DEF FiredOK, NoFired
  <2>2. /\ thread.pc = "none" /\ thread.last = 0 /\ thread.seen = None
        /\ thread.sleep = 0 /\ thread.wake = 0 /\ thread.fired = NoFired /\ thread.at = 0
    BY DEF Init
  <2>3. thread = [pc |-> thread.pc, last |-> thread.last, seen |-> thread.seen,
                  sleep |-> thread.sleep, wake |-> thread.wake,
                  fired |-> thread.fired, at |-> thread.at]
    BY DEF Init
  <2>4. QED
    BY <1>1, <2>1, <2>2, <2>3 DEF ThreadOK, Places
<1>5. ListOK
  BY <1>2 DEF ListOK
<1>6. ClockInv
  <2>1. HighWord(now) \in Nat
    BY ClockParts DEF Init
  <2>2. QED
    BY <1>1, <2>1 DEF Init, ClockInv, Holding
<1>7. DueInv
  BY <1>1 DEF Init, DueInv, NeverEarly, NoFired
<1>8. OwedInv
  BY <1>2 DEF Init, OwedInv, OncePerStart, NoFired
<1>9. LookInv
  BY DEF Init, LookInv, NoOversleep
<1>10. QED
  BY <1>3, <1>4, <1>5, <1>6, <1>7, <1>8, <1>9 DEF IInv, TypeInv

LEMMA TickSound == ASSUME IInv, Tick PROVE IInv'
<1> USE DEF IInv
<1>1. /\ now' = now + 1 /\ now < MaxTime /\ absTimeHi' = absTimeHi /\ list' = list
      /\ target' = target /\ interval' = interval /\ event' = event /\ thread' = thread
      /\ posts' = posts /\ due' = due /\ inStep' = inStep /\ owed' = owed /\ starts' = starts
  BY DEF Tick, timer, hist
<1>2. TypeOK'
  BY <1>1, TimerAssumption DEF TypeInv, TypeOK
<1>3. ThreadOK'
  BY <1>1 DEF TypeInv, ThreadOK
<1>4. ListOK' /\ DueInv' /\ OwedInv' /\ LookInv'
  BY <1>1 DEF ListOK, DueInv, NeverEarly, OwedInv, OncePerStart, LookInv, NoOversleep
<1>5. ClockInv'
  <2>1. now \in Nat /\ absTimeHi \in Nat /\ Word \in Nat \ {0} /\ thread.last \in 0 .. (Word - 1)
    BY TimerAssumption DEF TypeInv, TypeOK
  <2>2. /\ Tick32(now) \in 0 .. (Word - 1) /\ HighWord(now) \in Nat
        /\ Tick32(now + 1) \in 0 .. (Word - 1) /\ HighWord(now + 1) \in Nat
    BY <2>1, ClockParts
  <2>3. \/ HighWord(now + 1) = HighWord(now) /\ Tick32(now + 1) = Tick32(now) + 1
        \/ HighWord(now + 1) = HighWord(now) + Word
    BY <2>1, ClockStep
  <2>4. HighWord(now)' = HighWord(now + 1) /\ Tick32(now)' = Tick32(now + 1)
    BY <1>1 DEF HighWord, Tick32
  <2>5. QED
    BY <1>1, <2>1, <2>2, <2>3, <2>4 DEF ClockInv
<1>6. QED
  BY <1>2, <1>3, <1>4, <1>5 DEF TypeInv

LEMMA StartStep == ASSUME IInv, NEW t \in Timers, Start(t) PROVE IInv'
<1>1. PICK timeout \in Timeouts : StartTimer(t, timeout, absTimeHi)
  BY DEF Start
<1>2. /\ now' = now /\ absTimeHi' = absTimeHi /\ posts' = posts /\ starts' = starts + 1
      /\ thread' = IF thread.pc = "none" THEN [thread EXCEPT !.pc = "top"] ELSE thread
  BY DEF Start
<1>3. /\ ListTypes' /\ ListInv' /\ event'
      /\ \A s \in Timers : inStep'[s] => target'[s] = due'[s]
  BY <1>1, <1>2, Parts, StartSound
<1>4. ThreadOK' /\ thread'.fired = thread.fired /\ thread'.last = thread.last
      /\ (thread'.pc = thread.pc \/ thread'.pc = "top")
  BY <1>2 DEF IInv, TypeInv, ThreadOK, Places
<1>5. TypeOK' /\ ListOK' /\ DueInv' /\ OwedInv' /\ LookInv'
  <2>1. starts' \in Nat /\ absTimeHi' \in Nat
    BY <1>2 DEF IInv, TypeInv, TypeOK
  <2>2. NeverEarly' /\ OncePerStart'
    BY <1>4 DEF IInv, DueInv, OwedInv, NeverEarly, OncePerStart
  <2>3. thread'.pc \in Places /\ thread'.last \in 0 .. (Word - 1)
    BY <1>4 DEF ThreadOK
  <2>4. QED
    BY <1>2, <1>3, <2>1, <2>2, <2>3, ListChanged
<1>6. ClockInv'
  BY <1>2, <1>4 DEF IInv, ClockInv, Holding, HighWord, Tick32
<1>7. QED
  BY <1>4, <1>5, <1>6 DEF IInv, TypeInv

LEMMA StopStep == ASSUME IInv, NEW t \in Timers, Stop(t) PROVE IInv'
<1>1. /\ StopTimer(t) /\ now' = now /\ absTimeHi' = absTimeHi /\ posts' = posts
      /\ starts' = starts /\ thread' = thread
  BY DEF Stop
<1>2. /\ ListTypes' /\ ListInv' /\ event'
      /\ \A s \in Timers : inStep'[s] => target'[s] = due'[s]
  BY <1>1, Parts, StopSound
<1>3. ThreadOK' /\ NeverEarly' /\ OncePerStart'
  BY <1>1 DEF IInv, TypeInv, ThreadOK, DueInv, OwedInv, NeverEarly, OncePerStart
<1>4. TypeOK' /\ ListOK' /\ DueInv' /\ OwedInv' /\ LookInv'
  <2>1. starts' \in Nat /\ absTimeHi' \in Nat
    BY <1>1 DEF IInv, TypeInv, TypeOK
  <2>2. thread'.pc \in Places /\ thread'.last \in 0 .. (Word - 1)
    BY <1>3 DEF ThreadOK
  <2>3. QED
    BY <1>1, <1>2, <1>3, <2>1, <2>2, ListChanged
<1>5. ClockInv'
  BY <1>1 DEF IInv, ClockInv, HighWord, Tick32
<1>6. QED
  BY <1>3, <1>4, <1>5 DEF IInv, TypeInv

LEMMA CallbackStep == ASSUME IInv, OnTimerCallback PROVE IInv'
<1> USE DEF IInv
<1>1. /\ posts # <<>> /\ posts' = Tail(posts)
      /\ now' = now /\ absTimeHi' = absTimeHi /\ list' = list
      /\ target' = target /\ interval' = interval /\ event' = event /\ thread' = thread
      /\ due' = due /\ inStep' = inStep /\ owed' = owed /\ starts' = starts
  BY DEF OnTimerCallback, timer, hist
<1>2. TypeOK' /\ ThreadOK'
  BY <1>1 DEF TypeInv, TypeOK, ThreadOK
<1>3. ListOK' /\ DueInv' /\ OwedInv' /\ LookInv' /\ ClockInv'
  BY <1>1 DEF ListOK, DueInv, NeverEarly, OwedInv, OncePerStart, LookInv, NoOversleep,
              ClockInv, HighWord, Tick32
<1>4. QED
  BY <1>2, <1>3 DEF TypeInv

\* The steps of the thread that do not touch the list.
LEMMA ThreadOnly ==
    ASSUME IInv, ThreadOK', thread'.fired = thread.fired,
           now' = now, absTimeHi' = absTimeHi, list' = list,
           target' = target, interval' = interval, posts' = posts,
           due' = due, inStep' = inStep, owed' = owed, starts' = starts, event' \in BOOLEAN,
           thread'.pc \in Holding => thread'.last <= Tick32(now) \/
                                     (thread.pc \in Holding /\ thread'.last = thread.last)
    PROVE  TypeInv' /\ ListOK' /\ ClockInv' /\ DueInv' /\ OwedInv'
<1>1. TypeInv'
  BY DEF IInv, TypeInv, TypeOK, ThreadOK
<1>2. ClockInv'
  BY DEF IInv, ClockInv, HighWord, Tick32
<1>3. QED
  BY <1>1, <1>2 DEF IInv, ListOK, DueInv, NeverEarly, OwedInv, OncePerStart

LEMMA LookStep == ASSUME IInv, Look PROVE IInv'
<1> DEFINE seen == IF list = <<>> THEN None ELSE [timer |-> Head(list)]
           pc   == IF list = <<>> THEN "wait" ELSE "compare"
           sleep == IF list = <<>> THEN MaxSleep ELSE thread.sleep
           wake == IF list = <<>> THEN now + MaxSleep ELSE thread.wake
<1>1. /\ now' = now /\ absTimeHi' = absTimeHi /\ list' = list
      /\ target' = target /\ interval' = interval /\ event' = event /\ posts' = posts
      /\ due' = due /\ inStep' = inStep /\ owed' = owed /\ starts' = starts
  BY DEF Look, timer, hist
<1>2. thread' = [pc |-> pc, last |-> Tick32(now), seen |-> seen, sleep |-> sleep,
                 wake |-> wake, fired |-> thread.fired, at |-> now]
  BY DEF Look, IInv, TypeInv, ThreadOK
<1>3. Tick32(now) \in 0 .. (Word - 1) /\ now \in Nat /\ MaxSleep \in Nat
  <2>1. now \in Nat
    BY DEF IInv, TypeInv, TypeOK
  <2>2. Tick32(now) \in 0 .. (Word - 1)
    BY <2>1, ClockParts
  <2>3. QED
    BY <2>1, <2>2, TimerAssumption
<1>4. /\ seen = None \/ seen \in [timer : Timers]
      /\ pc \in Places /\ sleep \in Nat /\ pc # "post"
  BY <1>3, Parts DEF IInv, TypeInv, ThreadOK, Places
<1>5. list # <<>> => pc = "compare" /\ seen = [timer |-> Head(list)]
  OBVIOUS
<1>6. list = <<>> => pc = "wait"
  OBVIOUS
<1> HIDE DEF seen, pc, sleep, wake
<1>7. ThreadOK' /\ thread'.fired = thread.fired /\ thread'.pc = pc /\ thread'.seen = seen
      /\ thread'.last = Tick32(now)
  BY <1>2, <1>3, <1>4 DEF IInv, TypeInv, ThreadOK
<1>8. TypeInv' /\ ListOK' /\ ClockInv' /\ DueInv' /\ OwedInv'
  <2>1. event' \in BOOLEAN
    BY <1>1 DEF IInv, TypeInv, TypeOK
  <2>2. Tick32(now) <= Tick32(now)
    BY <1>3
  <2>3. QED
    BY <1>1, <1>7, <2>1, <2>2, ThreadOnly
<1>9. LookInv'
  BY <1>1, <1>5, <1>6, <1>7 DEF LookInv, NoOversleep
<1>10. QED
  BY <1>8, <1>9 DEF IInv

LEMMA CompareStep == ASSUME IInv, Compare PROVE IInv'
<1>1. PICK h \in {thread.seen, HeadNow} :
        thread' = IF h = None THEN [thread EXCEPT !.pc = "crashed"]
                  ELSE IF target[h.timer] < absTimeHi + thread.last
                       THEN [thread EXCEPT !.pc = "lock", !.seen = None]
                       ELSE [thread EXCEPT !.pc = "subtract", !.seen = h]
  BY DEF Compare
<1>2. /\ now' = now /\ absTimeHi' = absTimeHi /\ list' = list
      /\ target' = target /\ interval' = interval /\ event' = event /\ posts' = posts
      /\ due' = due /\ inStep' = inStep /\ owed' = owed /\ starts' = starts
      /\ thread.pc = "compare"
  BY DEF Compare, timer, hist
<1>3. h = None \/ h \in [timer : Timers]
  BY Parts DEF HeadNow, IInv, TypeInv, ThreadOK
<1>4. event' \in BOOLEAN
  BY <1>2 DEF IInv, TypeInv, TypeOK
<1>5. ~ event => h = [timer |-> Head(list)] /\ list # <<>>
  BY <1>2 DEF IInv, LookInv, HeadNow
<1>6. CASE h = None
  <2>1. ThreadOK' /\ thread'.fired = thread.fired /\ thread'.pc = "crashed"
    BY <1>1, <1>6 DEF IInv, TypeInv, ThreadOK, Places
  <2>2. TypeInv' /\ ListOK' /\ ClockInv' /\ DueInv' /\ OwedInv'
    BY <1>2, <1>4, <2>1, ThreadOnly DEF Holding
  <2>3. LookInv'
    BY <2>1 DEF LookInv, NoOversleep
  <2>4. QED
    BY <2>2, <2>3 DEF IInv
<1>7. CASE h # None /\ target[h.timer] < absTimeHi + thread.last
  <2>1. ThreadOK' /\ thread'.fired = thread.fired /\ thread'.pc = "lock"
        /\ thread'.last = thread.last
    BY <1>1, <1>7 DEF IInv, TypeInv, ThreadOK, Places
  <2>2. TypeInv' /\ ListOK' /\ ClockInv' /\ DueInv' /\ OwedInv'
    BY <1>2, <1>4, <2>1, ThreadOnly DEF Holding
  <2>3. LookInv'
    BY <2>1 DEF LookInv, NoOversleep
  <2>4. QED
    BY <2>2, <2>3 DEF IInv
<1>8. CASE h # None /\ ~ (target[h.timer] < absTimeHi + thread.last)
  <2>1. ThreadOK' /\ thread'.fired = thread.fired /\ thread'.pc = "subtract"
        /\ thread'.last = thread.last /\ thread'.seen = h
    BY <1>1, <1>3, <1>8 DEF IInv, TypeInv, ThreadOK, Places
  <2>2. TypeInv' /\ ListOK' /\ ClockInv' /\ DueInv' /\ OwedInv'
    BY <1>2, <1>4, <2>1, ThreadOnly DEF Holding
  <2>3. ~ event => absTimeHi + thread.last <= target[Head(list)]
    <3>1. target[h.timer] \in Nat /\ absTimeHi \in Nat /\ thread.last \in Nat
      BY <1>3, <1>8 DEF IInv, TypeInv, TypeOK
    <3>2. QED
      BY <1>5, <1>8, <3>1
  <2>4. LookInv'
    BY <1>2, <1>5, <2>1, <2>3 DEF LookInv, NoOversleep
  <2>5. QED
    BY <2>2, <2>4 DEF IInv
<1>9. QED
  BY <1>6, <1>7, <1>8

LEMMA SubtractStep == ASSUME IInv, Subtract PROVE IInv'
<1>1. PICK h \in {thread.seen, HeadNow} :
        thread' = IF h = None THEN [thread EXCEPT !.pc = "crashed"]
                  ELSE LET sleep == Tick32(target[h.timer] - (absTimeHi + thread.last))
                       IN  [thread EXCEPT !.pc = IF sleep = 0 THEN "lock" ELSE "wait",
                                          !.seen = None, !.sleep = sleep, !.wake = now + sleep]
  BY DEF Subtract
<1>2. /\ now' = now /\ absTimeHi' = absTimeHi /\ list' = list
      /\ target' = target /\ interval' = interval /\ event' = event /\ posts' = posts
      /\ due' = due /\ inStep' = inStep /\ owed' = owed /\ starts' = starts
      /\ thread.pc = "subtract"
  BY DEF Subtract, timer, hist
<1>3. h = None \/ h \in [timer : Timers]
  BY Parts DEF HeadNow, IInv, TypeInv, ThreadOK
<1>4. event' \in BOOLEAN /\ now \in Nat
  BY <1>2 DEF IInv, TypeInv, TypeOK
<1>5. ~ event => h = [timer |-> Head(list)] /\ list # <<>>
  BY <1>2 DEF IInv, LookInv, HeadNow
<1>6. CASE h = None
  <2>1. ThreadOK' /\ thread'.fired = thread.fired /\ thread'.pc = "crashed"
    BY <1>1, <1>6 DEF IInv, TypeInv, ThreadOK, Places
  <2>2. TypeInv' /\ ListOK' /\ ClockInv' /\ DueInv' /\ OwedInv'
    BY <1>2, <1>4, <2>1, ThreadOnly DEF Holding
  <2>3. LookInv'
    BY <2>1 DEF LookInv, NoOversleep
  <2>4. QED
    BY <2>2, <2>3 DEF IInv
<1>7. CASE h # None
  <2> DEFINE ahead == target[h.timer] - (absTimeHi + thread.last)
             sleep == Tick32(ahead)
             pc    == IF sleep = 0 THEN "lock" ELSE "wait"
  <2>1. target[h.timer] \in Nat /\ absTimeHi \in Nat /\ thread.last \in Nat
    BY <1>3, <1>7 DEF IInv, TypeInv, TypeOK
  <2>2. ahead \in Int
    BY <2>1
  <2> HIDE DEF ahead
  <2>3. sleep \in Nat /\ (ahead >= 0 => sleep <= ahead)
    BY <2>2, TimerAssumption DEF Tick32
  <2>4. thread' = [thread EXCEPT !.pc = pc, !.seen = None, !.sleep = sleep, !.wake = now + sleep]
    BY <1>1, <1>7 DEF ahead
  <2>5. pc \in {"lock", "wait"}
    OBVIOUS
  <2> HIDE DEF sleep, pc
  <2>6. ThreadOK' /\ thread'.fired = thread.fired /\ thread'.pc = pc
        /\ thread'.last = thread.last /\ thread'.sleep = sleep /\ thread'.at = thread.at
    BY <1>4, <2>3, <2>4, <2>5 DEF IInv, TypeInv, ThreadOK, Places
  <2>7. TypeInv' /\ ListOK' /\ ClockInv' /\ DueInv' /\ OwedInv'
    BY <1>2, <1>4, <2>6, ThreadOnly DEF Holding
  <2>8. NoOversleep'
    <3> SUFFICES ASSUME ~ event, list # <<>>, inStep[Head(list)],
                        absTimeHi + thread.last = thread.at
                 PROVE  sleep <= due[Head(list)] - thread.at
      BY <1>2, <2>6 DEF NoOversleep
    <3>1. h = [timer |-> Head(list)] /\ Head(list) \in Timers
      BY <1>5, Parts
    <3>2. target[Head(list)] = due[Head(list)]
      BY <3>1 DEF IInv, DueInv
    <3>3. absTimeHi + thread.last <= target[Head(list)]
      BY <1>2 DEF IInv, LookInv
    <3>4. ahead >= 0 /\ ahead = due[Head(list)] - thread.at
      BY <2>1, <3>1, <3>2, <3>3 DEF ahead
    <3>5. QED
      BY <2>3, <3>4
  <2>9. LookInv'
    BY <2>5, <2>6, <2>8 DEF LookInv
  <2>10. QED
    BY <2>7, <2>9 DEF IInv
<1>8. QED
  BY <1>6, <1>7

LEMMA WakeStep == ASSUME IInv, Wake PROVE IInv'
<1>1. /\ now' = now /\ absTimeHi' = absTimeHi /\ list' = list
      /\ target' = target /\ interval' = interval /\ event' = FALSE /\ posts' = posts
      /\ due' = due /\ inStep' = inStep /\ owed' = owed /\ starts' = starts
      /\ thread.pc = "wait"
      /\ thread' = [thread EXCEPT !.pc = "lock", !.sleep = 0, !.wake = 0]
  BY DEF Wake, hist
<1>2. ThreadOK' /\ thread'.fired = thread.fired /\ thread'.pc = "lock"
      /\ thread'.last = thread.last
  BY <1>1 DEF IInv, TypeInv, ThreadOK, Places
<1>3. TypeInv' /\ ListOK' /\ ClockInv' /\ DueInv' /\ OwedInv'
  BY <1>1, <1>2, ThreadOnly DEF Holding
<1>4. LookInv'
  BY <1>2 DEF LookInv, NoOversleep
<1>5. QED
  BY <1>3, <1>4 DEF IInv

LEMMA PostStep == ASSUME IInv, Post PROVE IInv'
<1>1. /\ now' = now /\ absTimeHi' = absTimeHi /\ list' = list
      /\ target' = target /\ interval' = interval /\ event' = event
      /\ due' = due /\ inStep' = inStep /\ owed' = owed /\ starts' = starts
      /\ thread.pc = "post" /\ posts' = Append(posts, thread.fired.timer)
      /\ thread' = [thread EXCEPT !.pc = "top", !.fired = NoFired]
  BY DEF Post, timer, hist
<1>2. FiredOK(NoFired) /\ NoFired.owed /\ NoFired.late = 0
  BY DEF FiredOK, NoFired
<1>3. ThreadOK' /\ thread'.fired = NoFired /\ thread'.pc = "top"
  BY <1>1, <1>2 DEF IInv, TypeInv, ThreadOK, Places
<1>4. posts' \in Seq(Timers)
  BY <1>1 DEF IInv, TypeInv, TypeOK, ThreadOK
<1>5. TypeInv'
  BY <1>1, <1>3, <1>4 DEF IInv, TypeInv, TypeOK, ThreadOK
<1>6. ListOK' /\ DueInv' /\ OwedInv'
  BY <1>1, <1>2, <1>3 DEF IInv, ListOK, DueInv, NeverEarly, OwedInv, OncePerStart
<1>7. ClockInv' /\ LookInv'
  BY <1>1, <1>3 DEF IInv, ClockInv, Holding, HighWord, Tick32, LookInv, NoOversleep
<1>8. QED
  BY <1>5, <1>6, <1>7 DEF IInv

\* What the thread expires was due: with an upper word that does not run ahead, a
\* target that has passed lies in the past of the clock.
LEMMA ExpireStep == ASSUME IInv, Expire PROVE IInv'
<1>1. /\ now' = now /\ posts' = posts /\ starts' = starts /\ thread.pc = "lock"
      /\ absTimeHi' = absTimeHi + Rollover
  BY DEF Expire
<1>2. now \in Nat /\ absTimeHi \in Nat /\ starts \in Nat /\ thread.last \in 0 .. (Word - 1)
  BY DEF IInv, TypeInv, TypeOK
<1>3. /\ Tick32(now) \in 0 .. (Word - 1) /\ HighWord(now) \in Nat
      /\ now = HighWord(now) + Tick32(now)
  BY <1>2, ClockParts
<1>4. absTimeHi' \in Nat /\ absTimeHi' <= HighWord(now)
  <2>1. absTimeHi <= HighWord(now)
    BY DEF IInv, ClockInv
  <2>2. absTimeHi + Word <= HighWord(now) \/ thread.last <= Tick32(now)
    BY <1>1 DEF IInv, ClockInv, Holding
  <2>3. QED
    BY <1>1, <1>2, <1>3, <2>1, <2>2, TimerAssumption DEF Rollover
<1>5. ListTypes /\ ListInv /\ \A s \in Timers : inStep[s] => target[s] = due[s]
  BY Parts
<1>6. CASE list # <<>> /\ target[Head(list)] <= absTimeHi' + Tick32(now)
  <2> DEFINE t == Head(list)
  <2>1. /\ IF t \in Periodic THEN StartTimer(t, interval[t], absTimeHi') ELSE StopTimer(t)
        /\ thread' = [thread EXCEPT !.pc = "post", !.fired = Fired(t), !.at = now]
    BY <1>6 DEF Expire
  <2>2. t \in Timers /\ 1 \in DOMAIN list /\ t = list[1]
    BY <1>6, Parts
  <2>3. target[t] <= now
    BY <1>3, <1>4, <1>6, <2>2 DEF IInv, TypeInv, TypeOK
  <2>4. target[t] \in Nat /\ due[t] \in Nat /\ inStep[t] \in BOOLEAN
        /\ interval[t] \in {0} \cup Timeouts
    BY <2>2 DEF IInv, TypeInv, TypeOK
  <2>5. owed[t]
    BY <2>2 DEF IInv, OwedInv
  <2>6. inStep[t] => target[t] = due[t]
    BY <1>5, <2>2
  <2> HIDE DEF t
  <2>7. /\ ListTypes' /\ ListInv' /\ event'
        /\ \A s \in Timers : inStep'[s] => target'[s] = due'[s]
    <3>1. CASE t \in Periodic
      <4>1. StartTimer(t, interval[t], absTimeHi')
        BY <2>1, <3>1
      <4>2. QED
        BY <1>1, <1>4, <1>5, <2>2, <2>4, <4>1, StartSound
    <3>2. CASE t \notin Periodic
      <4>1. StopTimer(t)
        BY <2>1, <3>2
      <4>2. QED
        BY <1>1, <1>5, <2>2, <4>1, StopSound
    <3>3. QED
      BY <3>1, <3>2
  <2>8. FiredOK(Fired(t)) /\ Fired(t).owed /\ Fired(t).timer = t
        /\ (Fired(t).inStep => Fired(t).late >= 0)
    <3>1. /\ Fired(t).timer = t /\ Fired(t).late = now - due[t]
          /\ Fired(t).inStep = inStep[t] /\ Fired(t).owed = owed[t]
          /\ Fired(t) = [timer |-> Fired(t).timer, late |-> Fired(t).late,
                         inStep |-> Fired(t).inStep, owed |-> Fired(t).owed]
      BY DEF Fired
    <3>2. owed[t] \in BOOLEAN
      BY <2>2 DEF IInv, TypeInv, TypeOK
    <3>3. FiredOK(Fired(t))
      BY <1>2, <2>4, <3>1, <3>2 DEF FiredOK
    <3>4. Fired(t).inStep => Fired(t).late >= 0
      BY <1>2, <2>3, <2>4, <2>6, <3>1
    <3>5. QED
      BY <2>5, <3>1, <3>3, <3>4
  <2>9. ThreadOK' /\ thread'.fired = Fired(t) /\ thread'.pc = "post"
    BY <1>2, <2>1, <2>2, <2>8 DEF IInv, TypeInv, ThreadOK, Places
  <2>10. NeverEarly' /\ OncePerStart'
    BY <2>8, <2>9 DEF NeverEarly, OncePerStart
  <2>11. TypeOK' /\ ListOK' /\ DueInv' /\ OwedInv' /\ LookInv'
    <3>1. thread'.pc \in Places /\ thread'.last \in 0 .. (Word - 1) /\ starts' \in Nat
      BY <1>1, <1>2, <2>9 DEF ThreadOK
    <3>2. QED
      BY <1>1, <1>4, <2>7, <2>10, <3>1, ListChanged
  <2>12. ClockInv'
    BY <1>1, <1>4, <2>9 DEF ClockInv, Holding, HighWord, Tick32
  <2>13. QED
    BY <2>9, <2>11, <2>12 DEF IInv, TypeInv
<1>7. CASE ~ (list # <<>> /\ target[Head(list)] <= absTimeHi' + Tick32(now))
  <2>1. /\ thread' = [thread EXCEPT !.pc = "top", !.at = now]
        /\ list' = list /\ target' = target /\ interval' = interval /\ event' = event
        /\ due' = due /\ inStep' = inStep /\ owed' = owed
    BY <1>7 DEF Expire, hist
  <2>2. ThreadOK' /\ thread'.fired = thread.fired /\ thread'.pc = "top"
    BY <1>2, <2>1 DEF IInv, TypeInv, ThreadOK, Places
  <2>3. TypeInv'
    BY <1>1, <1>4, <2>1, <2>2 DEF IInv, TypeInv, TypeOK, ThreadOK
  <2>4. ListOK' /\ DueInv' /\ OwedInv'
    BY <2>1, <2>2 DEF IInv, ListOK, DueInv, NeverEarly, OwedInv, OncePerStart
  <2>5. ClockInv' /\ LookInv'
    BY <1>1, <1>4, <2>2 DEF ClockInv, Holding, HighWord, Tick32, LookInv, NoOversleep
  <2>6. QED
    BY <2>3, <2>4, <2>5 DEF IInv
<1>8. QED
  BY <1>6, <1>7

LEMMA StutterSound == ASSUME IInv, UNCHANGED vars PROVE IInv'
<1>1. /\ now' = now /\ absTimeHi' = absTimeHi /\ list' = list
      /\ target' = target /\ interval' = interval /\ event' = event /\ thread' = thread
      /\ posts' = posts /\ due' = due /\ inStep' = inStep /\ owed' = owed /\ starts' = starts
  BY DEF vars
<1>2. QED
  BY <1>1 DEF IInv, TypeInv, TypeOK, ThreadOK, ListOK, ClockInv, HighWord, Tick32, DueInv,
              NeverEarly, OwedInv, OncePerStart, LookInv, NoOversleep

-----------------------------------------------------------------------------
(***************************************************************************)
(* The theorems.                                                           *)
(***************************************************************************)

\* The invariant holds of every behaviour, for every set of timers, every set of
\* timeouts below the range of the tick count, and every bound.
THEOREM Inductive == Spec => []IInv
<1>1. Init => IInv
  BY InitSound
<1>2. IInv /\ [Next]_vars => IInv'
  <2> SUFFICES ASSUME IInv, [Next]_vars PROVE IInv'
    OBVIOUS
  <2>1. CASE Tick
    BY <2>1, TickSound
  <2>2. CASE \E t \in Timers : Start(t) \/ Stop(t)
    BY <2>2, StartStep, StopStep
  <2>3. CASE OnTimerCallback
    BY <2>3, CallbackStep
  <2>4. CASE Look
    BY <2>4, LookStep
  <2>5. CASE Compare
    BY <2>5, CompareStep
  <2>6. CASE Subtract
    BY <2>6, SubtractStep
  <2>7. CASE Wake
    BY <2>7, WakeStep
  <2>8. CASE Expire
    BY <2>8, ExpireStep
  <2>9. CASE Post
    BY <2>9, PostStep
  <2>10. CASE UNCHANGED vars
    BY <2>10, StutterSound
  <2>11. QED
    BY <2>1, <2>2, <2>3, <2>4, <2>5, <2>6, <2>7, <2>8, <2>9, <2>10 DEF Next, ThreadStep
<1>3. QED
  BY <1>1, <1>2, PTL DEF Spec

\* Types: what the lists, the history and the thread hold.
THEOREM TypesCorrect == Spec => []TypeOK
<1>1. IInv => TypeOK
  BY DEF IInv, TypeInv
<1>2. QED
  BY <1>1, Inductive, PTL

\* The list the lock protects stays sorted by target time and lists no timer twice,
\* however often timers are started, stopped and expire.
THEOREM ListSorted == Spec => []ListOK
<1>1. IInv => ListOK
  BY DEF IInv
<1>2. QED
  BY <1>1, Inductive, PTL

\* No callback comes before its timer is due, over any number of rollovers of the
\* tick count, if the timer was started in step with the upper word.
THEOREM NoCallbackEarly == Spec => []NeverEarly
<1>1. IInv => NeverEarly
  BY DEF IInv, DueInv
<1>2. QED
  BY <1>1, Inductive, PTL

\* The unlocked look at the head loses no wake-up: the thread that is not told of a
\* change sleeps no longer than the first timer allows.
THEOREM NoWakeUpLost == Spec => []NoOversleep
<1>1. IInv => NoOversleep
  BY DEF IInv, LookInv
<1>2. QED
  BY <1>1, Inductive, PTL

\* A timer calls back at most once for each start and not at all when stopped before.
THEOREM CallbackOwed == Spec => []OncePerStart
<1>1. IInv => OncePerStart
  BY DEF IInv, OwedInv
<1>2. QED
  BY <1>1, Inductive, PTL
=============================================================================
