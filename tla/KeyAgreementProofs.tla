------------------------- MODULE KeyAgreementProofs -------------------------
(***************************************************************************)
(* The keys of the nodes: what the client believes of them is true, and so *)
(* the network switches safely, renews its keys only when the last ones    *)
(* are everywhere, and retires the old ones.  Every function of the client *)
(* has a lemma Good..., every answer one ...Handled, every action one      *)
(* ...Agrees.  Then: a user who clears up (Timed...), and a connection     *)
(* that stays (Onward..., ...Continues), where nothing is left pending, no *)
(* state waits for nothing, and a removed node ends up without the key.    *)
(***************************************************************************)
EXTENDS KeyRefreshProofs

USE DEF NORMAL, FIRST, SECOND, THIRD, Phases

-----------------------------------------------------------------------------
(* Sequences that Select gives. *)

\* Select keeps the order of s, is no longer than s, and keeps a selected head.
LEMMA SelectOrder ==
    ASSUME NEW S, NEW s \in Seq(S), NEW T \in SUBSET DOMAIN s
    PROVE  /\ Len(Select(s, T)) <= Len(s)
           /\ \E f \in [DOMAIN Select(s, T) -> T] :
                 /\ \A j \in DOMAIN Select(s, T) : Select(s, T)[j] = s[f[j]]
                 /\ \A i, j \in DOMAIN Select(s, T) : i < j => f[i] < f[j]
                 /\ 1 \in T => f[1] = 1
<1> DEFINE Up(i)   == {k \in T : k <= i}
           Rank(i) == Cardinality(Up(i))
           At(j)   == CHOOSE i \in T : Rank(i) = j
           f       == [j \in 1 .. Cardinality(T) |-> At(j)]
<1>1. Len(s) \in Nat /\ DOMAIN s = 1 .. Len(s) /\ T \in SUBSET (1 .. Len(s))
  OBVIOUS
<1>2. /\ IsFiniteSet(T) /\ Cardinality(T) \in Nat /\ Cardinality(T) <= Len(s)
      /\ \A k \in T : k \in 1 .. Len(s)
  <2> DEFINE n == Len(s)
  <2> HIDE DEF n
  <2>1. IsFiniteSet(1 .. n) /\ Cardinality(1 .. n) = n
    <3>1. n \in Nat /\ 1 \in Int /\ n \in Int
      BY <1>1 DEF n
    <3>2. Cardinality(1 .. n) = IF 1 > n THEN 0 ELSE n - 1 + 1
      BY <3>1, FS_Interval
    <3>3. QED
      BY <3>1, <3>2, FS_Interval
  <2>2. IsFiniteSet(T) /\ Cardinality(T) <= Cardinality(1 .. Len(s))
    BY <1>1, <2>1, FS_Subset DEF n
  <2>3. QED
    BY <1>1, <2>1, <2>2, FS_CardinalityType DEF n
<1>3. \A i \in T : IsFiniteSet(Up(i)) /\ Rank(i) \in Nat
  <2>1. TAKE i \in T
  <2>2. Up(i) \in SUBSET T
    OBVIOUS
  <2>3. IsFiniteSet(Up(i))
    BY <1>2, <2>2, FS_Subset
  <2>4. QED
    BY <2>3, FS_CardinalityType
<1>4. \A j \in 1 .. Cardinality(T) : At(j) \in T /\ Rank(At(j)) = j
  <2>1. TAKE j \in 1 .. Cardinality(T)
  <2>2. \E i \in T : Rank(i) = j
    BY <1>1, SelectIndex
  <2>3. QED
    BY <2>2
<1>5. Select(s, T) = [j \in 1 .. Cardinality(T) |-> s[At(j)]]
  BY DEF Select
<1> HIDE DEF At
<1>6. \A a, b \in T : b <= a => Rank(b) <= Rank(a)
  <2>1. TAKE a \in T, b \in T
  <2>2. HAVE b <= a
  <2>3. Up(b) \subseteq Up(a)
    <3>1. \A k \in T : k <= b => k <= a
      BY <1>2, <2>2
    <3>2. QED
      BY <3>1
  <2>4. QED
    BY <1>3, <2>3, FS_Subset
<1>7. 1 \in T => At(1) = 1 /\ 1 \in 1 .. Cardinality(T)
  <2>1. HAVE 1 \in T
  <2>2. Cardinality(T) >= 1
    BY <1>2, <2>1, FS_EmptySet
  <2>3. At(1) \in T /\ Rank(At(1)) = 1
    BY <1>2, <1>4, <2>2
  <2>4. 1 \in Up(At(1)) /\ At(1) \in Up(At(1))
    BY <1>2, <2>1, <2>3
  <2>5. IsFiniteSet(Up(At(1)))
    BY <1>3, <2>3
  <2>6. \E x : Up(At(1)) = {x}
    BY <2>3, <2>5, FS_Singleton
  <2>7. QED
    BY <1>2, <2>2, <2>4, <2>6
<1> HIDE DEF Rank
<1>8. \A i, j \in 1 .. Cardinality(T) : i < j => At(i) < At(j)
  <2>1. TAKE i \in 1 .. Cardinality(T), j \in 1 .. Cardinality(T)
  <2>2. HAVE i < j
  <2>3. At(i) \in T /\ At(j) \in T /\ Rank(At(i)) = i /\ Rank(At(j)) = j
    BY <1>4
  <2>4. ~ (At(j) <= At(i))
    BY <1>2, <1>6, <2>2, <2>3
  <2>5. QED
    BY <1>2, <2>3, <2>4
<1>9. DOMAIN Select(s, T) = 1 .. Cardinality(T) /\ Len(Select(s, T)) = Cardinality(T)
  BY <1>2, <1>5
<1>10. f \in [DOMAIN Select(s, T) -> T]
  BY <1>4, <1>9
<1>11. QED
  <2>1. \A j \in 1 .. Cardinality(T) : Select(s, T)[j] = s[f[j]] /\ f[j] = At(j)
    BY <1>5
  <2>2. /\ \A j \in DOMAIN Select(s, T) : Select(s, T)[j] = s[f[j]]
        /\ \A i, j \in DOMAIN Select(s, T) : i < j => f[i] < f[j]
        /\ 1 \in T => f[1] = 1
    BY <1>7, <1>8, <1>9, <2>1
  <2> HIDE DEF f
  <2>3. QED
    BY <1>2, <1>9, <1>10, <2>2

-----------------------------------------------------------------------------
(* The nodes that stay and what the client knows of them.                  *)
(* Good is the relation of the database and the queue to the nodes.        *)

\* The nodes that stay in the network.
Staying(c) == c.nodes \ c.blocked

\* No phase set is pending for another phase than that of the network key.
InTime(c) ==
    \A i \in DOMAIN c.queue :
        c.queue[i].kind = "KR_PHASE_SET" /\ c.queue[i].dst \in Participants(c)
            => c.queue[i].val = c.netPhase

\* o brings n a key, or a phase of the network key.
IsUpdate(o, n)   == o.kind = "KEY_UPDATE" /\ o.dst = n
IsPhaseSet(o, n) == o.kind = "KR_PHASE_SET" /\ o.dst = n

\* What is pending goes where it should, and no phase set asks for another phase
\* than the second and the third.
Aimed(c) ==
    \A i \in DOMAIN c.queue :
        LET o == c.queue[i]
        IN  /\ o.kind \in {"KEY_UPDATE", "KR_PHASE_SET"} => o.dst \in Staying(c)
            /\ o.kind = "NODE_RESET" => o.dst \notin Staying(c)
            /\ o.kind = "KR_PHASE_SET" => o.key = NetKey /\ o.val \in {SECOND, THIRD}

\* The device e has the newest key k.
HasKey(c, e, k) == IF k = NetKey THEN e.cur = c.gen ELSE e.app[k] = c.gen

\* e, which is n, has all the newest keys that n uses.
HasAll(c, e, n) == \A k \in Keys : <<k, n>> \in Slots => HasKey(c, e, k)

\* The key updates pending for n: for the newest keys, while n still has to take
\* them, and before any phase set for n.
UpdatesFit(c, n) ==
    \A i \in DOMAIN c.queue :
        IsUpdate(c.queue[i], n) =>
            /\ c.queue[i].val = c.gen
            /\ c.netPhase \in {FIRST, SECOND}
            /\ c.netPhase = SECOND => c.phase[<<NetKey, n>>] # SECOND
            /\ \A j \in DOMAIN c.queue : j < i => ~ IsPhaseSet(c.queue[j], n)

\* What the database holds for n is true of the device e.
RecordFits(c, e, n) ==
    /\ c.netPhase # FIRST => HasAll(c, e, n)
    /\ c.netPhase = FIRST =>
          /\ e.cur = c.gen \/ e.cur + 1 = c.gen
          /\ c.phase[<<NetKey, n>>] \in {NORMAL, FIRST}
          /\ \A k \in Keys : <<k, n>> \in Slots /\ c.phase[<<k, n>>] # NORMAL => HasKey(c, e, k)
    /\ c.netPhase = NORMAL =>
          /\ e.phase = NORMAL
          /\ \A k \in Keys : <<k, n>> \in Slots => c.phase[<<k, n>>] = NORMAL
    /\ c.netPhase = THIRD /\ c.phase[<<NetKey, n>>] \in {THIRD, NORMAL} => e.phase = NORMAL

\* What the client knows and has pending is right about the nodes d that stay.
Good(c, d) ==
    /\ Sound(c) /\ Aimed(c)
    /\ \A n \in Participants(c) : UpdatesFit(c, n) /\ RecordFits(c, d[n], n)

\* No phase set is pending for a node that stays.
NoPhaseSets(c) ==
    \A n \in Participants(c) : \A i \in DOMAIN c.queue : ~ IsPhaseSet(c.queue[i], n)

\* r keeps what is pending in c, adds no more than updates and phase sets, and
\* leaves the same nodes in the network.
Keeps(r, c) ==
    /\ Staying(r) = Staying(c)
    /\ \A i \in DOMAIN c.queue : i \in DOMAIN r.queue /\ r.queue[i] = c.queue[i]
    /\ \A i \in DOMAIN r.queue \ DOMAIN c.queue :
          r.queue[i].kind \in {"KEY_UPDATE", "KR_PHASE_SET"}

\* r and c agree on all that RecordFits reads.
SameRecord(r, c) == r.netPhase = c.netPhase /\ r.gen = c.gen /\ r.phase = c.phase

\* Who takes part depends on who stays only.
LEMMA ParticipantsStay ==
    ASSUME NEW r, NEW c, Staying(r) = Staying(c)
    PROVE  Participants(r) = Participants(c)
BY DEF Participants, Staying

\* A participant is a node with a slot for the network key, and not the local one.
LEMMA ParticipantIsNode ==
    ASSUME NEW c, c \in Client, NEW n \in Participants(c)
    PROVE  /\ n \in Nodes /\ n \in Staying(c) /\ n \notin Provisioners /\ n # Local
           /\ n \in c.nodes /\ n \notin c.blocked /\ <<NetKey, n>> \in Slots /\ NetKey \in Keys
BY ClientAssumption DEF Participants, Staying, Client, Keys

LEMMA KeepsTrans ==
    ASSUME NEW a, NEW b, NEW c, Keeps(b, a), Keeps(c, b)
    PROVE  Keeps(c, a)
BY DEF Keeps

LEMMA SameRecordFits ==
    ASSUME NEW r, NEW c, SameRecord(r, c), NEW n, NEW e, RecordFits(c, e, n)
    PROVE  RecordFits(r, e, n)
BY DEF SameRecord, RecordFits, HasAll, HasKey

\* The elements of a concatenation.
LEMMA ConcatElements ==
    ASSUME NEW S, NEW s \in Seq(S), NEW t \in Seq(S)
    PROVE  /\ s \o t \in Seq(S)
           /\ DOMAIN s \subseteq DOMAIN (s \o t)
           /\ \A i \in DOMAIN s : (s \o t)[i] = s[i]
           /\ \A i \in DOMAIN (s \o t) \ DOMAIN s :
                 i - Len(s) \in DOMAIN t /\ (s \o t)[i] = t[i - Len(s)]
           /\ \A i \in DOMAIN s, j \in DOMAIN (s \o t) \ DOMAIN s : i < j
OBVIOUS

\* Appending: what is pending already still fits, and what is new does.
LEMMA AppendFits ==
    ASSUME NEW c, NEW r, NEW n, c.queue \in Seq(Op), NEW ops \in Seq(Op),
           r.queue = c.queue \o ops, r.gen = c.gen,
           UpdatesFit(c, n),
           \A i \in DOMAIN c.queue : IsUpdate(c.queue[i], n) =>
               /\ r.netPhase \in {FIRST, SECOND}
               /\ r.netPhase = SECOND => r.phase[<<NetKey, n>>] # SECOND,
           \A i \in DOMAIN ops : IsUpdate(ops[i], n) =>
               /\ ops[i].val = c.gen
               /\ r.netPhase = FIRST
               /\ \A j \in DOMAIN c.queue : ~ IsPhaseSet(c.queue[j], n)
               /\ \A j \in DOMAIN ops : ~ IsPhaseSet(ops[j], n)
    PROVE  UpdatesFit(r, n)
<1> DEFINE q == c.queue \o ops
<1>1. /\ DOMAIN c.queue \subseteq DOMAIN q
      /\ \A i \in DOMAIN c.queue : q[i] = c.queue[i]
      /\ \A i \in DOMAIN q \ DOMAIN c.queue :
            i - Len(c.queue) \in DOMAIN ops /\ q[i] = ops[i - Len(c.queue)]
      /\ \A i \in DOMAIN c.queue, j \in DOMAIN q \ DOMAIN c.queue : i < j
      /\ DOMAIN q \subseteq Nat
  BY ConcatElements
<1>2. r.queue = q
  OBVIOUS
<1> HIDE DEF q
<1> SUFFICES ASSUME NEW i \in DOMAIN q, IsUpdate(q[i], n)
             PROVE  /\ q[i].val = r.gen
                    /\ r.netPhase \in {FIRST, SECOND}
                    /\ r.netPhase = SECOND => r.phase[<<NetKey, n>>] # SECOND
                    /\ \A j \in DOMAIN q : j < i => ~ IsPhaseSet(q[j], n)
  BY <1>2 DEF UpdatesFit
<1>3. CASE i \in DOMAIN c.queue
  <2>1. q[i] = c.queue[i]
    BY <1>1, <1>3
  <2>2. \A j \in DOMAIN q : j < i => j \in DOMAIN c.queue
    BY <1>1, <1>3
  <2>3. QED
    BY <1>1, <1>3, <2>1, <2>2 DEF UpdatesFit
<1>4. CASE i \notin DOMAIN c.queue
  <2>1. i - Len(c.queue) \in DOMAIN ops /\ q[i] = ops[i - Len(c.queue)]
    BY <1>1, <1>4
  <2>2. \A j \in DOMAIN q : ~ IsPhaseSet(q[j], n)
    BY <1>1, <2>1
  <2>3. QED
    BY <2>1, <2>2
<1>5. QED
  BY <1>3, <1>4

\* The elements of a tail.
LEMMA TailElements ==
    ASSUME NEW S, NEW s \in Seq(S), s # <<>>
    PROVE  /\ Tail(s) \in Seq(S)
           /\ \A i \in DOMAIN Tail(s) : i \in Nat /\ i + 1 \in DOMAIN s /\ Tail(s)[i] = s[i + 1]
           /\ Head(s) = s[1] /\ 1 \in DOMAIN s
OBVIOUS

\* Dropping the head.
LEMMA TailFits ==
    ASSUME NEW c, NEW r, NEW n, c.queue \in Seq(Op), c.queue # <<>>,
           r.queue = Tail(c.queue), SameRecord(r, c), UpdatesFit(c, n)
    PROVE  UpdatesFit(r, n)
<1> DEFINE q == Tail(c.queue)
<1>1. \A i \in DOMAIN q : i \in Nat /\ i + 1 \in DOMAIN c.queue /\ q[i] = c.queue[i + 1]
  BY TailElements
<1> HIDE DEF q
<1> SUFFICES ASSUME NEW i \in DOMAIN q, IsUpdate(q[i], n)
             PROVE  /\ q[i].val = r.gen
                    /\ r.netPhase \in {FIRST, SECOND}
                    /\ r.netPhase = SECOND => r.phase[<<NetKey, n>>] # SECOND
                    /\ \A j \in DOMAIN q : j < i => ~ IsPhaseSet(q[j], n)
  BY DEF UpdatesFit, q
<1>2. \A j \in DOMAIN q : j < i => ~ IsPhaseSet(q[j], n)
  <2>1. SUFFICES ASSUME NEW j \in DOMAIN q, j < i PROVE ~ IsPhaseSet(q[j], n)
    OBVIOUS
  <2>2. j + 1 \in DOMAIN c.queue /\ j + 1 < i + 1 /\ q[j] = c.queue[j + 1]
    BY <1>1, <2>1
  <2>3. i + 1 \in DOMAIN c.queue /\ q[i] = c.queue[i + 1]
    BY <1>1
  <2>4. QED
    BY <2>2, <2>3 DEF UpdatesFit
<1>3. QED
  BY <1>1, <1>2 DEF UpdatesFit, SameRecord

\* Selecting.
LEMMA SelectFits ==
    ASSUME NEW c, NEW r, NEW n, c.queue \in Seq(Op), NEW T \in SUBSET DOMAIN c.queue,
           r.queue = Select(c.queue, T), SameRecord(r, c), UpdatesFit(c, n)
    PROVE  UpdatesFit(r, n)
<1> DEFINE q == Select(c.queue, T)
<1>1. PICK f \in [DOMAIN q -> T] :
             /\ \A j \in DOMAIN q : q[j] = c.queue[f[j]]
             /\ \A i, j \in DOMAIN q : i < j => f[i] < f[j]
  BY SelectOrder
<1>2. \A i \in DOMAIN q : f[i] \in DOMAIN c.queue
  BY <1>1
<1> HIDE DEF q
<1> SUFFICES ASSUME NEW i \in DOMAIN q, IsUpdate(q[i], n)
             PROVE  /\ q[i].val = r.gen
                    /\ r.netPhase \in {FIRST, SECOND}
                    /\ r.netPhase = SECOND => r.phase[<<NetKey, n>>] # SECOND
                    /\ \A j \in DOMAIN q : j < i => ~ IsPhaseSet(q[j], n)
  BY DEF UpdatesFit, q
<1>3. \A j \in DOMAIN q : j < i => ~ IsPhaseSet(q[j], n)
  BY <1>1, <1>2 DEF UpdatesFit
<1>4. QED
  BY <1>1, <1>2, <1>3 DEF UpdatesFit, SameRecord

-----------------------------------------------------------------------------
(* Good: executing, enqueuing, dropping and cleaning.  *)

\* Fewer keys at nodes than the byte of phase1_continue counts.
ShortTable == Len(KeyOrder) < UINT8

\* Good does not depend on the state, the timer and the retries.
LEMMA GoodSameQueue ==
    ASSUME NEW c, NEW r, NEW d, Good(c, d), Sound(r), r.queue = c.queue, SameRecord(r, c),
           r.nodes = c.nodes, r.blocked = c.blocked
    PROVE  Good(r, d) /\ Keeps(r, c)
<1>1. Staying(r) = Staying(c) /\ Participants(r) = Participants(c)
  BY DEF Staying, Participants
<1>2. \A n \in Participants(r) : UpdatesFit(r, n) /\ RecordFits(r, d[n], n)
  <2>1. TAKE n \in Participants(r)
  <2>2. RecordFits(r, d[n], n)
    BY <1>1, SameRecordFits DEF Good
  <2>3. UpdatesFit(c, n)
    BY <1>1 DEF Good
  <2>4. QED
    BY <2>2, <2>3 DEF UpdatesFit, SameRecord
<1>3. Aimed(r) /\ Keeps(r, c)
  BY <1>1 DEF Good, Aimed, Keeps
<1>4. QED
  BY <1>2, <1>3 DEF Good

LEMMA GoodExecute ==
    ASSUME NEW c, NEW d, Good(c, d)
    PROVE  /\ Good(Execute(c), d) /\ Keeps(Execute(c), c) /\ SameRecord(Execute(c), c)
           /\ Execute(c).state = c.state /\ Execute(c).queue = c.queue
<1>1. Sound(c)
  BY DEF Good
<1>2. /\ Sound(Execute(c)) /\ SameRecord(Execute(c), c) /\ Execute(c).queue = c.queue
      /\ Execute(c).state = c.state
      /\ Execute(c).nodes = c.nodes /\ Execute(c).blocked = c.blocked
  BY <1>1, SoundExecute DEF SameButQueue, SameRecord
<1>3. QED
  BY <1>2, GoodSameQueue

LEMMA GoodState ==
    ASSUME NEW c, NEW d, Good(c, d), NEW s \in ClientStates
    PROVE  LET r == [c EXCEPT !.state = s]
           IN  /\ Good(r, d) /\ Keeps(r, c) /\ SameRecord(r, c) /\ r.state = s
               /\ r.queue = c.queue
<1> DEFINE r == [c EXCEPT !.state = s]
<1>1. Sound(c) /\ c \in Client
  BY DEF Good, Sound
<1>2. Sound(r)
  BY <1>1, SoundState
<1>3. /\ SameRecord(r, c) /\ r.queue = c.queue /\ r.nodes = c.nodes
      /\ r.blocked = c.blocked /\ r.state = s
  BY <1>1 DEF Client, SameRecord
<1> HIDE DEF r
<1>4. Good(r, d) /\ Keeps(r, c)
  BY <1>2, <1>3, GoodSameQueue
<1>5. QED
  BY <1>3, <1>4 DEF r

\* Appending something that is neither a key update nor a phase set.
LEMMA GoodEnqueue ==
    ASSUME NEW c, NEW d, Good(c, d), NEW o \in SafeOps(c.blocked),
           \/ o.kind = "FILTER_ADD"
           \/ o.kind = "NODE_RESET" /\ o.dst \notin Staying(c)
    PROVE  LET r == Enqueue(c, <<o>>)
           IN  /\ Good(r, d) /\ Staying(r) = Staying(c) /\ SameRecord(r, c)
               /\ r.state = c.state /\ r.queue = c.queue \o <<o>>
<1> DEFINE r == Enqueue(c, <<o>>)
<1>1. Sound(c) /\ c \in Client /\ c.queue \in Seq(Op)
  BY DEF Good, Sound, Client
<1>2. o \in Op /\ <<o>> \in Seq(Op) /\ <<o>> \in Seq(SafeOps(c.blocked))
  BY DEF SafeOps
<1>3. Sound(r) /\ SameButQueue(r, c)
  BY <1>1, <1>2, SoundEnqueue
<1>4. r.queue = c.queue \o <<o>>
  BY <1>1 DEF Client, Enqueue
<1> HIDE DEF r
<1>5. SameRecord(r, c) /\ r.state = c.state /\ Staying(r) = Staying(c)
  BY <1>3 DEF SameButQueue, SameRecord, Staying
<1>6. /\ DOMAIN c.queue \subseteq DOMAIN r.queue
      /\ \A i \in DOMAIN c.queue : r.queue[i] = c.queue[i]
      /\ \A i \in DOMAIN r.queue \ DOMAIN c.queue : r.queue[i] = o
  <2>1. \A i \in DOMAIN <<o>> : <<o>>[i] = o
    OBVIOUS
  <2>2. QED
    BY <1>1, <1>2, <1>4, <2>1, ConcatElements
<1>7. Aimed(r)
  BY <1>5, <1>6 DEF Good, Aimed
<1>8. \A n \in Participants(r) : UpdatesFit(r, n) /\ RecordFits(r, d[n], n)
  <2>1. TAKE n \in Participants(r)
  <2>2. n \in Participants(c)
    BY <1>5, ParticipantsStay
  <2>3. RecordFits(r, d[n], n)
    BY <1>5, <2>2, SameRecordFits DEF Good
  <2>4. UpdatesFit(c, n)
    BY <2>2 DEF Good
  <2>5. \A i \in DOMAIN c.queue : IsUpdate(c.queue[i], n) =>
               /\ r.netPhase \in {FIRST, SECOND}
               /\ r.netPhase = SECOND => r.phase[<<NetKey, n>>] # SECOND
    BY <1>5, <2>4 DEF UpdatesFit, SameRecord
  <2>6. \A i \in DOMAIN <<o>> : ~ IsUpdate(<<o>>[i], n)
    BY DEF IsUpdate
  <2>7. r.gen = c.gen
    BY <1>5 DEF SameRecord
  <2>8. UpdatesFit(r, n)
    BY <1>1, <1>2, <1>4, <2>4, <2>5, <2>6, <2>7, AppendFits
  <2>9. QED
    BY <2>3, <2>8
<1>9. QED
  BY <1>3, <1>4, <1>5, <1>7, <1>8 DEF Good, r

\* What start_next_op changes.
LEMMA StartNextOpFields ==
    ASSUME NEW c, c \in Client
    PROVE  LET r == StartNextOp(c)
           IN  /\ r.queue = (IF c.queue = <<>> THEN <<>> ELSE Tail(c.queue))
               /\ SameRecord(r, c) /\ r.nodes = c.nodes /\ r.blocked = c.blocked
               /\ r.state = IF r.queue = <<>> /\ c.state \notin {"KR1", "KR2"}
                            THEN "IDLE" ELSE c.state
BY DEF StartNextOp, Execute, Client, SameRecord

\* The head is dropped.
LEMMA GoodStartNextOp ==
    ASSUME NEW c, NEW d, Good(c, d)
    PROVE  Good(StartNextOp(c), d) /\ Staying(StartNextOp(c)) = Staying(c)
<1> DEFINE r == StartNextOp(c)
<1>1. Sound(c) /\ c \in Client /\ c.queue \in Seq(Op)
  BY DEF Good, Sound, Client
<1>2. Sound(r)
  BY <1>1, SoundStartNextOp
<1>3. /\ r.queue = (IF c.queue = <<>> THEN <<>> ELSE Tail(c.queue))
      /\ SameRecord(r, c) /\ r.nodes = c.nodes /\ r.blocked = c.blocked
  BY <1>1, StartNextOpFields
<1> HIDE DEF r
<1>4. Staying(r) = Staying(c)
  BY <1>3 DEF Staying
<1>5. Aimed(r)
  <2>1. CASE c.queue = <<>>
    BY <1>3, <2>1 DEF Aimed
  <2>2. CASE c.queue # <<>>
    <3>1. \A i \in DOMAIN r.queue : \E j \in DOMAIN c.queue : r.queue[i] = c.queue[j]
      BY <1>1, <1>3, <2>2, TailElements
    <3>2. QED
      BY <1>4, <3>1 DEF Good, Aimed
  <2>3. QED
    BY <2>1, <2>2
<1>6. \A n \in Participants(r) : UpdatesFit(r, n) /\ RecordFits(r, d[n], n)
  <2>1. TAKE n \in Participants(r)
  <2>2. n \in Participants(c)
    BY <1>4, ParticipantsStay
  <2>3. RecordFits(r, d[n], n)
    BY <1>3, <2>2, SameRecordFits DEF Good
  <2>4. UpdatesFit(c, n)
    BY <2>2 DEF Good
  <2>5. CASE c.queue = <<>>
    BY <1>3, <2>3, <2>5 DEF UpdatesFit
  <2>6. CASE c.queue # <<>>
    BY <1>1, <1>3, <2>3, <2>4, <2>6, TailFits
  <2>7. QED
    BY <2>5, <2>6
<1>7. QED
  BY <1>2, <1>4, <1>5, <1>6 DEF Good, r

\* What mesh_configure_clean_pending_op_queue leaves in the queue.
LEMMA CleanFields ==
    ASSUME NEW c, c \in Client, NEW n,
           NEW T, T = {i \in DOMAIN c.queue : c.queue[i].dst # n}
    PROVE  /\ Clean(c, n).queue = Select(c.queue, T)
           /\ SameRecord(Clean(c, n), c) /\ Clean(c, n).nodes = c.nodes
           /\ Clean(c, n).blocked = c.blocked /\ Clean(c, n).state = c.state
<1> DEFINE q == Select(c.queue, T)
<1>1. Clean(c, n) = [c EXCEPT !.queue = q]
  BY Zenon DEF Clean
<1> HIDE DEF q
<1>2. Clean(c, n).queue = q /\ SameButQueue(Clean(c, n), c)
  BY <1>1 DEF Client, SameButQueue
<1>3. QED
  BY <1>2 DEF q, SameButQueue, SameRecord

\* mesh_configure_clean_pending_op_queue.
LEMMA GoodClean ==
    ASSUME NEW c, NEW d, Good(c, d), NEW m
    PROVE  /\ Good(Clean(c, m), d) /\ Staying(Clean(c, m)) = Staying(c)
           /\ \A i \in DOMAIN Clean(c, m).queue :
                 /\ Clean(c, m).queue[i].dst # m
                 /\ \E j \in DOMAIN c.queue : Clean(c, m).queue[i] = c.queue[j]
           /\ c.queue # <<>> /\ Head(c.queue).dst # m =>
                 Clean(c, m).queue # <<>> /\ Head(Clean(c, m).queue) = Head(c.queue)
<1> DEFINE r == Clean(c, m)
           T == {i \in DOMAIN c.queue : c.queue[i].dst # m}
<1>1. Sound(c) /\ c \in Client /\ c.queue \in Seq(Op)
  BY DEF Good, Sound, Client
<1>2. Sound(r)
  BY <1>1, SoundClean
<1>3. /\ r.queue = Select(c.queue, T) /\ T \in SUBSET DOMAIN c.queue
      /\ SameRecord(r, c) /\ r.nodes = c.nodes /\ r.blocked = c.blocked
  <2>1. T \in SUBSET DOMAIN c.queue
    OBVIOUS
  <2>2. QED
    BY <1>1, <2>1, CleanFields
<1>4. \A i \in T : c.queue[i].dst # m
  OBVIOUS
<1>5. c.queue # <<>> /\ Head(c.queue).dst # m => 1 \in T
  BY <1>1
<1> HIDE DEF r, T
<1>6. Staying(r) = Staying(c)
  BY <1>3 DEF Staying
<1>7. /\ \A j \in DOMAIN r.queue : \E i \in T : r.queue[j] = c.queue[i]
      /\ T # {} => r.queue # <<>>
      /\ r.queue \in Seq(Op)
  BY <1>1, <1>3, SelectType
<1>8. Aimed(r)
  BY <1>3, <1>6, <1>7 DEF Good, Aimed
<1>9. \A n \in Participants(r) : UpdatesFit(r, n) /\ RecordFits(r, d[n], n)
  <2>1. TAKE n \in Participants(r)
  <2>2. n \in Participants(c)
    BY <1>6, ParticipantsStay
  <2>3. RecordFits(r, d[n], n)
    BY <1>3, <2>2, SameRecordFits DEF Good
  <2>4. UpdatesFit(c, n)
    BY <2>2 DEF Good
  <2>5. UpdatesFit(r, n)
    BY <1>1, <1>3, <2>4, SelectFits
  <2>6. QED
    BY <2>3, <2>5
<1>10. \A i \in DOMAIN r.queue :
          r.queue[i].dst # m /\ \E j \in DOMAIN c.queue : r.queue[i] = c.queue[j]
  BY <1>3, <1>4, <1>7
<1>11. 1 \in T => r.queue # <<>> /\ Head(r.queue) = Head(c.queue)
  <2>1. HAVE 1 \in T
  <2>2. r.queue # <<>>
    BY <1>7, <2>1
  <2>3. 1 \in DOMAIN r.queue /\ Head(r.queue) = r.queue[1]
    BY <1>7, <2>2, TailElements
  <2>4. r.queue[1] = c.queue[1]
    BY <1>1, <1>3, <2>1, <2>3, SelectOrder
  <2>5. c.queue # <<>>
    BY <1>3, <2>1
  <2>6. Head(c.queue) = c.queue[1]
    BY <1>1, <2>5, TailElements
  <2>7. QED
    BY <2>2, <2>3, <2>4, <2>6
<1>12. QED
  BY <1>2, <1>5, <1>6, <1>8, <1>9, <1>10, <1>11 DEF Good, r

-----------------------------------------------------------------------------
(* Good: what phase1_continue and transition_phase schedule. *)

\* The updates phase1_continue schedules, and what it means that there are none.
LEMMA UpdatesScheduled ==
    ASSUME NEW c, Sound(c)
    PROVE  /\ Phase1Ops(c) \in Seq(Op) /\ Len(Phase1Ops(c)) <= Len(KeyOrder)
           /\ \A j \in DOMAIN Phase1Ops(c) :
                 LET o == Phase1Ops(c)[j]
                 IN  o.kind = "KEY_UPDATE" /\ o.dst \in Staying(c) /\ o.val = c.gen
           /\ Phase1Ops(c) = <<>> =>
                 \A s \in Slots : s[2] \in Staying(c) => c.phase[s] # NORMAL
<1> DEFINE due  == {i \in DOMAIN KeyOrder :
                       /\ KeyOrder[i][2] \in c.nodes \ c.blocked
                       /\ c.phase[KeyOrder[i]] = NORMAL}
           keys == Select(KeyOrder, due)
<1>1. KeyOrder \in Seq(Keys \X Nodes) /\ due \in SUBSET DOMAIN KeyOrder
  BY ClientAssumption
<1>2. \A i \in due : KeyOrder[i][2] \in Staying(c)
  BY DEF Staying
<1>3. due = {} => \A s \in Slots : s[2] \in Staying(c) => c.phase[s] # NORMAL
  BY DEF Slots, Staying
<1>4. Phase1Ops(c) = [j \in DOMAIN keys |-> KeyUpdate(keys[j], c.gen)]
  BY DEF Phase1Ops
<1> HIDE DEF due
<1>5. /\ keys \in Seq(Keys \X Nodes) /\ \A j \in DOMAIN keys : \E i \in due : keys[j] = KeyOrder[i]
      /\ due # {} => keys # <<>>
      /\ Len(keys) <= Len(KeyOrder)
  BY <1>1, SelectType, SelectOrder
<1> HIDE DEF keys
<1>6. Len(Phase1Ops(c)) = Len(keys) /\ DOMAIN Phase1Ops(c) = DOMAIN keys
  BY <1>4, <1>5
<1>7. \A j \in DOMAIN Phase1Ops(c) : Phase1Ops(c)[j].kind = "KEY_UPDATE"
         /\ Phase1Ops(c)[j].dst \in Staying(c) /\ Phase1Ops(c)[j].val = c.gen
  BY <1>2, <1>4, <1>5 DEF KeyUpdate
<1>8. Phase1Ops(c) \in Seq(Op)
  <2>1. \A o \in SafeOps(c.blocked) : o \in Op
    BY DEF SafeOps
  <2>2. QED
    BY <2>1, SafeUpdates, SeqOver
<1>9. Phase1Ops(c) = <<>> => keys = <<>>
  BY <1>5, <1>6, <1>8
<1>10. QED
  BY <1>3, <1>5, <1>6, <1>7, <1>8, <1>9

\* The phase sets a transition schedules, and what it means that there are none.
LEMMA PhaseSetsScheduled ==
    ASSUME NEW c, Sound(c), NEW t \in {SECOND, THIRD}
    PROVE  /\ TransitionOps(c, t) \in Seq(Op)
           /\ \A j \in DOMAIN TransitionOps(c, t) :
                 LET o == TransitionOps(c, t)[j]
                 IN  /\ o.kind = "KR_PHASE_SET" /\ o.dst \in Staying(c)
                     /\ o.key = NetKey /\ o.val = t
           /\ TransitionOps(c, t) = <<>> =>
                 \A n \in Staying(c) :
                     \/ c.phase[<<NetKey, n>>] = t
                     \/ t = THIRD /\ c.phase[<<NetKey, n>>] = NORMAL
<1> DEFINE due == {i \in DOMAIN NodeOrder :
                    /\ NodeOrder[i] \in c.nodes \ c.blocked
                    /\ c.phase[<<NetKey, NodeOrder[i]>>] # t
                    /\ ~ (t = THIRD /\ c.phase[<<NetKey, NodeOrder[i]>>] = NORMAL)}
           to  == Select(NodeOrder, due)
<1>1. NodeOrder \in Seq(Nodes) /\ due \in SUBSET DOMAIN NodeOrder
  BY ClientAssumption
<1>2. \A i \in due : NodeOrder[i] \in Staying(c)
  BY DEF Staying
<1>3. due = {} => \A n \in Staying(c) :
                     \/ c.phase[<<NetKey, n>>] = t
                     \/ t = THIRD /\ c.phase[<<NetKey, n>>] = NORMAL
  <2>1. \A n \in Staying(c) : \E i \in DOMAIN NodeOrder : n = NodeOrder[i]
    BY ClientAssumption DEF Staying, Sound, Client
  <2>2. QED
    BY <2>1 DEF Staying
<1>4. TransitionOps(c, t) = [j \in DOMAIN to |-> PhaseSet(to[j], t)]
  BY DEF TransitionOps
<1> HIDE DEF due
<1>5. /\ to \in Seq(Nodes) /\ \A j \in DOMAIN to : \E i \in due : to[j] = NodeOrder[i]
      /\ due # {} => to # <<>>
  BY <1>1, SelectType
<1> HIDE DEF to
<1>6. Len(TransitionOps(c, t)) = Len(to) /\ DOMAIN TransitionOps(c, t) = DOMAIN to
  BY <1>4, <1>5
<1>7. \A j \in DOMAIN TransitionOps(c, t) :
         /\ TransitionOps(c, t)[j].kind = "KR_PHASE_SET"
         /\ TransitionOps(c, t)[j].dst \in Staying(c)
         /\ TransitionOps(c, t)[j].key = NetKey /\ TransitionOps(c, t)[j].val = t
  BY <1>2, <1>4, <1>5 DEF PhaseSet
<1>8. TransitionOps(c, t) \in Seq(Op)
  <2>1. \A o \in SafeOps(c.blocked) : o \in Op
    BY DEF SafeOps
  <2>2. QED
    BY <2>1, SafePhaseSets, SeqOver
<1>9. TransitionOps(c, t) = <<>> => to = <<>>
  BY <1>5, <1>6, <1>8
<1>10. QED
  BY <1>3, <1>5, <1>7, <1>8, <1>9

\* What transition_phase changes.
LEMMA TransitionFields ==
    ASSUME NEW c, c \in Client, NEW t
    PROVE  LET r == Transition(c, t)
           IN  /\ r.queue = c.queue \o TransitionOps(c, t) /\ r.netPhase = t
               /\ r.gen = c.gen /\ r.phase = c.phase /\ r.nodes = c.nodes
               /\ r.blocked = c.blocked
               /\ r.state = IF t = SECOND THEN "KR2" ELSE "KR3"
<1> DEFINE q == c.queue \o TransitionOps(c, t)
           s == IF t = SECOND THEN "KR2" ELSE "KR3"
<1>1. Transition(c, t) = [c EXCEPT !.netPhase = t, !.state = s, !.queue = q]
  BY DEF Transition
<1> HIDE DEF q, s
<1>2. /\ Transition(c, t).queue = q /\ Transition(c, t).netPhase = t
      /\ Transition(c, t).gen = c.gen /\ Transition(c, t).phase = c.phase
      /\ Transition(c, t).nodes = c.nodes /\ Transition(c, t).blocked = c.blocked
      /\ Transition(c, t).state = s
  BY <1>1 DEF Client
<1>3. QED
  BY <1>2 DEF q, s

\* The network moves on to t when every node that counts has all new keys and
\* the phase before is behind it.
LEMMA GoodTransition ==
    ASSUME NEW c, NEW d, Good(c, d), NEW t \in {SECOND, THIRD}, c.netPhase # NORMAL,
           \A n \in Participants(c) :
               /\ HasAll(c, d[n], n)
               /\ \A i \in DOMAIN c.queue : IsUpdate(c.queue[i], n) =>
                     t = SECOND /\ c.phase[<<NetKey, n>>] # SECOND
               /\ t = THIRD /\ c.phase[<<NetKey, n>>] \in {THIRD, NORMAL} => d[n].phase = NORMAL
    PROVE  LET r == Transition(c, t)
           IN  /\ Good(r, d) /\ Keeps(r, c) /\ r.netPhase = t /\ r.phase = c.phase
               /\ r.state = IF t = SECOND THEN "KR2" ELSE "KR3"
<1> DEFINE r   == Transition(c, t)
           ops == TransitionOps(c, t)
<1>1. Sound(c) /\ c \in Client /\ c.queue \in Seq(Op) /\ c.gen > 0
  BY DEF Good, Sound, Client
<1>2. Sound(r)
  BY <1>1, SoundTransition
<1>3. /\ r.queue = c.queue \o ops /\ r.netPhase = t /\ r.gen = c.gen /\ r.phase = c.phase
      /\ r.nodes = c.nodes /\ r.blocked = c.blocked
      /\ r.state = IF t = SECOND THEN "KR2" ELSE "KR3"
  BY <1>1, TransitionFields
<1> HIDE DEF r
<1>4. /\ ops \in Seq(Op)
      /\ \A j \in DOMAIN ops : /\ ops[j].kind = "KR_PHASE_SET" /\ ops[j].dst \in Staying(c)
                               /\ ops[j].key = NetKey /\ ops[j].val = t
  BY <1>1, PhaseSetsScheduled
<1> HIDE DEF ops
<1>5. /\ DOMAIN c.queue \subseteq DOMAIN r.queue
      /\ \A i \in DOMAIN c.queue : r.queue[i] = c.queue[i]
      /\ \A i \in DOMAIN r.queue \ DOMAIN c.queue : \E j \in DOMAIN ops : r.queue[i] = ops[j]
  BY <1>1, <1>3, <1>4, ConcatElements
<1>6. Staying(r) = Staying(c)
  BY <1>3 DEF Staying
<1>7. Keeps(r, c) /\ Aimed(r)
  BY <1>4, <1>5, <1>6 DEF Good, Aimed, Keeps
<1>8. \A n \in Participants(r) : UpdatesFit(r, n) /\ RecordFits(r, d[n], n)
  <2>1. TAKE n \in Participants(r)
  <2>2. n \in Participants(c)
    BY <1>6, ParticipantsStay
  <2>3. HasAll(r, d[n], n)
    BY <1>3, <2>2 DEF HasAll, HasKey
  <2>4. RecordFits(r, d[n], n)
    BY <1>3, <2>2, <2>3 DEF RecordFits
  <2>5. UpdatesFit(c, n)
    BY <2>2 DEF Good
  <2>6. \A i \in DOMAIN c.queue : IsUpdate(c.queue[i], n) =>
            /\ r.netPhase \in {FIRST, SECOND}
            /\ r.netPhase = SECOND => r.phase[<<NetKey, n>>] # SECOND
    BY <1>3, <2>2
  <2>7. \A i \in DOMAIN ops : ~ IsUpdate(ops[i], n)
    BY <1>4 DEF IsUpdate
  <2>8. UpdatesFit(r, n)
    BY <1>1, <1>3, <1>4, <2>5, <2>6, <2>7, AppendFits
  <2>9. QED
    BY <2>4, <2>8
<1>9. QED
  BY <1>2, <1>3, <1>7, <1>8 DEF Good, r

\* phase1_continue goes to the second phase only when no update is due: its count
\* does not return to 0 with a short table.
LEMMA ContinueFirstFields ==
    ASSUME NEW c, Sound(c), c.netPhase = FIRST, ShortTable
    PROVE  LET r == ContinueFirst(c)
           IN  /\ r.queue = c.queue \o Phase1Ops(c)
               /\ r.netPhase = (IF Phase1Ops(c) = <<>> THEN SECOND ELSE FIRST)
               /\ r.gen = c.gen /\ r.phase = c.phase /\ r.nodes = c.nodes
               /\ r.blocked = c.blocked /\ r.state = "KR1"
<1> DEFINE q  == c.queue \o Phase1Ops(c)
           np == IF Len(Phase1Ops(c)) % UINT8 = 0 THEN SECOND ELSE c.netPhase
<1>1. c \in Client
  BY DEF Sound
<1>2. ContinueFirst(c) = [c EXCEPT !.state = "KR1", !.queue = q, !.netPhase = np]
  BY <1>1 DEF ContinueFirst, Client
<1>3. np = IF Phase1Ops(c) = <<>> THEN SECOND ELSE FIRST
  <2>1. Phase1Ops(c) \in Seq(Op) /\ Len(Phase1Ops(c)) <= Len(KeyOrder)
    BY UpdatesScheduled
  <2>2. Len(KeyOrder) \in Nat
    BY ClientAssumption
  <2> DEFINE m == Len(Phase1Ops(c))
             k == Len(KeyOrder)
  <2>3. m \in Nat /\ k \in Nat /\ m <= k /\ k < 256 /\ (Phase1Ops(c) = <<>> <=> m = 0)
    BY <2>1, <2>2 DEF ShortTable, UINT8
  <2>4. np = IF m % 256 = 0 THEN SECOND ELSE FIRST
    BY DEF UINT8
  <2> HIDE DEF m, k, np
  <2>5. m % 256 = m
    BY <2>3
  <2>6. QED
    BY <2>3, <2>4, <2>5
<1> HIDE DEF q, np
<1>4. /\ ContinueFirst(c).queue = q /\ ContinueFirst(c).netPhase = np
      /\ ContinueFirst(c).gen = c.gen /\ ContinueFirst(c).phase = c.phase
      /\ ContinueFirst(c).nodes = c.nodes /\ ContinueFirst(c).blocked = c.blocked
      /\ ContinueFirst(c).state = "KR1"
  BY <1>1, <1>2 DEF Client
<1>5. QED
  BY <1>3, <1>4 DEF q

\* The first phase is taken up, with no phase set pending, or skipped.
LEMMA GoodContinueFirst ==
    ASSUME NEW c, NEW d, Good(c, d), ShortTable, c.netPhase = FIRST => NoPhaseSets(c)
    PROVE  LET r == ContinueFirst(c)
           IN  /\ Good(r, d) /\ Keeps(r, c) /\ r.phase = c.phase
               /\ c.netPhase # FIRST => r = c
               /\ c.netPhase = FIRST =>
                     /\ r.state = "KR1" /\ r.netPhase \in {FIRST, SECOND}
                     /\ c.phase[<<NetKey, Local>>] = NORMAL => r.netPhase = FIRST
<1> DEFINE r   == ContinueFirst(c)
           ops == Phase1Ops(c)
<1>1. Sound(c) /\ c \in Client /\ c.queue \in Seq(Op)
  BY DEF Good, Sound, Client
<1>2. CASE c.netPhase # FIRST
  BY <1>2 DEF ContinueFirst, Keeps
<1>3. CASE c.netPhase = FIRST
  <2>1. Sound(r)
    BY <1>1, SoundContinueFirst
  <2>2. /\ r.queue = c.queue \o ops
        /\ r.netPhase = (IF ops = <<>> THEN SECOND ELSE FIRST)
        /\ r.gen = c.gen /\ r.phase = c.phase /\ r.nodes = c.nodes
        /\ r.blocked = c.blocked /\ r.state = "KR1"
    BY <1>1, <1>3, ContinueFirstFields
  <2> HIDE DEF r
  <2>3. /\ ops \in Seq(Op)
        /\ \A j \in DOMAIN ops :
              ops[j].kind = "KEY_UPDATE" /\ ops[j].dst \in Staying(c) /\ ops[j].val = c.gen
        /\ ops = <<>> => \A s \in Slots : s[2] \in Staying(c) => c.phase[s] # NORMAL
    BY <1>1, UpdatesScheduled
  <2> HIDE DEF ops
  <2>4. /\ DOMAIN c.queue \subseteq DOMAIN r.queue
        /\ \A i \in DOMAIN c.queue : r.queue[i] = c.queue[i]
        /\ \A i \in DOMAIN r.queue \ DOMAIN c.queue : \E j \in DOMAIN ops : r.queue[i] = ops[j]
    BY <1>1, <2>2, <2>3, ConcatElements
  <2>5. Staying(r) = Staying(c)
    BY <2>2 DEF Staying
  <2>6. Keeps(r, c) /\ Aimed(r)
    BY <2>3, <2>4, <2>5 DEF Good, Aimed, Keeps
  <2>7. \A n \in Participants(r) : UpdatesFit(r, n) /\ RecordFits(r, d[n], n)
    <3>1. TAKE n \in Participants(r)
    <3>2. n \in Participants(c)
      BY <2>5, ParticipantsStay
    <3>3. n \in Staying(c) /\ <<NetKey, n>> \in Slots /\ NetKey \in Keys
      BY <1>1, <3>2, ParticipantIsNode
    <3>4. UpdatesFit(c, n) /\ RecordFits(c, d[n], n)
      BY <3>2 DEF Good
    <3>5. c.phase[<<NetKey, n>>] \in {NORMAL, FIRST}
      BY <1>3, <3>4 DEF RecordFits
    <3>6. RecordFits(r, d[n], n)
      <4>1. CASE ops = <<>>
        <5>1. \A k \in Keys : <<k, n>> \in Slots => HasKey(c, d[n], k)
          BY <1>3, <2>3, <3>3, <3>4, <4>1 DEF RecordFits
        <5>2. HasAll(r, d[n], n)
          BY <2>2, <5>1 DEF HasAll, HasKey
        <5>3. QED
          BY <2>2, <4>1, <5>2 DEF RecordFits
      <4>2. CASE ops # <<>>
        <5>1. SameRecord(r, c)
          BY <1>3, <2>2, <4>2 DEF SameRecord
        <5>2. QED
          BY <3>4, <5>1, SameRecordFits
      <4>3. QED
        BY <4>1, <4>2
    <3>7. \A j \in DOMAIN c.queue : ~ IsPhaseSet(c.queue[j], n)
      BY <1>3, <3>2 DEF NoPhaseSets
    <3>8. \A j \in DOMAIN ops : ~ IsPhaseSet(ops[j], n) /\ ops[j].val = c.gen
      BY <2>3 DEF IsPhaseSet
    <3>9. \A i \in DOMAIN c.queue : IsUpdate(c.queue[i], n) =>
              /\ r.netPhase \in {FIRST, SECOND}
              /\ r.netPhase = SECOND => r.phase[<<NetKey, n>>] # SECOND
      BY <2>2, <3>5
    <3>10. DOMAIN ops # {} => r.netPhase = FIRST
      BY <2>2
    <3>11. \A i \in DOMAIN ops : IsUpdate(ops[i], n) =>
               /\ ops[i].val = c.gen
               /\ r.netPhase = FIRST
               /\ \A j \in DOMAIN c.queue : ~ IsPhaseSet(c.queue[j], n)
               /\ \A j \in DOMAIN ops : ~ IsPhaseSet(ops[j], n)
      BY <3>7, <3>8, <3>10
    <3>12. UpdatesFit(r, n)
      BY <1>1, <2>2, <2>3, <3>4, <3>9, <3>11, AppendFits
    <3>13. QED
      BY <3>6, <3>12
  <2>8. c.phase[<<NetKey, Local>>] = NORMAL => r.netPhase = FIRST
    <3>1. Local \in Staying(c)
      BY <1>1 DEF Sound, Staying
    <3>2. QED
      BY <2>2, <2>3, <3>1, LocalSlot
  <2>9. QED
    BY <1>3, <2>1, <2>2, <2>6, <2>7, <2>8 DEF Good, r
<1>4. QED
  BY <1>2, <1>3

-----------------------------------------------------------------------------
(* Good: the second phase, and the end of the third. *)

\* States in which every answer is taken for the one waited for.
Quiet(c) ==
    \/ c.state = "NETWORK_CONNECT"
    \/ c.state = "IDLE" /\ c.queue # <<>> /\ c.netPhase # NORMAL

\* The second branch of mesh_key_refresh_continue.
LEMMA GoodContinueSecond ==
    ASSUME NEW c, NEW d, Good(c, d)
    PROVE  LET r == ContinueSecond(c)
           IN  /\ Good(r, d) /\ Keeps(r, c)
               /\ c.netPhase # SECOND => r = c
               /\ c.netPhase = SECOND => r.state = "KR2" /\ r.netPhase \in {SECOND, THIRD}
<1> DEFINE r  == ContinueSecond(c)
           t  == Transition(c, SECOND)
           np == IF TransitionOps(c, SECOND) = <<>> THEN THIRD ELSE t.netPhase
<1>1. Sound(c) /\ c \in Client /\ c.queue \in Seq(Op)
  BY DEF Good, Sound, Client
<1>2. CASE c.netPhase # SECOND
  BY <1>2 DEF ContinueSecond, Keeps
<1>3. CASE c.netPhase = SECOND
  <2>1. \A n \in Participants(c) :
           /\ HasAll(c, d[n], n)
           /\ \A i \in DOMAIN c.queue : IsUpdate(c.queue[i], n) => c.phase[<<NetKey, n>>] # SECOND
    BY <1>3 DEF Good, RecordFits, UpdatesFit
  <2>2. /\ Good(t, d) /\ Keeps(t, c) /\ t.netPhase = SECOND /\ t.phase = c.phase
        /\ t.state = "KR2"
    BY <1>3, <2>1, GoodTransition
  <2>3. t.queue = c.queue \o TransitionOps(c, SECOND) /\ t.gen = c.gen
        /\ t.nodes = c.nodes /\ t.blocked = c.blocked
    BY <1>1, TransitionFields
  <2>4. Sound(r) /\ t \in Client
    BY <1>1, <2>2, SoundContinueSecond DEF Good, Sound
  <2> HIDE DEF t
  <2>5. r = [t EXCEPT !.netPhase = np]
    BY <1>3, <2>4 DEF ContinueSecond, Client, t
  <2> HIDE DEF r
  <2>6. CASE TransitionOps(c, SECOND) # <<>>
    <3>1. r = t
      BY <2>4, <2>5, <2>6 DEF Client
    <3>2. QED
      BY <1>3, <2>2, <3>1 DEF r
  <2>7. CASE TransitionOps(c, SECOND) = <<>>
    <3>1. /\ r.netPhase = THIRD /\ r.queue = c.queue /\ r.gen = c.gen /\ r.phase = c.phase
          /\ r.nodes = c.nodes /\ r.blocked = c.blocked /\ r.state = "KR2"
      <4>1. t.queue = c.queue
        BY <1>1, <2>3, <2>7
      <4>2. QED
        BY <2>2, <2>3, <2>4, <2>5, <2>7, <4>1 DEF Client
    <3>2. Staying(r) = Staying(c) /\ Participants(r) = Participants(c)
      BY <3>1 DEF Staying, Participants
    <3>3. \A n \in Staying(c) : c.phase[<<NetKey, n>>] = SECOND
      BY <1>1, <2>7, PhaseSetsScheduled
    <3>4. Aimed(r) /\ Keeps(r, c)
      BY <3>1, <3>2 DEF Good, Aimed, Keeps
    <3>5. \A n \in Participants(r) : UpdatesFit(r, n) /\ RecordFits(r, d[n], n)
      <4>1. TAKE n \in Participants(r)
      <4>2. n \in Participants(c) /\ c.phase[<<NetKey, n>>] = SECOND
        BY <1>1, <3>2, <3>3, ParticipantIsNode
      <4>3. HasAll(r, d[n], n)
        BY <2>1, <3>1, <4>2 DEF HasAll, HasKey
      <4>4. \A i \in DOMAIN r.queue : ~ IsUpdate(r.queue[i], n)
        BY <2>1, <3>1, <4>2
      <4>5. QED
        BY <3>1, <4>2, <4>3, <4>4 DEF UpdatesFit, RecordFits
    <3>6. QED
      BY <1>3, <2>4, <3>1, <3>4, <3>5 DEF Good, r
  <2>8. QED
    BY <2>6, <2>7
<1>4. QED
  BY <1>2, <1>3

\* What the end of a refresh changes.
LEMMA FinishFields ==
    ASSUME NEW c, c \in Client,
           NEW gone, gone = (c.nodes \cap c.blocked) \ Suspects(c)
    PROVE  LET r == Finish(c)
           IN  /\ r.queue = c.queue /\ r.netPhase = NORMAL /\ r.gen = c.gen
               /\ r.nodes = c.nodes \ gone /\ r.blocked = c.blocked \ gone
               /\ r.state = c.state
               /\ \A s \in Slots : s[2] \notin c.blocked => r.phase[s] = NORMAL
<1> DEFINE ph == [s \in Slots |-> IF s[2] \in c.blocked \ gone /\ s[1] # NetKey
                                  THEN c.phase[s] ELSE NORMAL]
<1>1. Finish(c) = [c EXCEPT !.netPhase = NORMAL, !.phase = ph, !.nodes = c.nodes \ gone,
                            !.blocked = c.blocked \ gone]
  BY DEF Finish, Client
<1>2. \A s \in Slots : s[2] \notin c.blocked => ph[s] = NORMAL
  OBVIOUS
<1> HIDE DEF ph
<1>3. QED
  BY <1>1, <1>2 DEF Client

\* The refresh ends: every node that counts is through.
LEMMA GoodFinish ==
    ASSUME NEW c, NEW d, Good(c, d), c.netPhase = THIRD, AllThrough(c, {NetKey}, {THIRD, NORMAL})
    PROVE  LET r == Finish(c)
           IN  /\ Good(r, d) /\ Keeps(r, c) /\ r.netPhase = NORMAL /\ r.state = c.state
               /\ r.phase[<<NetKey, Local>>] = NORMAL /\ r.queue = c.queue
<1> DEFINE r    == Finish(c)
           gone == (c.nodes \cap c.blocked) \ Suspects(c)
<1>1. Sound(c) /\ c \in Client /\ c.queue \in Seq(Op)
  BY DEF Good, Sound, Client
<1>2. Sound(r) /\ r.phase[<<NetKey, Local>>] = NORMAL
  BY <1>1, SoundFinish
<1>3. gone \subseteq c.blocked
  OBVIOUS
<1>4. /\ r.queue = c.queue /\ r.netPhase = NORMAL /\ r.gen = c.gen
      /\ r.nodes = c.nodes \ gone /\ r.blocked = c.blocked \ gone
      /\ r.state = c.state
      /\ \A s \in Slots : s[2] \notin c.blocked => r.phase[s] = NORMAL
  BY <1>1, FinishFields
<1> HIDE DEF r, gone
<1>5. Staying(r) = Staying(c)
  BY <1>3, <1>4 DEF Staying
<1>6. Aimed(r) /\ Keeps(r, c)
  BY <1>4, <1>5 DEF Good, Aimed, Keeps
<1>7. \A n \in Participants(r) : UpdatesFit(r, n) /\ RecordFits(r, d[n], n)
  <2>1. TAKE n \in Participants(r)
  <2>2. n \in Participants(c)
    BY <1>5, ParticipantsStay
  <2>3. n \notin c.blocked /\ <<NetKey, n>> \in Slots
    BY <1>1, <2>2, ParticipantIsNode
  <2>4. UpdatesFit(c, n) /\ RecordFits(c, d[n], n)
    BY <2>2 DEF Good
  <2>5. UpdatesFit(r, n)
    BY <1>4, <2>4 DEF UpdatesFit
  <2>6. c.phase[<<NetKey, n>>] \in {THIRD, NORMAL}
    BY <2>2, <2>3 DEF AllThrough
  <2>7. HasAll(c, d[n], n) /\ d[n].phase = NORMAL
    BY <2>4, <2>6 DEF RecordFits
  <2>8. HasAll(r, d[n], n)
    BY <1>4, <2>7 DEF HasAll, HasKey
  <2>9. \A k \in Keys : <<k, n>> \in Slots => r.phase[<<k, n>>] = NORMAL
    BY <1>4, <2>3
  <2>10. RecordFits(r, d[n], n)
    BY <1>4, <2>7, <2>8, <2>9 DEF RecordFits
  <2>11. QED
    BY <2>5, <2>10
<1>8. QED
  BY <1>2, <1>4, <1>6, <1>7 DEF Good, r

\* What mesh_update_keys changes.
LEMMA UpdateKeysFields ==
    ASSUME NEW c, c \in Client
    PROVE  LET r == UpdateKeys(c)
           IN  /\ r.queue = c.queue /\ r.netPhase = FIRST /\ r.gen = c.gen + 1
               /\ r.phase = c.phase /\ r.nodes = c.nodes /\ r.blocked = c.blocked
               /\ r.state = c.state
BY DEF UpdateKeys, Client

\* The keys are renewed after a refresh: every node then is one key behind.
LEMMA GoodUpdateKeys ==
    ASSUME NEW c, NEW d, Good(c, d), c.netPhase = NORMAL
    PROVE  LET r == UpdateKeys(c)
           IN  /\ Good(r, d) /\ Keeps(r, c) /\ r.netPhase = FIRST /\ r.state = c.state
               /\ r.phase = c.phase /\ r.queue = c.queue
<1> DEFINE r == UpdateKeys(c)
<1>1. Sound(c) /\ c \in Client /\ c.queue \in Seq(Op)
  BY DEF Good, Sound, Client
<1>2. Sound(r)
  BY <1>1, SoundUpdateKeys
<1>3. /\ r.queue = c.queue /\ r.netPhase = FIRST /\ r.gen = c.gen + 1
      /\ r.phase = c.phase /\ r.nodes = c.nodes /\ r.blocked = c.blocked
      /\ r.state = c.state
  BY <1>1, UpdateKeysFields
<1> HIDE DEF r
<1>4. Staying(r) = Staying(c)
  BY <1>3 DEF Staying
<1>5. Aimed(r) /\ Keeps(r, c)
  BY <1>3, <1>4 DEF Good, Aimed, Keeps
<1>6. \A n \in Participants(r) : UpdatesFit(r, n) /\ RecordFits(r, d[n], n)
  <2>1. TAKE n \in Participants(r)
  <2>2. n \in Participants(c)
    BY <1>4, ParticipantsStay
  <2>3. UpdatesFit(c, n) /\ RecordFits(c, d[n], n)
    BY <2>2 DEF Good
  <2>4. NetKey \in Keys /\ <<NetKey, n>> \in Slots
    BY <1>1, <2>2, ParticipantIsNode
  <2>5. HasAll(c, d[n], n) /\ \A k \in Keys : <<k, n>> \in Slots => c.phase[<<k, n>>] = NORMAL
    BY <2>3 DEF RecordFits
  <2>6. d[n].cur + 1 = r.gen
    BY <1>3, <2>4, <2>5 DEF HasAll, HasKey
  <2>7. RecordFits(r, d[n], n)
    BY <1>3, <2>4, <2>5, <2>6 DEF RecordFits
  <2>8. UpdatesFit(r, n)
    BY <1>3, <2>3 DEF UpdatesFit
  <2>9. QED
    BY <2>7, <2>8
<1>7. QED
  BY <1>2, <1>3, <1>5, <1>6 DEF Good, r

\* Where the renewal at the end of a refresh leads, whatever is pending.
LEMMA RestartShape ==
    ASSUME NEW c, Sound(c), c.phase[<<NetKey, Local>>] = NORMAL, ShortTable
    PROVE  LET b == UpdateKeys([c EXCEPT !.state = "KR1"])
           IN  /\ Restart(c) = ContinueFirst(b)
               /\ Staying(Restart(c)) = Staying(c)
               /\ \A i \in DOMAIN c.queue :
                     i \in DOMAIN Restart(c).queue /\ Restart(c).queue[i] = c.queue[i]
               /\ Restart(c).netPhase = FIRST /\ Restart(c).state = "KR1"
<1> DEFINE a == [c EXCEPT !.state = "KR1"]
           b == UpdateKeys(a)
           e == ContinueFirst(b)
<1>1. Sound(a) /\ a \in Client /\ a.queue = c.queue /\ a.phase = c.phase /\ a.nodes = c.nodes
      /\ a.blocked = c.blocked /\ c.queue \in Seq(Op)
  <2>1. Sound(a)
    BY SoundState DEF ClientStates
  <2>2. QED
    BY <2>1 DEF Sound, Client
<1> HIDE DEF a
<1>2. Sound(b)
  BY <1>1, SoundUpdateKeys
<1>3. /\ b.queue = c.queue /\ b.netPhase = FIRST /\ b.phase = c.phase /\ b.nodes = c.nodes
      /\ b.blocked = c.blocked
  BY <1>1, UpdateKeysFields
<1> HIDE DEF b
<1>4. Phase1Ops(b) \in Seq(Op) /\ Phase1Ops(b) # <<>>
  <2>1. Local \in Staying(b)
    BY <1>2 DEF Sound, Staying
  <2>2. QED
    BY <1>2, <1>3, <2>1, LocalSlot, UpdatesScheduled
<1>5. /\ e.queue = c.queue \o Phase1Ops(b) /\ e.netPhase = FIRST /\ e.nodes = c.nodes
      /\ e.blocked = c.blocked /\ e.state = "KR1"
  BY <1>2, <1>3, <1>4, ContinueFirstFields
<1>6. \A i \in DOMAIN c.queue : i \in DOMAIN e.queue /\ e.queue[i] = c.queue[i]
  BY <1>1, <1>4, <1>5, ConcatElements
<1> HIDE DEF e
<1>7. Restart(c) = e
  BY <1>5 DEF Restart, ContinueSecond, a, b, e
<1>8. QED
  BY <1>5, <1>6, <1>7 DEF Staying, a, b, e

\* No phase set is in time while the network is in no phase that has one.
LEMMA NothingInTime ==
    ASSUME NEW r, NEW c, Aimed(c), InTime(r), Staying(r) = Staying(c),
           \A i \in DOMAIN c.queue : i \in DOMAIN r.queue /\ r.queue[i] = c.queue[i],
           r.netPhase \in {NORMAL, FIRST}
    PROVE  NoPhaseSets(c)
<1> SUFFICES ASSUME NEW n \in Participants(c), NEW i \in DOMAIN c.queue,
                    IsPhaseSet(c.queue[i], n)
             PROVE  FALSE
  BY DEF NoPhaseSets
<1>1. n \in Participants(r)
  BY ParticipantsStay
<1>2. r.queue[i].kind = "KR_PHASE_SET" /\ r.queue[i].dst = n /\ i \in DOMAIN r.queue
  BY DEF IsPhaseSet
<1>3. r.queue[i].val = r.netPhase
  BY <1>1, <1>2 DEF InTime
<1>4. c.queue[i].val \in {SECOND, THIRD}
  BY DEF Aimed, IsPhaseSet
<1>5. QED
  BY <1>3, <1>4

\* A refresh that starts over at its end, for the nodes removed meanwhile.
LEMMA GoodRestart ==
    ASSUME NEW c, NEW d, Good(c, d), c.netPhase = NORMAL, c.phase[<<NetKey, Local>>] = NORMAL,
           ShortTable, InTime(Restart(c))
    PROVE  /\ Good(Restart(c), d) /\ Keeps(Restart(c), c)
           /\ Restart(c).netPhase = FIRST /\ Restart(c).state = "KR1"
<1> DEFINE a == [c EXCEPT !.state = "KR1"]
           b == UpdateKeys(a)
<1>1. Sound(c) /\ Aimed(c)
  BY DEF Good
<1>2. /\ Restart(c) = ContinueFirst(b)
      /\ Staying(Restart(c)) = Staying(c)
      /\ \A i \in DOMAIN c.queue :
            i \in DOMAIN Restart(c).queue /\ Restart(c).queue[i] = c.queue[i]
      /\ Restart(c).netPhase = FIRST /\ Restart(c).state = "KR1"
  BY <1>1, RestartShape
<1>3. NoPhaseSets(c)
  BY <1>1, <1>2, NothingInTime
<1>4. Good(a, d) /\ Keeps(a, c) /\ a.netPhase = NORMAL /\ a.queue = c.queue
  BY GoodState DEF ClientStates, SameRecord
<1> HIDE DEF a
<1>5. Good(b, d) /\ Keeps(b, a) /\ b.queue = a.queue
  BY <1>4, GoodUpdateKeys
<1> HIDE DEF b
<1>6. NoPhaseSets(b)
  <2>1. Participants(b) = Participants(c)
    BY <1>4, <1>5, ParticipantsStay DEF Keeps
  <2>2. QED
    BY <1>3, <1>4, <1>5, <2>1 DEF NoPhaseSets
<1>7. Good(ContinueFirst(b), d) /\ Keeps(ContinueFirst(b), b)
  BY <1>5, <1>6, GoodContinueFirst
<1>8. Keeps(ContinueFirst(b), c)
  BY <1>4, <1>5, <1>7, KeepsTrans
<1>9. QED
  BY <1>2, <1>7, <1>8

-----------------------------------------------------------------------------
(* Good: completing a phase and taking the refresh up again. *)

LEMMA InTimeExecute ==
    ASSUME NEW c, c \in Client, InTime(Execute(c))
    PROVE  InTime(c)
<1>1. /\ Execute(c).queue = c.queue /\ Execute(c).netPhase = c.netPhase
      /\ Execute(c).nodes = c.nodes /\ Execute(c).blocked = c.blocked
  BY DEF Execute, Client
<1>2. QED
  BY <1>1 DEF InTime, Participants

LEMMA KeepsSelf ==
    ASSUME NEW c
    PROVE  Keeps(c, c)
BY DEF Keeps

\* The third phase completes, or what it waits for is not done yet.
LEMMA GoodPhase3Completed ==
    ASSUME NEW c, NEW d, Good(c, d), ShortTable, InTime(Phase3Completed(c))
    PROVE  LET r == Phase3Completed(c)
           IN  /\ Good(r, d) /\ Keeps(r, c)
               /\ (r.state = "KR1" \/ (r.state = "IDLE" /\ r.queue = c.queue))
               /\ c.netPhase = THIRD /\ AllThrough(c, {NetKey}, {THIRD, NORMAL}) =>
                     r.state = "KR1" \/ r.netPhase = NORMAL
<1> DEFINE r    == Phase3Completed(c)
           idle == [c EXCEPT !.state = "IDLE"]
           fin  == Finish(idle)
           done == c.netPhase = THIRD /\ AllThrough(c, {NetKey}, {THIRD, NORMAL})
<1>1. Sound(c) /\ c \in Client
  BY DEF Good, Sound
<1>2. /\ Good(idle, d) /\ Keeps(idle, c) /\ idle.netPhase = c.netPhase
      /\ idle.phase = c.phase /\ idle.queue = c.queue /\ idle.state = "IDLE"
  BY GoodState DEF ClientStates, SameRecord
<1>3. r = IF done
          THEN Execute(IF Suspects(c) = {} THEN fin ELSE Restart(fin))
          ELSE idle
  BY Zenon DEF Phase3Completed, done
<1> HIDE DEF idle
<1>4. CASE ~ done
  <2>1. r = idle
    BY <1>3, <1>4
  <2> HIDE DEF r, done
  <2>2. QED
    BY <1>2, <1>4, <2>1 DEF r, done
<1>5. CASE done
  <2>1. AllThrough(idle, {NetKey}, {THIRD, NORMAL})
    <3>1. Participants(idle) = Participants(c)
      BY <1>2, ParticipantsStay DEF Keeps
    <3>2. QED
      BY <1>2, <1>5, <3>1 DEF AllThrough
  <2>2. /\ Good(fin, d) /\ Keeps(fin, idle) /\ fin.netPhase = NORMAL /\ fin.state = "IDLE"
        /\ fin.phase[<<NetKey, Local>>] = NORMAL /\ fin.queue = c.queue
    BY <1>2, <1>5, <2>1, GoodFinish
  <2> HIDE DEF fin
  <2>3. Keeps(fin, c)
    BY <1>2, <2>2, KeepsTrans
  <2>4. CASE Suspects(c) = {}
    <3>1. r = Execute(fin)
      BY <1>3, <1>5, <2>4
    <3>2. /\ Good(Execute(fin), d) /\ Keeps(Execute(fin), fin)
          /\ Execute(fin).netPhase = NORMAL /\ Execute(fin).state = "IDLE"
          /\ Execute(fin).queue = c.queue
      BY <2>2, GoodExecute DEF SameRecord
    <3>3. Keeps(Execute(fin), c)
      BY <2>3, <3>2, KeepsTrans
    <3> HIDE DEF r
    <3>4. QED
      BY <3>1, <3>2, <3>3 DEF r
  <2>5. CASE Suspects(c) # {}
    <3> DEFINE e == Restart(fin)
    <3>1. r = Execute(e)
      BY <1>3, <1>5, <2>5
    <3>2. e \in Client
      BY <2>2, SoundRestart DEF Good, Sound
    <3>3. InTime(e)
      <4> HIDE DEF e, r
      <4>1. InTime(r)
        BY DEF r
      <4>2. QED
        BY <3>1, <3>2, <4>1, InTimeExecute
    <3>4. Good(e, d) /\ Keeps(e, fin) /\ e.netPhase = FIRST /\ e.state = "KR1"
      BY <2>2, <3>3, GoodRestart
    <3> HIDE DEF e
    <3>5. Good(Execute(e), d) /\ Keeps(Execute(e), e) /\ Execute(e).state = "KR1"
      BY <3>4, GoodExecute
    <3>6. Keeps(Execute(e), c)
      BY <2>3, <3>4, <3>5, KeepsTrans
    <3> HIDE DEF r
    <3>7. QED
      BY <3>1, <3>5, <3>6 DEF r
  <2>6. QED
    BY <2>4, <2>5
<1>6. QED
  BY <1>4, <1>5

\* The second phase completes with nothing pending.
LEMMA GoodPhase2Completed ==
    ASSUME NEW c, NEW d, Good(c, d), c.netPhase = SECOND, c.queue = <<>>
    PROVE  LET r == Phase2Completed(c)
           IN  /\ Good(r, d) /\ Keeps(r, c)
               /\ (r.state = "KR3" \/ (r.state = "IDLE" /\ r.queue = <<>>))
<1> DEFINE r    == Phase2Completed(c)
           idle == [c EXCEPT !.state = "IDLE"]
           on   == Transition(c, THIRD)
<1>1. Good(idle, d) /\ Keeps(idle, c) /\ idle.queue = <<>> /\ idle.state = "IDLE"
  BY GoodState DEF ClientStates
<1>2. CASE AllThrough(c, {NetKey}, {SECOND})
  <2>1. \A n \in Participants(c) : HasAll(c, d[n], n) /\ c.phase[<<NetKey, n>>] = SECOND
    <3>1. TAKE n \in Participants(c)
    <3>2. <<NetKey, n>> \in Slots
      BY ParticipantIsNode DEF Good, Sound
    <3>3. c.phase[<<NetKey, n>>] = SECOND
      BY <1>2, <3>2 DEF AllThrough
    <3>4. QED
      BY <3>3 DEF Good, RecordFits
  <2>2. \A i \in DOMAIN c.queue : FALSE
    OBVIOUS
  <2>3. Good(on, d) /\ Keeps(on, c) /\ on.state = "KR3"
    BY <2>1, <2>2, GoodTransition
  <2> HIDE DEF on
  <2>4. Good(Execute(on), d) /\ Keeps(Execute(on), on) /\ Execute(on).state = "KR3"
    BY <2>3, GoodExecute
  <2>5. Keeps(Execute(on), c)
    BY <2>3, <2>4, KeepsTrans
  <2>6. r = Execute(on)
    BY <1>2 DEF Phase2Completed, on
  <2> HIDE DEF r
  <2>7. QED
    BY <2>4, <2>5, <2>6 DEF r
<1>3. CASE ~ AllThrough(c, {NetKey}, {SECOND})
  <2>1. r = idle
    BY <1>3 DEF Phase2Completed
  <2> HIDE DEF r, idle
  <2>2. QED
    BY <1>1, <2>1 DEF r
<1>4. QED
  BY <1>2, <1>3

\* The first phase completes with nothing pending.
LEMMA GoodPhase1Completed ==
    ASSUME NEW c, NEW d, Good(c, d), c.queue = <<>>
    PROVE  LET r == Phase1Completed(c)
           IN  /\ Good(r, d) /\ Keeps(r, c)
               /\ \/ r.state = "KR2"
                  \/ r.state \in {c.state, "IDLE"} /\ r.queue = <<>>
<1> DEFINE r    == Phase1Completed(c)
           idle == [c EXCEPT !.state = "IDLE"]
           on   == Transition(c, SECOND)
<1>1. Good(idle, d) /\ Keeps(idle, c) /\ idle.queue = <<>> /\ idle.state = "IDLE"
  BY GoodState DEF ClientStates
<1>2. CASE c.netPhase = FIRST /\ AllThrough(c, Keys, {FIRST})
  <2>1. \A n \in Participants(c) : HasAll(c, d[n], n)
    <3>1. TAKE n \in Participants(c)
    <3>2. \A k \in Keys : <<k, n>> \in Slots => c.phase[<<k, n>>] = FIRST
      BY <1>2 DEF AllThrough
    <3>3. RecordFits(c, d[n], n)
      BY DEF Good
    <3>4. QED
      BY <1>2, <3>2, <3>3 DEF RecordFits, HasAll
  <2>2. \A i \in DOMAIN c.queue : FALSE
    OBVIOUS
  <2>3. Good(on, d) /\ Keeps(on, c) /\ on.state = "KR2"
    <3>1. \A n \in Participants(c) :
             /\ HasAll(c, d[n], n)
             /\ \A i \in DOMAIN c.queue : IsUpdate(c.queue[i], n) =>
                   SECOND = SECOND /\ c.phase[<<NetKey, n>>] # SECOND
             /\ SECOND = THIRD /\ c.phase[<<NetKey, n>>] \in {THIRD, NORMAL} => d[n].phase = NORMAL
      BY <2>1, <2>2
    <3>2. c.netPhase # NORMAL
      BY <1>2
    <3>3. QED
      BY <3>1, <3>2, GoodTransition
  <2> HIDE DEF on
  <2>4. Good(Execute(on), d) /\ Keeps(Execute(on), on) /\ Execute(on).state = "KR2"
    BY <2>3, GoodExecute
  <2>5. Keeps(Execute(on), c)
    BY <2>3, <2>4, KeepsTrans
  <2>6. r = Execute(on)
    BY <1>2 DEF Phase1Completed, on
  <2> HIDE DEF r
  <2>7. QED
    BY <2>4, <2>5, <2>6 DEF r
<1>3. CASE ~ (c.netPhase = FIRST /\ AllThrough(c, Keys, {FIRST}))
  <2>1. r \in {c, idle}
    BY <1>3 DEF Phase1Completed
  <2>2. Keeps(c, c)
    BY KeepsSelf
  <2> HIDE DEF r, idle
  <2>3. QED
    BY <1>1, <2>1, <2>2 DEF r
<1>4. QED
  BY <1>2, <1>3

\* mesh_key_refresh_continue, called during a refresh.
LEMMA GoodContinue ==
    ASSUME NEW c, NEW d, Good(c, d), ShortTable, c.netPhase # NORMAL,
           c.netPhase = FIRST => NoPhaseSets(c), InTime(Continue(c))
    PROVE  LET r == Continue(c)
           IN  /\ Good(r, d) /\ Keeps(r, c)
               /\ (r.state \in KrStates \/ (r.state = "IDLE" /\ r.netPhase = NORMAL))
<1> DEFINE r  == Continue(c)
           c1 == ContinueFirst(c)
           c2 == ContinueSecond(c1)
           on == Transition(c2, THIRD)
<1>1. /\ Good(c1, d) /\ Keeps(c1, c)
      /\ c.netPhase # FIRST => c1 = c
      /\ c.netPhase = FIRST => c1.state = "KR1" /\ c1.netPhase \in {FIRST, SECOND}
  BY GoodContinueFirst
<1> HIDE DEF c1
<1>2. /\ Good(c2, d) /\ Keeps(c2, c1)
      /\ c1.netPhase # SECOND => c2 = c1
      /\ c1.netPhase = SECOND => c2.state = "KR2" /\ c2.netPhase \in {SECOND, THIRD}
  BY <1>1, GoodContinueSecond
<1> HIDE DEF c2
<1>3. Keeps(c2, c)
  BY <1>1, <1>2, KeepsTrans
<1>4. CASE c2.netPhase # THIRD
  <2>1. c.netPhase \in Phases
    BY DEF Good, Sound, Client
  <2>2. c2.state \in KrStates
    BY <1>1, <1>2, <1>4, <2>1 DEF KrStates
  <2>3. r = c2
    BY <1>4 DEF Continue, c1, c2
  <2> HIDE DEF r
  <2>4. QED
    BY <1>2, <1>3, <2>2, <2>3 DEF r
<1>5. CASE c2.netPhase = THIRD
  <2>1. \A n \in Participants(c2) :
           /\ HasAll(c2, d[n], n)
           /\ \A i \in DOMAIN c2.queue : ~ IsUpdate(c2.queue[i], n)
           /\ c2.phase[<<NetKey, n>>] \in {THIRD, NORMAL} => d[n].phase = NORMAL
    BY <1>2, <1>5 DEF Good, RecordFits, UpdatesFit
  <2>2. /\ Good(on, d) /\ Keeps(on, c2) /\ on.netPhase = THIRD /\ on.phase = c2.phase
        /\ on.state = "KR3"
    BY <1>2, <1>5, <2>1, GoodTransition
  <2> HIDE DEF on
  <2>3. Keeps(on, c)
    BY <1>3, <2>2, KeepsTrans
  <2>4. CASE TransitionOps(c2, THIRD) = <<>>
    <3>1. r = Phase3Completed(on)
      BY <1>5, <2>4 DEF Continue, c1, c2, on
    <3>2. InTime(Phase3Completed(on))
      <4> HIDE DEF r
      <4>1. InTime(r)
        BY DEF r
      <4>2. QED
        BY <3>1, <4>1
    <3>3. AllThrough(on, {NetKey}, {THIRD, NORMAL})
      <4>1. \A n \in Staying(c2) : c2.phase[<<NetKey, n>>] \in {THIRD, NORMAL}
        BY <1>2, <2>4, PhaseSetsScheduled DEF Good
      <4>2. \A n \in Participants(on) : n \in Staying(c2)
        BY <2>2, ParticipantsStay DEF Keeps, Participants, Staying
      <4>3. \A s \in Slots : s[1] = NetKey => s = <<NetKey, s[2]>>
        BY ClientAssumption DEF Slots
      <4>4. QED
        BY <2>2, <4>1, <4>2, <4>3 DEF AllThrough
    <3>4. /\ Good(Phase3Completed(on), d) /\ Keeps(Phase3Completed(on), on)
          /\ \/ Phase3Completed(on).state = "KR1"
             \/ Phase3Completed(on).state = "IDLE" /\ Phase3Completed(on).netPhase = NORMAL
      BY <2>2, <3>2, <3>3, GoodPhase3Completed
    <3>5. Keeps(Phase3Completed(on), c)
      BY <2>3, <3>4, KeepsTrans
    <3> HIDE DEF r
    <3>6. QED
      BY <3>1, <3>4, <3>5 DEF r, KrStates
  <2>5. CASE TransitionOps(c2, THIRD) # <<>>
    <3>1. r = on
      BY <1>5, <2>5 DEF Continue, c1, c2, on
    <3> HIDE DEF r
    <3>2. QED
      BY <2>2, <2>3, <3>1 DEF r, KrStates
  <2>6. QED
    BY <2>4, <2>5
<1>6. QED
  BY <1>4, <1>5

-----------------------------------------------------------------------------
(* Good: recording what a node reports.  Two Node Resets for one node.      *)

\* Two Node Resets for m are pending.
TwoResets(c, m) ==
    \E i, j \in DOMAIN c.queue :
        /\ i # j
        /\ c.queue[i].kind = "NODE_RESET" /\ c.queue[i].dst = m
        /\ c.queue[j].kind = "NODE_RESET" /\ c.queue[j].dst = m

\* No step makes them two except the ones that say so.
NoNewResets(r, c) == \A m : TwoResets(r, m) => TwoResets(c, m)

\* Nothing that Keeps adds is a Node Reset.
LEMMA KeepsResets ==
    ASSUME NEW r, NEW c, Keeps(r, c)
    PROVE  NoNewResets(r, c)
<1>1. \A i \in DOMAIN r.queue : r.queue[i].kind = "NODE_RESET" =>
         i \in DOMAIN c.queue /\ r.queue[i] = c.queue[i]
  BY DEF Keeps
<1>2. QED
  BY <1>1 DEF NoNewResets, TwoResets

LEMMA TailResets ==
    ASSUME NEW r, NEW c, c.queue \in Seq(Op),
           r.queue = IF c.queue = <<>> THEN <<>> ELSE Tail(c.queue)
    PROVE  NoNewResets(r, c)
<1>1. CASE c.queue = <<>>
  BY <1>1 DEF NoNewResets, TwoResets
<1>2. CASE c.queue # <<>>
  <2>1. \A i \in DOMAIN r.queue :
           i \in Nat /\ i + 1 \in DOMAIN c.queue /\ r.queue[i] = c.queue[i + 1]
    BY <1>2, TailElements
  <2> SUFFICES ASSUME NEW m, TwoResets(r, m) PROVE TwoResets(c, m)
    BY DEF NoNewResets
  <2>2. PICK i \in DOMAIN r.queue, j \in DOMAIN r.queue :
        /\ i # j
        /\ r.queue[i].kind = "NODE_RESET" /\ r.queue[i].dst = m
        /\ r.queue[j].kind = "NODE_RESET" /\ r.queue[j].dst = m
    BY DEF TwoResets
  <2>3. i + 1 # j + 1 /\ i + 1 \in DOMAIN c.queue /\ j + 1 \in DOMAIN c.queue
    BY <2>1, <2>2
  <2>4. QED
    BY <2>1, <2>2, <2>3 DEF TwoResets
<1>3. QED
  BY <1>1, <1>2

LEMMA SelectResets ==
    ASSUME NEW r, NEW c, c.queue \in Seq(Op), NEW T \in SUBSET DOMAIN c.queue,
           r.queue = Select(c.queue, T)
    PROVE  NoNewResets(r, c)
<1>1. PICK f \in [DOMAIN r.queue -> T] :
             /\ \A j \in DOMAIN r.queue : r.queue[j] = c.queue[f[j]]
             /\ \A i, j \in DOMAIN r.queue : i < j => f[i] < f[j]
  BY SelectOrder
<1>2. r.queue \in Seq(Op)
  BY SelectType
<1> SUFFICES ASSUME NEW m, TwoResets(r, m) PROVE TwoResets(c, m)
  BY DEF NoNewResets
<1>3. PICK i \in DOMAIN r.queue, j \in DOMAIN r.queue :
        /\ i # j
        /\ r.queue[i].kind = "NODE_RESET" /\ r.queue[i].dst = m
        /\ r.queue[j].kind = "NODE_RESET" /\ r.queue[j].dst = m
  BY DEF TwoResets
<1>4. f[i] \in DOMAIN c.queue /\ f[j] \in DOMAIN c.queue /\ f[i] # f[j]
  <2>1. f[i] \in T /\ f[j] \in T /\ f[i] \in Nat /\ f[j] \in Nat
    BY <1>1
  <2>2. i < j \/ j < i
    BY <1>2, <1>3
  <2>3. f[i] < f[j] \/ f[j] < f[i]
    BY <1>1, <2>2
  <2>4. QED
    BY <2>1, <2>3
<1>5. QED
  BY <1>1, <1>3, <1>4 DEF TwoResets

LEMMA ResetsTrans ==
    ASSUME NEW a, NEW b, NEW c, NoNewResets(b, a), NoNewResets(c, b)
    PROVE  NoNewResets(c, a)
BY DEF NoNewResets

\* What recording a phase changes.
LEMMA SetPhaseFields ==
    ASSUME NEW c, c \in Client, NEW k, NEW m, NEW p
    PROVE  LET r == SetPhase(c, k, m, p)
           IN  /\ r.queue = c.queue /\ r.netPhase = c.netPhase /\ r.gen = c.gen
               /\ r.nodes = c.nodes /\ r.blocked = c.blocked /\ r.state = c.state
               /\ \A s \in Slots : r.phase[s] = IF s = <<k, m>> /\ m \in c.nodes THEN p
                                                ELSE c.phase[s]
<1> DEFINE ph == [s \in Slots |-> IF s = <<k, m>> /\ m \in c.nodes THEN p ELSE c.phase[s]]
<1>1. SetPhase(c, k, m, p) = [c EXCEPT !.phase = ph]
  BY DEF SetPhase, Client
<1>2. \A s \in Slots : ph[s] = IF s = <<k, m>> /\ m \in c.nodes THEN p ELSE c.phase[s]
  OBVIOUS
<1> HIDE DEF ph
<1>3. QED
  BY <1>1, <1>2 DEF Client

\* Recording the phase p for the key k of m, with reason.
LEMMA GoodSetPhase ==
    ASSUME NEW c, NEW d, Good(c, d), NEW k \in Keys, NEW m, NEW p \in Phases,
           m \in Participants(c) =>
               /\ c.netPhase # NORMAL
               /\ c.netPhase = FIRST => p = FIRST /\ HasKey(c, d[m], k)
               /\ c.netPhase = SECOND =>
                     \A i \in DOMAIN c.queue : ~ IsUpdate(c.queue[i], m)
               /\ c.netPhase = THIRD => d[m].phase = NORMAL
    PROVE  LET r == SetPhase(c, k, m, p)
           IN  /\ Good(r, d) /\ Keeps(r, c) /\ r.queue = c.queue /\ r.state = c.state
               /\ r.netPhase = c.netPhase /\ r.gen = c.gen
<1> DEFINE r == SetPhase(c, k, m, p)
<1>1. Sound(c) /\ c \in Client
  BY DEF Good, Sound
<1>2. Sound(r)
  BY <1>1, SoundSetPhase
<1>3. /\ r.queue = c.queue /\ r.netPhase = c.netPhase /\ r.gen = c.gen
      /\ r.nodes = c.nodes /\ r.blocked = c.blocked /\ r.state = c.state
      /\ \A s \in Slots : r.phase[s] = IF s = <<k, m>> /\ m \in c.nodes THEN p ELSE c.phase[s]
  BY <1>1, SetPhaseFields
<1> HIDE DEF r
<1>4. Staying(r) = Staying(c) /\ Participants(r) = Participants(c)
  BY <1>3 DEF Staying, Participants
<1>5. Aimed(r) /\ Keeps(r, c)
  BY <1>3, <1>4 DEF Good, Aimed, Keeps
<1>6. \A n \in Participants(r) : UpdatesFit(r, n) /\ RecordFits(r, d[n], n)
  <2>1. TAKE n \in Participants(r)
  <2>2. UpdatesFit(c, n) /\ RecordFits(c, d[n], n) /\ n \in Participants(c)
    BY <1>4 DEF Good
  <2>3. <<NetKey, n>> \in Slots /\ NetKey \in Keys
    BY <1>1, <2>2, ParticipantIsNode
  <2>4. HasAll(c, d[n], n) => HasAll(r, d[n], n)
    BY <1>3 DEF HasAll, HasKey
  <2>5. \A j \in Keys : HasKey(r, d[n], j) <=> HasKey(c, d[n], j)
    BY <1>3 DEF HasKey
  <2>6. CASE n # m
    <3>1. \A j \in Keys : <<j, n>> \in Slots => r.phase[<<j, n>>] = c.phase[<<j, n>>]
      BY <1>3, <2>6
    <3>2. UpdatesFit(r, n)
      BY <1>3, <2>2, <2>3, <3>1 DEF UpdatesFit
    <3>3. RecordFits(r, d[n], n)
      BY <1>3, <2>2, <2>3, <2>4, <2>5, <3>1 DEF RecordFits
    <3>4. QED
      BY <3>2, <3>3
  <2>7. CASE n = m
    <3>1. \A j \in Keys : <<j, n>> \in Slots =>
             r.phase[<<j, n>>] = c.phase[<<j, n>>] \/ (j = k /\ r.phase[<<j, n>>] = p)
      BY <1>3
    <3>2. UpdatesFit(r, n)
      BY <1>3, <2>2, <2>3, <2>7, <3>1 DEF UpdatesFit
    <3>3. c.netPhase \in Phases
      BY <1>1 DEF Client
    <3>4. RecordFits(r, d[n], n)
      BY <1>3, <2>2, <2>3, <2>4, <2>5, <2>7, <3>1, <3>3 DEF RecordFits
    <3>5. QED
      BY <3>2, <3>4
  <2>8. QED
    BY <2>6, <2>7
<1>7. QED
  BY <1>2, <1>3, <1>5, <1>6 DEF Good, r

\* What recording a key changes.
LEMMA AddKeyFields ==
    ASSUME NEW c, c \in Client, NEW k, NEW m
    PROVE  LET r == AddKey(c, k, m)
           IN  /\ r.queue = c.queue /\ r.netPhase = c.netPhase /\ r.gen = c.gen
               /\ r.nodes = c.nodes /\ r.blocked = c.blocked /\ r.state = c.state
               /\ \A s \in Slots : r.phase[s] =
                     IF s = <<k, m>> /\ m \in c.nodes /\ c.phase[s] = NORMAL THEN FIRST
                     ELSE c.phase[s]
<1> DEFINE ph == [s \in Slots |-> IF s = <<k, m>> /\ m \in c.nodes /\ c.phase[s] = NORMAL
                                  THEN FIRST ELSE c.phase[s]]
<1>1. AddKey(c, k, m) = [c EXCEPT !.phase = ph]
  BY DEF AddKey, Client
<1>2. \A s \in Slots : ph[s] = IF s = <<k, m>> /\ m \in c.nodes /\ c.phase[s] = NORMAL
                               THEN FIRST ELSE c.phase[s]
  OBVIOUS
<1> HIDE DEF ph
<1>3. QED
  BY <1>1, <1>2 DEF Client

\* A node confirms a key outside the states of the refresh.
LEMMA GoodAddKey ==
    ASSUME NEW c, NEW d, Good(c, d), NEW k \in Keys, NEW m,
           m \in Participants(c) => c.netPhase \in {FIRST, SECOND} /\ HasKey(c, d[m], k)
    PROVE  LET r == AddKey(c, k, m)
           IN  /\ Good(r, d) /\ Keeps(r, c) /\ r.queue = c.queue /\ r.state = c.state
               /\ r.netPhase = c.netPhase /\ r.gen = c.gen
<1> DEFINE r == AddKey(c, k, m)
<1>1. Sound(c) /\ c \in Client
  BY DEF Good, Sound
<1>2. Sound(r)
  BY <1>1, SoundAddKey
<1>3. /\ r.queue = c.queue /\ r.netPhase = c.netPhase /\ r.gen = c.gen
      /\ r.nodes = c.nodes /\ r.blocked = c.blocked /\ r.state = c.state
      /\ \A s \in Slots : r.phase[s] =
            IF s = <<k, m>> /\ m \in c.nodes /\ c.phase[s] = NORMAL THEN FIRST ELSE c.phase[s]
  BY <1>1, AddKeyFields
<1> HIDE DEF r
<1>4. Staying(r) = Staying(c) /\ Participants(r) = Participants(c)
  BY <1>3 DEF Staying, Participants
<1>5. Aimed(r) /\ Keeps(r, c)
  BY <1>3, <1>4 DEF Good, Aimed, Keeps
<1>6. \A n \in Participants(r) : UpdatesFit(r, n) /\ RecordFits(r, d[n], n)
  <2>1. TAKE n \in Participants(r)
  <2>2. UpdatesFit(c, n) /\ RecordFits(c, d[n], n) /\ n \in Participants(c)
    BY <1>4 DEF Good
  <2>3. <<NetKey, n>> \in Slots /\ NetKey \in Keys
    BY <1>1, <2>2, ParticipantIsNode
  <2>4. HasAll(c, d[n], n) => HasAll(r, d[n], n)
    BY <1>3 DEF HasAll, HasKey
  <2>5. \A j \in Keys : HasKey(r, d[n], j) <=> HasKey(c, d[n], j)
    BY <1>3 DEF HasKey
  <2>6. CASE n # m
    <3>1. \A j \in Keys : <<j, n>> \in Slots => r.phase[<<j, n>>] = c.phase[<<j, n>>]
      BY <1>3, <2>6
    <3>2. UpdatesFit(r, n)
      BY <1>3, <2>2, <2>3, <3>1 DEF UpdatesFit
    <3>3. RecordFits(r, d[n], n)
      BY <1>3, <2>2, <2>3, <2>4, <2>5, <3>1 DEF RecordFits
    <3>4. QED
      BY <3>2, <3>3
  <2>7. CASE n = m
    <3>1. \A j \in Keys : <<j, n>> \in Slots =>
             r.phase[<<j, n>>] = c.phase[<<j, n>>] \/ (j = k /\ r.phase[<<j, n>>] = FIRST)
      BY <1>3
    <3>2. UpdatesFit(r, n)
      BY <1>3, <2>2, <2>3, <2>7, <3>1 DEF UpdatesFit
    <3>3. RecordFits(r, d[n], n)
      BY <1>3, <2>2, <2>3, <2>4, <2>5, <2>7, <3>1 DEF RecordFits
    <3>4. QED
      BY <3>2, <3>3
  <2>8. QED
    BY <2>6, <2>7
<1>7. QED
  BY <1>2, <1>3, <1>5, <1>6 DEF Good, r

-----------------------------------------------------------------------------
(* Good: mesh_reset_node. *)

\* Giving up what is pending for a node.
LEMMA CleanResets ==
    ASSUME NEW c, c \in Client, NEW n
    PROVE  LET r == Clean(c, n)
           IN  /\ NoNewResets(r, c) /\ SameRecord(r, c) /\ r.state = c.state
               /\ r.queue \in Seq(Op)
<1> DEFINE r == Clean(c, n)
           T == {i \in DOMAIN c.queue : c.queue[i].dst # n}
<1>1. c.queue \in Seq(Op)
  BY DEF Client
<1>2. r.queue = Select(c.queue, T) /\ T \in SUBSET DOMAIN c.queue
      /\ SameRecord(r, c) /\ r.state = c.state
  <2>1. T \in SUBSET DOMAIN c.queue
    OBVIOUS
  <2>2. QED
    BY <2>1, CleanFields
<1> HIDE DEF T, r
<1>3. NoNewResets(r, c)
  BY <1>1, <1>2, SelectResets
<1>4. r.queue \in Seq(Op)
  BY <1>1, <1>2, SelectType
<1>5. QED
  BY <1>2, <1>3, <1>4 DEF r

\* A node is blocked; nothing is pending for it.
LEMMA GoodBlocked ==
    ASSUME NEW c, NEW d, Good(c, d), NEW m \in Nodes \ {Local},
           \A i \in DOMAIN c.queue : c.queue[i].dst # m
    PROVE  LET r == [c EXCEPT !.retries = 0, !.blocked = @ \cup {m}]
           IN  /\ Good(r, d) /\ Staying(r) = Staying(c) \ {m} /\ SameRecord(r, c)
               /\ r.queue = c.queue /\ r.state = c.state /\ m \in r.blocked
<1> DEFINE B == c.blocked \cup {m}
           r == [c EXCEPT !.retries = 0, !.blocked = B]
<1>1. /\ Sound(c) /\ c \in Client /\ Local \in c.nodes /\ (c.netPhase # NORMAL => c.gen > 0)
      /\ c.queue \in Seq(SafeOps(c.blocked))
  BY DEF Good, Sound
<1>2. B \in SUBSET Nodes /\ Local \notin B /\ m \in B /\ c.nodes \ B = Staying(c) \ {m}
  BY <1>1 DEF Sound, Client, Staying
<1>3. c.queue \in Seq(SafeOps(B))
  <2>1. \A i \in DOMAIN c.queue : c.queue[i] \in SafeOps(B)
    BY <1>1 DEF SafeOps
  <2> HIDE DEF B
  <2>2. QED
    BY <1>1, <2>1, SeqOver
<1> HIDE DEF B
<1>4. /\ r \in Client /\ SameRecord(r, c) /\ r.nodes = c.nodes /\ r.blocked = B
      /\ r.queue = c.queue /\ r.state = c.state
  BY <1>1, <1>2, RetriesRange DEF Client, SameRecord
<1>5. r = [c EXCEPT !.retries = 0, !.blocked = @ \cup {m}]
  BY <1>1 DEF B, Client
<1> HIDE DEF r
<1>6. Sound(r)
  BY <1>1, <1>2, <1>3, <1>4 DEF Sound, SameRecord
<1>7. Staying(r) = Staying(c) \ {m}
  BY <1>2, <1>4 DEF Staying
<1>8. Aimed(r)
  BY <1>4, <1>7 DEF Good, Aimed
<1>9. \A n \in Participants(r) : UpdatesFit(r, n) /\ RecordFits(r, d[n], n)
  <2>1. TAKE n \in Participants(r)
  <2>2. n \in Participants(c)
    BY <1>7 DEF Participants, Staying
  <2>3. UpdatesFit(c, n) /\ RecordFits(c, d[n], n)
    BY <2>2 DEF Good
  <2>4. RecordFits(r, d[n], n)
    BY <1>4, <2>3, SameRecordFits
  <2>5. UpdatesFit(r, n)
    BY <1>4, <2>3 DEF UpdatesFit, SameRecord
  <2>6. QED
    BY <2>4, <2>5
<1>10. Good(r, d) /\ Staying(r) = Staying(c) \ {m} /\ SameRecord(r, c)
       /\ r.queue = c.queue /\ r.state = c.state /\ m \in r.blocked
  BY <1>2, <1>4, <1>6, <1>7, <1>8, <1>9 DEF Good
<1>11. QED
  BY <1>5, <1>10

\* mesh_reset_node
LEMMA GoodResetNode ==
    ASSUME NEW c, NEW d, Good(c, d), ShortTable, NEW n \in Nodes \ {Local},
           c.state = "IDLE", InTime(c), InTime(ResetNode(c, n))
    PROVE  LET r == ResetNode(c, n)
           IN  /\ Good(r, d) /\ Staying(r) = Staying(c) \ {n} /\ ~ Quiet(r)
               /\ NoNewResets(r, c)
               /\ c.queue # <<>> /\ Head(c.queue).dst # n =>
                     r.queue # <<>> /\ Head(r.queue) = Head(c.queue)
               /\ r.state \in KrStates \cup {"IDLE"}
<1> DEFINE r  == ResetNode(c, n)
           a  == Clean(c, n)
           b  == [a EXCEPT !.retries = 0, !.blocked = @ \cup {n}]
           c1 == Enqueue(b, <<NodeReset(n)>>)
           k  == [c1 EXCEPT !.state = "KR1"]
           c2 == IF c1.netPhase = NORMAL THEN UpdateKeys(k) ELSE c1
           e  == Continue(c2)
<1>1. Sound(c) /\ c \in Client /\ c.queue \in Seq(Op) /\ Aimed(c)
  BY DEF Good, Sound, Client
<1>2. /\ Good(a, d) /\ Staying(a) = Staying(c) /\ SameRecord(a, c) /\ a.queue \in Seq(Op)
      /\ a.state = "IDLE"
      /\ \A i \in DOMAIN a.queue :
            a.queue[i].dst # n /\ \E j \in DOMAIN c.queue : a.queue[i] = c.queue[j]
      /\ c.queue # <<>> /\ Head(c.queue).dst # n =>
            a.queue # <<>> /\ Head(a.queue) = Head(c.queue)
      /\ NoNewResets(a, c)
  BY <1>1, GoodClean, CleanResets
<1> HIDE DEF a
<1>3. /\ Good(b, d) /\ Staying(b) = Staying(c) \ {n} /\ SameRecord(b, c)
      /\ b.queue = a.queue /\ n \in b.blocked /\ b.state = "IDLE"
  <2>1. /\ Good(b, d) /\ Staying(b) = Staying(a) \ {n} /\ SameRecord(b, a)
        /\ b.queue = a.queue /\ n \in b.blocked /\ b.state = a.state
    BY <1>2, GoodBlocked
  <2>2. QED
    BY <1>2, <2>1 DEF SameRecord
<1> HIDE DEF b
<1>4. /\ Good(c1, d) /\ Staying(c1) = Staying(b) /\ SameRecord(c1, c)
      /\ c1.queue = a.queue \o <<NodeReset(n)>> /\ c1.state = "IDLE"
  <2>1. NodeReset(n) \in SafeOps(b.blocked) /\ n \notin Staying(b)
    BY <1>3, ClientAssumption DEF NodeReset, SafeOps, Op, OpKinds, Keys, Staying
  <2>2. NodeReset(n).kind = "NODE_RESET" /\ NodeReset(n).dst = n
    BY DEF NodeReset
  <2>3. /\ Good(c1, d) /\ Staying(c1) = Staying(b) /\ SameRecord(c1, b)
        /\ c1.queue = b.queue \o <<NodeReset(n)>> /\ c1.state = b.state
    BY <1>3, <2>1, <2>2, GoodEnqueue
  <2>4. QED
    BY <1>3, <2>3 DEF SameRecord
<1> HIDE DEF c1
<1>5. /\ DOMAIN a.queue \subseteq DOMAIN c1.queue
      /\ \A i \in DOMAIN a.queue : c1.queue[i] = a.queue[i]
      /\ \A i \in DOMAIN c1.queue : i \in DOMAIN a.queue \/ i = Len(a.queue) + 1
      /\ \A i \in DOMAIN c1.queue : i \notin DOMAIN a.queue => c1.queue[i] = NodeReset(n)
      /\ a.queue # <<>> => 1 \in DOMAIN a.queue /\ a.queue[1] = Head(a.queue)
  <2>1. NodeReset(n) \in Op
    BY ClientAssumption DEF NodeReset, Op, OpKinds, Keys
  <2>2. QED
    BY <1>2, <1>4, <2>1
<1>6. NoNewResets(c1, c)
  <2> SUFFICES ASSUME NEW m, TwoResets(c1, m) PROVE TwoResets(c, m)
    BY DEF NoNewResets
  <2>1. PICK i \in DOMAIN c1.queue, j \in DOMAIN c1.queue :
          /\ i # j
          /\ c1.queue[i].kind = "NODE_RESET" /\ c1.queue[i].dst = m
          /\ c1.queue[j].kind = "NODE_RESET" /\ c1.queue[j].dst = m
    BY DEF TwoResets
  <2>2. i \in DOMAIN a.queue /\ j \in DOMAIN a.queue
    <3>1. NodeReset(n).dst = n
      BY DEF NodeReset
    <3>2. QED
      BY <1>2, <1>5, <2>1, <3>1
  <2>3. TwoResets(a, m)
    BY <1>5, <2>1, <2>2 DEF TwoResets
  <2>4. QED
    BY <1>2, <2>3 DEF NoNewResets
<1>7. /\ Good(c2, d) /\ Keeps(c2, c1) /\ c2.netPhase # NORMAL
      /\ c.netPhase # NORMAL => c2.netPhase = c.netPhase
      /\ c.netPhase = NORMAL => c2.netPhase = FIRST
      /\ c2.queue = c1.queue /\ Matches(c2)
  <2>1. CASE c.netPhase = NORMAL
    <3>1. Good(k, d) /\ Keeps(k, c1) /\ k.netPhase = NORMAL /\ k.queue = c1.queue
          /\ k.state = "KR1"
      BY <1>4, <2>1, GoodState DEF ClientStates, SameRecord
    <3> HIDE DEF k
    <3>2. /\ Good(UpdateKeys(k), d) /\ Keeps(UpdateKeys(k), k)
          /\ UpdateKeys(k).netPhase = FIRST /\ UpdateKeys(k).queue = c1.queue
          /\ UpdateKeys(k).state = "KR1"
      BY <3>1, GoodUpdateKeys
    <3>3. c2 = UpdateKeys(k)
      BY <1>4, <2>1 DEF SameRecord
    <3>4. Keeps(UpdateKeys(k), c1)
      BY <3>1, <3>2, KeepsTrans
    <3> HIDE DEF c2
    <3>5. QED
      BY <2>1, <3>2, <3>3, <3>4 DEF Matches
  <2>2. CASE c.netPhase # NORMAL
    <3>1. c2 = c1 /\ c1.netPhase = c.netPhase
      BY <1>4, <2>2 DEF SameRecord
    <3> HIDE DEF c2
    <3>2. QED
      BY <1>4, <2>2, <3>1, KeepsSelf DEF Matches
  <2>3. QED
    BY <2>1, <2>2
<1> HIDE DEF c2
<1>8. c2.netPhase = FIRST => NoPhaseSets(c2)
  <2> SUFFICES ASSUME c2.netPhase = FIRST, NEW p \in Participants(c2),
                      NEW i \in DOMAIN c2.queue, IsPhaseSet(c2.queue[i], p)
               PROVE  FALSE
    BY DEF NoPhaseSets
  <2>1. c.netPhase \in {NORMAL, FIRST}
    BY <1>1, <1>7 DEF Client
  <2>2. NoPhaseSets(c)
    BY <1>1, <2>1, NothingInTime
  <2>3. p \in Participants(c)
    BY <1>3, <1>4, <1>7 DEF Keeps, Participants, Staying
  <2>4. i \in DOMAIN a.queue /\ c2.queue[i] = a.queue[i]
    BY <1>5, <1>7 DEF NodeReset, IsPhaseSet
  <2>5. QED
    BY <1>2, <2>2, <2>3, <2>4 DEF NoPhaseSets
<1>9. r = Execute(e)
  BY Zenon DEF ResetNode, c2, k, c1, b, a
<1>10. e \in Client /\ InTime(e)
  <2>1. e \in Client
    BY <1>7, SoundContinue DEF Good, Sound
  <2> HIDE DEF e
  <2>2. QED
    BY <1>9, <2>1, InTimeExecute
<1>11. /\ Good(e, d) /\ Keeps(e, c2)
       /\ (e.state \in KrStates \/ (e.state = "IDLE" /\ e.netPhase = NORMAL))
  BY <1>7, <1>8, <1>10, GoodContinue
<1> HIDE DEF e, r
<1>12. /\ Good(r, d) /\ Keeps(r, e) /\ SameRecord(r, e) /\ r.state = e.state
       /\ r.queue = e.queue
  BY <1>9, <1>11, GoodExecute
<1>13. Keeps(r, c1)
  BY <1>7, <1>11, <1>12, KeepsTrans
<1>14. Staying(r) = Staying(c) \ {n}
  BY <1>3, <1>4, <1>13 DEF Keeps
<1>15. ~ Quiet(r) /\ r.state \in KrStates \cup {"IDLE"}
  BY <1>11, <1>12 DEF Quiet, SameRecord, KrStates
<1>16. NoNewResets(r, c)
  BY <1>6, <1>13, KeepsResets, ResetsTrans
<1>17. c.queue # <<>> /\ Head(c.queue).dst # n => r.queue # <<>> /\ Head(r.queue) = Head(c.queue)
  <2> SUFFICES ASSUME c.queue # <<>>, Head(c.queue).dst # n
               PROVE  r.queue # <<>> /\ Head(r.queue) = Head(c.queue)
    OBVIOUS
  <2>1. /\ 1 \in DOMAIN a.queue /\ a.queue[1] = Head(c.queue)
        /\ 1 \in DOMAIN c1.queue /\ c1.queue[1] = Head(c.queue)
    BY <1>2, <1>5
  <2>2. 1 \in DOMAIN r.queue /\ r.queue[1] = Head(c.queue)
    BY <1>13, <2>1 DEF Keeps
  <2>3. r.queue \in Seq(Op)
    BY <1>12 DEF Good, Sound, Client
  <2>4. QED
    BY <2>2, <2>3
<1>18. QED
  BY <1>12, <1>14, <1>15, <1>16, <1>17 DEF r

-----------------------------------------------------------------------------
(* Good: going on after an answer, and after a message that failed. *)

\* The completion of a phase whose queue is empty.
LEMMA GoodPhaseCompleted ==
    ASSUME NEW c, NEW d, Good(c, d), NEW kr \in KrStates, c.queue = <<>>,
           c.state \in {kr, "IDLE"},
           kr = "KR2" => c.netPhase = SECOND,
           ShortTable, InTime(PhaseCompleted(c, kr))
    PROVE  LET r == PhaseCompleted(c, kr)
           IN  Good(r, d) /\ Keeps(r, c) /\ ~ Quiet(r)
<1>1. CASE kr = "KR1"
  <2>1. PhaseCompleted(c, kr) = Phase1Completed(c)
    BY <1>1 DEF PhaseCompleted
  <2>2. QED
    BY <1>1, <2>1, GoodPhase1Completed DEF Quiet
<1>2. CASE kr = "KR2"
  <2>1. PhaseCompleted(c, kr) = Phase2Completed(c)
    BY <1>2 DEF PhaseCompleted
  <2>2. QED
    BY <1>2, <2>1, GoodPhase2Completed DEF Quiet
<1>3. CASE kr = "KR3"
  <2>1. PhaseCompleted(c, kr) = Phase3Completed(c)
    BY <1>3 DEF PhaseCompleted
  <2>2. QED
    BY <1>3, <2>1, GoodPhase3Completed DEF Quiet
<1>4. QED
  BY <1>1, <1>2, <1>3 DEF KrStates

\* Dropping the head and, if it was the last, completing the phase.
LEMMA GoodNextOrDone ==
    ASSUME NEW c, NEW d, Good(c, d), Matches(c), c.state \in KrStates, ShortTable,
           InTime(IfDone(StartNextOp(c), c.state))
    PROVE  LET r == IfDone(StartNextOp(c), c.state)
           IN  /\ Good(r, d) /\ Staying(r) = Staying(c) /\ ~ Quiet(r) /\ NoNewResets(r, c)
<1> DEFINE s == StartNextOp(c)
           r == IfDone(s, c.state)
<1>1. c \in Client /\ c.queue \in Seq(Op)
  BY DEF Good, Sound, Client
<1>2. Good(s, d) /\ Staying(s) = Staying(c)
  BY GoodStartNextOp
<1>3. /\ s.queue = (IF c.queue = <<>> THEN <<>> ELSE Tail(c.queue))
      /\ SameRecord(s, c)
      /\ s.state = IF s.queue = <<>> /\ c.state \notin {"KR1", "KR2"} THEN "IDLE" ELSE c.state
  BY <1>1, StartNextOpFields
<1>4. InTime(IfDone(s, c.state))
  OBVIOUS
<1> HIDE DEF s
<1>5. NoNewResets(s, c)
  BY <1>1, <1>3, TailResets
<1>6. CASE s.queue # <<>>
  <2>1. r = s /\ s.state = c.state
    BY <1>3, <1>6 DEF IfDone
  <2>2. ~ Quiet(s)
    BY <2>1 DEF Quiet, KrStates
  <2> HIDE DEF r
  <2>3. QED
    BY <1>2, <1>5, <2>1, <2>2 DEF r, s
<1>7. CASE s.queue = <<>>
  <2>1. r = PhaseCompleted(s, c.state)
    BY <1>7 DEF IfDone
  <2>2. /\ s.state \in {c.state, "IDLE"}
        /\ c.state = "KR2" => s.netPhase = SECOND
    BY <1>3 DEF Matches, SameRecord
  <2>3. InTime(PhaseCompleted(s, c.state))
    BY <1>4, <2>1
  <2>4. Good(r, d) /\ Keeps(r, s) /\ ~ Quiet(r)
    BY <1>2, <1>7, <2>1, <2>2, <2>3, GoodPhaseCompleted
  <2> HIDE DEF r
  <2>5. Staying(r) = Staying(c) /\ NoNewResets(r, c)
    BY <1>2, <1>5, <2>4, KeepsResets, ResetsTrans DEF Keeps
  <2>6. QED
    BY <2>4, <2>5 DEF r, s
<1>8. QED
  BY <1>6, <1>7

\* An unexpected status with nothing pending takes the refresh up again.
LEMMA GoodUnexpected ==
    ASSUME NEW c, NEW d, Good(c, d), c.state = "IDLE", c.netPhase # NORMAL, c.queue = <<>>,
           ShortTable, InTime(Unexpected(c))
    PROVE  LET r == Unexpected(c)
           IN  /\ Good(r, d) /\ Staying(r) = Staying(c) /\ ~ Quiet(r) /\ NoNewResets(r, c)
<1> DEFINE s == StartNextOp(c)
           e == Continue(s)
           r == Unexpected(c)
<1>1. c \in Client /\ c.queue \in Seq(Op)
  BY DEF Good, Sound, Client
<1>2. Good(s, d) /\ Staying(s) = Staying(c)
  BY GoodStartNextOp
<1>3. s.queue = <<>> /\ SameRecord(s, c) /\ s.state = "IDLE"
  BY <1>1, StartNextOpFields
<1>4. r = Execute(IF s.queue = <<>> THEN Continue(s) ELSE s)
  BY DEF Unexpected
<1> HIDE DEF s
<1>5. r = Execute(e)
  BY <1>3, <1>4
<1>6. s.netPhase # NORMAL /\ NoPhaseSets(s) /\ Matches(s)
  BY <1>3 DEF SameRecord, NoPhaseSets, Matches
<1>7. InTime(e)
  <2>1. e \in Client
    BY <1>2, <1>6, SoundContinue DEF Good, Sound
  <2>2. InTime(Execute(e))
    BY <1>5
  <2> HIDE DEF e
  <2>3. QED
    BY <2>1, <2>2, InTimeExecute
<1>8. /\ Good(e, d) /\ Keeps(e, s)
      /\ (e.state \in KrStates \/ (e.state = "IDLE" /\ e.netPhase = NORMAL))
  BY <1>2, <1>6, <1>7, GoodContinue
<1> HIDE DEF e, r
<1>9. /\ Good(r, d) /\ Keeps(r, e) /\ SameRecord(r, e) /\ r.state = e.state
  BY <1>5, <1>8, GoodExecute
<1>10. Keeps(r, s)
  BY <1>8, <1>9, KeepsTrans
<1>11. NoNewResets(r, c)
  <2>1. NoNewResets(r, s)
    BY <1>10, KeepsResets
  <2>2. NoNewResets(s, c)
    BY <1>3 DEF NoNewResets, TwoResets
  <2>3. QED
    BY <2>1, <2>2, ResetsTrans
<1>12. ~ Quiet(r)
  BY <1>8, <1>9 DEF Quiet, SameRecord, KrStates
<1>13. Staying(r) = Staying(c)
  BY <1>2, <1>10 DEF Keeps
<1>14. QED
  BY <1>9, <1>11, <1>12, <1>13 DEF r

\* mesh_provision_process_event, TX_COMPLETE
LEMMA GoodOnTxFailed ==
    ASSUME NEW c, NEW d, Good(c, d), Matches(c), ShortTable, ~ ClientControl, NEW dst,
           InTime(OnTxFailed(c, dst))
    PROVE  LET r == OnTxFailed(c, dst)
           IN  /\ Good(r, d) /\ Staying(r) = Staying(c) /\ NoNewResets(r, c)
               /\ r = c \/ ~ Quiet(r)
<1> DEFINE r  == OnTxFailed(c, dst)
           c1 == Clean(c, dst)
           z  == [c1 EXCEPT !.state = "IDLE"]
<1>1. c \in Client
  BY DEF Good, Sound
<1>2. CASE c.state \notin KrStates
  <2>1. r = c
    BY <1>2 DEF OnTxFailed
  <2>2. QED
    BY <2>1 DEF NoNewResets
<1>3. CASE c.state = "KR1"
  <2>1. Good(c1, d) /\ Staying(c1) = Staying(c)
    BY GoodClean
  <2>2. NoNewResets(c1, c) /\ SameRecord(c1, c) /\ c1.state = "KR1"
    BY <1>1, <1>3, CleanResets
  <2>3. r = IF c1.queue # <<>> THEN Execute(c1) ELSE Phase1Completed(z)
    BY <1>3 DEF OnTxFailed, KrTxFailed, KrStates
  <2> HIDE DEF c1
  <2>4. CASE c1.queue # <<>>
    <3>1. r = Execute(c1)
      BY <2>3, <2>4
    <3>2. Good(Execute(c1), d) /\ Keeps(Execute(c1), c1) /\ Execute(c1).state = c1.state
      BY <2>1, GoodExecute
    <3> HIDE DEF r
    <3>3. Good(r, d) /\ Keeps(r, c1) /\ r.state = "KR1"
      BY <2>2, <3>1, <3>2
    <3>4. Staying(r) = Staying(c) /\ NoNewResets(r, c) /\ ~ Quiet(r)
      BY <2>1, <2>2, <3>3, KeepsResets, ResetsTrans DEF Keeps, Quiet
    <3>5. QED
      BY <3>3, <3>4 DEF r
  <2>5. CASE c1.queue = <<>>
    <3>1. r = Phase1Completed(z)
      BY <2>3, <2>5
    <3>2. Good(z, d) /\ Keeps(z, c1) /\ z.queue = <<>> /\ z.state = "IDLE"
      BY <2>1, <2>5, GoodState DEF ClientStates
    <3> HIDE DEF z
    <3>3. /\ Good(Phase1Completed(z), d) /\ Keeps(Phase1Completed(z), z)
          /\ \/ Phase1Completed(z).state = "KR2"
             \/ Phase1Completed(z).state = "IDLE" /\ Phase1Completed(z).queue = <<>>
      BY <3>2, GoodPhase1Completed
    <3> HIDE DEF r
    <3>4. Good(r, d) /\ Keeps(r, z) /\ ~ Quiet(r)
      BY <3>1, <3>3 DEF Quiet
    <3>5. Keeps(r, c1)
      BY <3>2, <3>4, KeepsTrans
    <3>6. Staying(r) = Staying(c) /\ NoNewResets(r, c)
      BY <2>1, <2>2, <3>5, KeepsResets, ResetsTrans DEF Keeps
    <3>7. QED
      BY <3>4, <3>6 DEF r
  <2>6. QED
    BY <2>4, <2>5
<1>4. CASE c.state \in {"KR2", "KR3"}
  <2>1. r = IfDone(StartNextOp(c), c.state)
    BY <1>4 DEF OnTxFailed, KrTxFailed, KrStates
  <2>2. InTime(IfDone(StartNextOp(c), c.state))
    BY <2>1
  <2>3. c.state \in KrStates
    BY <1>4 DEF KrStates
  <2>4. QED
    BY <2>1, <2>2, <2>3, GoodNextOrDone
<1>5. QED
  BY <1>2, <1>3, <1>4 DEF KrStates

-----------------------------------------------------------------------------
(* What the handlers do to a true answer: Handled. *)

\* While Counts holds of a status, a handler may drop the head for it: outside
\* Quiet only that of a node that stays or of the proxy filter.
Counts(c, st) == Quiet(c) \/ st.kind = "FILTER_ADD" \/ st.src \in Staying(c)

\* st is an answer to the operation at the head.
AnswersHead(c, st) == c.queue # <<>> /\ Answers(st, Head(c.queue))

\* What an answer reports is true of the device e.
TrueAnswer(c, e, st) ==
    st.ok => /\ st.kind = "KEY_UPDATE" => HasKey(c, e, st.key)
             /\ st.kind = "KR_PHASE_SET" /\ c.netPhase = THIRD => e.phase = NORMAL

\* A status that reaches the client c.
Timely(c, d, st) ==
    /\ st \in Status
    /\ Counts(c, st) => AnswersHead(c, st)
    /\ st.src \in Participants(c) => TrueAnswer(c, d[st.src], st)

\* Nothing was dropped, and the refresh is where it was.
Kept(r, c) == r.queue = c.queue /\ r.netPhase = c.netPhase /\ r.gen = c.gen

\* mesh_configure_phase_status took a phase status for the answer to a Node Reset.
Mistaken(r, c, st) ==
    /\ ~ Quiet(c) /\ c.queue # <<>> /\ r.queue = Tail(c.queue)
    /\ st.kind = "KR_PHASE_SET"
    /\ Head(c.queue).kind = "NODE_RESET" /\ Head(c.queue).dst = st.src

\* The result of handling st.
Handled(r, c, d, st) ==
    /\ Good(r, d) /\ Staying(r) = Staying(c)
    /\ c.state # "NETWORK_CONNECT" => NoNewResets(r, c)
    /\ Quiet(r) => Quiet(c)
    /\ Kept(r, c) \/ c.queue = <<>> \/ AnswersHead(c, st) \/ Mistaken(r, c, st)

\* The operation that a participant's status answers.
LEMMA AnsweredOp ==
    ASSUME NEW c, NEW d, Good(c, d), InTime(c), NEW st, Timely(c, d, st),
           st.src \in Participants(c)
    PROVE  /\ AnswersHead(c, st) /\ st.key \in Keys
           /\ st.kind = "KEY_UPDATE" => c.netPhase \in {FIRST, SECOND}
           /\ st.kind = "KR_PHASE_SET" =>
                 /\ st.key = NetKey /\ c.netPhase \in {SECOND, THIRD}
                 /\ \A i \in DOMAIN c.queue : ~ IsUpdate(c.queue[i], st.src)
           /\ st.ok /\ st.kind = "KEY_UPDATE" => HasKey(c, d[st.src], st.key)
           /\ st.ok /\ st.kind = "KR_PHASE_SET" /\ c.netPhase = THIRD => d[st.src].phase = NORMAL
<1> DEFINE m == st.src
           o == c.queue[1]
<1>1. AnswersHead(c, st) /\ st.key \in Keys
  BY DEF Timely, Counts, Participants, Staying, Status
<1>2. c.queue \in Seq(Op) /\ c.queue # <<>> /\ Answers(st, o) /\ 1 \in DOMAIN c.queue
      /\ DOMAIN c.queue \subseteq Nat /\ \A i \in DOMAIN c.queue : i >= 1
  <2>1. c.queue \in Seq(Op)
    BY DEF Good, Sound, Client
  <2>2. c.queue # <<>> /\ Answers(st, Head(c.queue))
    BY <1>1 DEF AnswersHead
  <2>3. QED
    BY <2>1, <2>2
<1>3. st.kind # "FILTER_ADD" => o.dst = m /\ o.kind = st.kind /\ o.key = st.key
  BY <1>2 DEF Answers
<1>4. st.kind = "KEY_UPDATE" => c.netPhase \in {FIRST, SECOND}
  BY <1>2, <1>3 DEF Good, UpdatesFit, IsUpdate
<1>5. st.kind = "KR_PHASE_SET" =>
         /\ st.key = NetKey /\ c.netPhase \in {SECOND, THIRD}
         /\ \A i \in DOMAIN c.queue : ~ IsUpdate(c.queue[i], m)
  <2> SUFFICES ASSUME st.kind = "KR_PHASE_SET"
               PROVE  /\ st.key = NetKey /\ c.netPhase \in {SECOND, THIRD}
                      /\ \A i \in DOMAIN c.queue : ~ IsUpdate(c.queue[i], m)
    OBVIOUS
  <2>1. o.kind = "KR_PHASE_SET" /\ o.dst = m /\ o.key = st.key
    BY <1>3
  <2>2. o.key = NetKey /\ o.val \in {SECOND, THIRD}
    BY <1>2, <2>1 DEF Good, Aimed
  <2>3. o.val = c.netPhase
    BY <1>2, <2>1 DEF InTime
  <2>4. ASSUME NEW i \in DOMAIN c.queue, IsUpdate(c.queue[i], m) PROVE FALSE
    <3>1. i # 1
      BY <2>1, <2>4 DEF IsUpdate
    <3>2. 1 < i
      BY <1>2, <3>1
    <3>3. ~ IsPhaseSet(c.queue[1], m)
      BY <1>2, <2>4, <3>2 DEF Good, UpdatesFit
    <3>4. QED
      BY <2>1, <3>3 DEF IsPhaseSet
  <2>5. QED
    BY <2>1, <2>2, <2>3, <2>4
<1>6. TrueAnswer(c, d[m], st)
  BY DEF Timely
<1>7. QED
  BY <1>1, <1>4, <1>5, <1>6 DEF TrueAnswer

\* A status recorded and then not acted on.
LEMMA RecordedOnly ==
    ASSUME NEW r, NEW c, NEW d, NEW st, Good(r, d), Keeps(r, c), r.queue = c.queue,
           r.state = c.state, r.netPhase = c.netPhase, r.gen = c.gen
    PROVE  Handled(r, c, d, st)
<1>1. NoNewResets(r, c)
  BY KeepsResets
<1>2. QED
  BY <1>1 DEF Handled, Keeps, Kept, Quiet

\* A handler that goes on from a status recorded.
LEMMA RecordedThen ==
    ASSUME NEW r, NEW b, NEW c, NEW d, NEW st, Keeps(b, c), b.queue = c.queue,
           Good(r, d), Staying(r) = Staying(b), NoNewResets(r, b), Quiet(r) => Quiet(c),
           c.queue = <<>> \/ AnswersHead(c, st)
    PROVE  Handled(r, c, d, st)
<1>1. NoNewResets(r, c)
  BY KeepsResets, ResetsTrans
<1>2. QED
  BY <1>1 DEF Handled, Keeps

LEMMA HeadAnswered ==
    ASSUME NEW c, NEW b, NEW st, b.queue = c.queue
    PROVE  /\ HeadAnsweredBy(b, st) => AnswersHead(c, st)
           /\ AnswersHead(c, st) /\ st.kind # "FILTER_ADD" => HeadAnsweredBy(b, st)
BY DEF HeadAnsweredBy, HeadIs, AnswersHead, Answers

\* The handlers of the three KEY_REFRESH states.
LEMMA KrStatusHandled ==
    ASSUME NEW c, NEW d, Good(c, d), Matches(c), InTime(c), ShortTable,
           NEW st, Timely(c, d, st),
           \/ c.state = "KR1" /\ st.kind = "KEY_UPDATE"
           \/ c.state \in {"KR2", "KR3"} /\ st.kind = "KR_PHASE_SET",
           InTime(KrStatus(c, st))
    PROVE  Handled(KrStatus(c, st), c, d, st)
<1> DEFINE p == CASE c.state = "KR1" -> FIRST
                  [] c.state = "KR2" -> SECOND
                  [] c.state = "KR3" -> THIRD
           b == IF st.ok THEN SetPhase(c, st.key, st.src, p) ELSE c
           r == KrStatus(c, st)
<1>1. p \in Phases /\ p = c.netPhase
  BY DEF Matches
<1>2. r = IF HeadAnsweredBy(b, st) THEN IfDone(StartNextOp(b), c.state) ELSE b
  BY DEF KrStatus
<1> HIDE DEF p
<1>3. /\ Good(b, d) /\ Keeps(b, c) /\ b.queue = c.queue /\ b.state = c.state
      /\ b.netPhase = c.netPhase /\ b.gen = c.gen
  <2>1. CASE st.ok
    <3>1. b = SetPhase(c, st.key, st.src, p)
      BY <2>1
    <3>2. st.key \in Keys
      BY DEF Timely, Status
    <3>3. st.src \in Participants(c) =>
             /\ c.netPhase # NORMAL
             /\ c.netPhase = FIRST => p = FIRST /\ HasKey(c, d[st.src], st.key)
             /\ c.netPhase = SECOND =>
                   \A i \in DOMAIN c.queue : ~ IsUpdate(c.queue[i], st.src)
             /\ c.netPhase = THIRD => d[st.src].phase = NORMAL
      BY <1>1, <2>1, AnsweredOp DEF Matches
    <3> HIDE DEF b
    <3>4. QED
      BY <1>1, <3>1, <3>2, <3>3, GoodSetPhase
  <2>2. CASE ~ st.ok
    BY <2>2, KeepsSelf
  <2>3. QED
    BY <2>1, <2>2
<1> HIDE DEF b
<1>4. CASE ~ HeadAnsweredBy(b, st)
  <2>1. r = b
    BY <1>2, <1>4
  <2>2. QED
    BY <1>3, <2>1, RecordedOnly
<1>5. CASE HeadAnsweredBy(b, st)
  <2>1. r = IfDone(StartNextOp(b), b.state)
    BY <1>2, <1>3, <1>5
  <2>2. InTime(IfDone(StartNextOp(b), b.state))
    BY <2>1
  <2>3. Matches(b) /\ b.state \in KrStates
    BY <1>3 DEF Matches, KrStates
  <2>4. /\ Good(r, d) /\ Staying(r) = Staying(b) /\ ~ Quiet(r) /\ NoNewResets(r, b)
    BY <1>3, <2>1, <2>2, <2>3, GoodNextOrDone
  <2>5. AnswersHead(c, st)
    BY <1>3, <1>5, HeadAnswered
  <2> HIDE DEF r
  <2>6. Handled(r, c, d, st)
    BY <1>3, <2>4, <2>5, RecordedThen
  <2>7. QED
    BY <2>6 DEF r
<1>6. QED
  BY <1>4, <1>5

LEMMA KrResetStatusHandled ==
    ASSUME NEW c, NEW d, Good(c, d), Matches(c), ShortTable, NEW st, c.state \in KrStates,
           InTime(KrResetStatus(c, st))
    PROVE  Handled(KrResetStatus(c, st), c, d, st)
<1> DEFINE z == [c EXCEPT !.nullDeref = @ \/ c.state # "KR1"]
           r == KrResetStatus(c, st)
<1>1. CASE c.queue = <<>>
  <2>1. r = z
    BY <1>1 DEF KrResetStatus
  <2>2. /\ Sound(z) /\ z.queue = c.queue /\ SameRecord(z, c) /\ z.nodes = c.nodes
        /\ z.blocked = c.blocked /\ z.state = c.state
    BY DEF Good, Sound, Client, SameRecord
  <2> HIDE DEF z, r
  <2>3. Good(z, d) /\ Keeps(z, c)
    BY <2>2, GoodSameQueue
  <2>4. Handled(z, c, d, st)
    BY <2>2, <2>3, RecordedOnly DEF SameRecord
  <2>5. QED
    BY <2>1, <2>4 DEF r
<1>2. CASE c.queue # <<>> /\ ~ HeadAnsweredBy(c, st)
  <2>1. r = c
    BY <1>2 DEF KrResetStatus
  <2>2. QED
    BY <2>1, KeepsSelf, RecordedOnly
<1>3. CASE c.queue # <<>> /\ HeadAnsweredBy(c, st)
  <2>1. r = IfDone(StartNextOp(c), c.state)
    BY <1>3 DEF KrResetStatus
  <2>2. InTime(IfDone(StartNextOp(c), c.state))
    BY <2>1
  <2>3. Good(r, d) /\ Staying(r) = Staying(c) /\ ~ Quiet(r) /\ NoNewResets(r, c)
    BY <2>1, <2>2, GoodNextOrDone
  <2>4. AnswersHead(c, st)
    BY <1>3, HeadAnswered
  <2> HIDE DEF r
  <2>5. QED
    BY <2>3, <2>4 DEF r, Handled
<1>4. QED
  BY <1>1, <1>2, <1>3

LEMMA KrFilterStatusHandled ==
    ASSUME NEW c, NEW d, Good(c, d), Matches(c), ShortTable, c.state \in KrStates,
           NEW st, Timely(c, d, st), st.kind = "FILTER_ADD", InTime(KrFilterStatus(c))
    PROVE  Handled(KrFilterStatus(c), c, d, st)
<1> DEFINE s  == StartNextOp(c)
           c1 == Execute(s)
           r  == KrFilterStatus(c)
<1>1. AnswersHead(c, st) /\ c.queue # <<>> /\ HeadIs(c, "FILTER_ADD")
  BY DEF Timely, Counts, AnswersHead, Answers, HeadIs
<1>2. r = IF c.state = "KR1" THEN IfDone(c1, "KR1") ELSE c1
  BY <1>1 DEF KrFilterStatus
<1>3. c \in Client /\ c.queue \in Seq(Op)
  BY DEF Good, Sound, Client
<1>4. /\ Good(s, d) /\ Staying(s) = Staying(c)
      /\ s.queue = Tail(c.queue) /\ SameRecord(s, c)
      /\ s.state = IF s.queue = <<>> /\ c.state \notin {"KR1", "KR2"} THEN "IDLE" ELSE c.state
  BY <1>1, <1>3, GoodStartNextOp, StartNextOpFields
<1> HIDE DEF s
<1>5. NoNewResets(s, c)
  BY <1>1, <1>3, <1>4, TailResets
<1>6. /\ Good(c1, d) /\ Keeps(c1, s) /\ c1.state = s.state /\ c1.queue = s.queue
      /\ SameRecord(c1, s)
  BY <1>4, GoodExecute
<1> HIDE DEF c1
<1>7. Good(r, d) /\ Keeps(r, c1) /\ ~ Quiet(r)
  <2>1. CASE r = c1
    <3>1. ~ Quiet(c1)
      BY <1>4, <1>6 DEF Quiet, KrStates
    <3> HIDE DEF r
    <3>2. QED
      BY <1>6, <2>1, <3>1, KeepsSelf
  <2>2. CASE r # c1
    <3>1. c.state = "KR1" /\ c1.queue = <<>> /\ r = PhaseCompleted(c1, "KR1")
      BY <1>2, <2>2 DEF IfDone
    <3>2. c1.state = "KR1"
      BY <1>4, <1>6, <3>1
    <3>3. InTime(PhaseCompleted(c1, "KR1"))
      BY <3>1
    <3> HIDE DEF r
    <3>4. QED
      BY <1>6, <3>1, <3>2, <3>3, GoodPhaseCompleted DEF KrStates
  <2>3. QED
    BY <2>1, <2>2
<1> HIDE DEF r
<1>8. Staying(r) = Staying(c) /\ NoNewResets(r, c)
  BY <1>4, <1>5, <1>6, <1>7, KeepsResets, ResetsTrans DEF Keeps
<1>9. QED
  BY <1>1, <1>7, <1>8 DEF Handled, r

\* Dropping an answered head in IDLE.
LEMMA IdleNext ==
    ASSUME NEW c, NEW b, NEW d, NEW st, Good(b, d), Keeps(b, c), b.queue = c.queue,
           b.state = "IDLE", c.state = "IDLE", b.netPhase = c.netPhase, c.queue # <<>>,
           \/ AnswersHead(c, st)
           \/ /\ ~ Quiet(c) /\ st.kind = "KR_PHASE_SET"
              /\ Head(c.queue).kind = "NODE_RESET" /\ Head(c.queue).dst = st.src
    PROVE  Handled(StartNextOp(b), c, d, st)
<1> DEFINE r == StartNextOp(b)
<1>1. b \in Client /\ b.queue \in Seq(Op)
  BY DEF Good, Sound, Client
<1>2. Good(r, d) /\ Staying(r) = Staying(b)
  BY GoodStartNextOp
<1>3. r.queue = Tail(c.queue) /\ SameRecord(r, b) /\ r.state = "IDLE"
  BY <1>1, StartNextOpFields
<1> HIDE DEF r
<1>4. NoNewResets(r, b)
  BY <1>1, <1>3, TailResets
<1>5. NoNewResets(r, c) /\ Staying(r) = Staying(c)
  BY <1>2, <1>4, KeepsResets, ResetsTrans DEF Keeps
<1>6. Quiet(r) => Quiet(c)
  BY <1>3 DEF Quiet, SameRecord
<1>7. AnswersHead(c, st) \/ Mistaken(r, c, st)
  BY <1>3 DEF Mistaken
<1>8. QED
  BY <1>2, <1>5, <1>6, <1>7 DEF Handled, r

\* The handlers of IDLE.
LEMMA IdleKeyStatusHandled ==
    ASSUME NEW c, NEW d, Good(c, d), InTime(c), ShortTable, c.state = "IDLE",
           NEW st, Timely(c, d, st), st.kind = "KEY_UPDATE", InTime(IdleKeyStatus(c, st))
    PROVE  Handled(IdleKeyStatus(c, st), c, d, st)
<1> DEFINE b == IF st.ok THEN AddKey(c, st.key, st.src) ELSE c
           r == IdleKeyStatus(c, st)
<1>1. /\ HeadAnsweredBy(b, st) => r = StartNextOp(b)
      /\ ~ HeadAnsweredBy(b, st) /\ b.netPhase # NORMAL => r = Unexpected(b)
      /\ ~ HeadAnsweredBy(b, st) /\ b.netPhase = NORMAL => r = b
  BY DEF IdleKeyStatus
<1>2. /\ Good(b, d) /\ Keeps(b, c) /\ b.queue = c.queue /\ b.state = c.state
      /\ b.netPhase = c.netPhase /\ b.gen = c.gen
  <2>1. CASE st.ok
    <3>1. b = AddKey(c, st.key, st.src)
      BY <2>1
    <3>2. st.key \in Keys
      BY DEF Timely, Status
    <3>3. st.src \in Participants(c) =>
             c.netPhase \in {FIRST, SECOND} /\ HasKey(c, d[st.src], st.key)
      BY <2>1, AnsweredOp
    <3> HIDE DEF b
    <3>4. QED
      BY <3>1, <3>2, <3>3, GoodAddKey
  <2>2. CASE ~ st.ok
    BY <2>2, KeepsSelf
  <2>3. QED
    BY <2>1, <2>2
<1> HIDE DEF b
<1>3. CASE HeadAnsweredBy(b, st)
  <2>1. AnswersHead(c, st) /\ c.queue # <<>>
    BY <1>2, <1>3, HeadAnswered DEF AnswersHead
  <2>2. QED
    BY <1>1, <1>2, <1>3, <2>1, IdleNext
<1>4. CASE ~ HeadAnsweredBy(b, st) /\ b.netPhase # NORMAL
  <2>1. c.queue = <<>>
    <3> SUFFICES ASSUME c.queue # <<>> PROVE FALSE
      OBVIOUS
    <3>1. Counts(c, st)
      BY <1>2, <1>4 DEF Counts, Quiet
    <3>2. AnswersHead(c, st)
      BY <3>1 DEF Timely
    <3>3. QED
      BY <1>2, <1>4, <3>2, HeadAnswered
  <2>2. r = Unexpected(b)
    BY <1>1, <1>4
  <2>3. InTime(Unexpected(b))
    BY <2>2
  <2>4. Good(r, d) /\ Staying(r) = Staying(b) /\ ~ Quiet(r) /\ NoNewResets(r, b)
    BY <1>2, <1>4, <2>1, <2>2, <2>3, GoodUnexpected
  <2> HIDE DEF r
  <2>5. Handled(r, c, d, st)
    BY <1>2, <2>1, <2>4, RecordedThen
  <2>6. QED
    BY <2>5 DEF r
<1>5. CASE ~ HeadAnsweredBy(b, st) /\ b.netPhase = NORMAL
  BY <1>1, <1>2, <1>5, RecordedOnly
<1>6. QED
  BY <1>3, <1>4, <1>5

LEMMA IdlePhaseStatusHandled ==
    ASSUME NEW c, NEW d, Good(c, d), InTime(c), ShortTable, c.state = "IDLE",
           NEW st, Timely(c, d, st), st.kind = "KR_PHASE_SET", NEW u \in BOOLEAN,
           InTime(IdlePhaseStatus(c, st, u))
    PROVE  Handled(IdlePhaseStatus(c, st, u), c, d, st)
<1> DEFINE b == IF st.ok THEN SetPhase(c, NetKey, st.src, st.phase) ELSE c
           mistaken == HeadIs(b, "NODE_RESET") /\ Head(b.queue).dst = st.src /\ u
           e == Unexpected(b)
           r == IdlePhaseStatus(c, st, u)
<1>1. /\ HeadAnsweredBy(b, st) \/ mistaken => r = StartNextOp(b)
      /\ ~ HeadAnsweredBy(b, st) /\ ~ mistaken /\ b.netPhase # NORMAL =>
            r = IF e.queue = <<>> /\ st.phase \in {THIRD, NORMAL}
                THEN Phase3Completed(e) ELSE e
      /\ ~ HeadAnsweredBy(b, st) /\ ~ mistaken /\ b.netPhase = NORMAL => r = b
  BY DEF IdlePhaseStatus
<1>2. /\ Good(b, d) /\ Keeps(b, c) /\ b.queue = c.queue /\ b.state = c.state
      /\ b.netPhase = c.netPhase /\ b.gen = c.gen
  <2>1. CASE st.ok
    <3>1. b = SetPhase(c, NetKey, st.src, st.phase)
      BY <2>1
    <3>2. st.phase \in Phases /\ NetKey \in Keys
      BY DEF Timely, Status, Keys
    <3>3. st.src \in Participants(c) =>
             /\ c.netPhase # NORMAL
             /\ c.netPhase = FIRST => st.phase = FIRST /\ HasKey(c, d[st.src], NetKey)
             /\ c.netPhase = SECOND =>
                   \A i \in DOMAIN c.queue : ~ IsUpdate(c.queue[i], st.src)
             /\ c.netPhase = THIRD => d[st.src].phase = NORMAL
      BY <2>1, AnsweredOp
    <3> HIDE DEF b
    <3>4. QED
      BY <3>1, <3>2, <3>3, GoodSetPhase
  <2>2. CASE ~ st.ok
    BY <2>2, KeepsSelf
  <2>3. QED
    BY <2>1, <2>2
<1> HIDE DEF b
<1>3. CASE HeadAnsweredBy(b, st)
  <2>1. AnswersHead(c, st) /\ c.queue # <<>>
    BY <1>2, <1>3, HeadAnswered DEF AnswersHead
  <2>2. QED
    BY <1>1, <1>2, <1>3, <2>1, IdleNext
<1>4. CASE ~ HeadAnsweredBy(b, st) /\ mistaken
  <2>1. /\ c.queue # <<>> /\ Head(c.queue).kind = "NODE_RESET"
        /\ Head(c.queue).dst = st.src
    BY <1>2, <1>4 DEF HeadIs
  <2>2. ~ Quiet(c)
    <3> SUFFICES ASSUME Quiet(c) PROVE FALSE
      OBVIOUS
    <3>1. Answers(st, Head(c.queue))
      BY DEF Timely, Counts, AnswersHead
    <3>2. QED
      BY <2>1, <3>1 DEF Answers
  <2>3. QED
    BY <1>1, <1>2, <1>4, <2>1, <2>2, IdleNext
<1>5. CASE ~ HeadAnsweredBy(b, st) /\ ~ mistaken /\ b.netPhase # NORMAL
  <2>1. c.queue = <<>>
    <3> SUFFICES ASSUME c.queue # <<>> PROVE FALSE
      OBVIOUS
    <3>1. Counts(c, st)
      BY <1>2, <1>5 DEF Counts, Quiet
    <3>2. AnswersHead(c, st)
      BY <3>1 DEF Timely
    <3>3. QED
      BY <1>2, <1>5, <3>2, HeadAnswered
  <2>2. r = IF e.queue = <<>> /\ st.phase \in {THIRD, NORMAL}
            THEN Phase3Completed(e) ELSE e
    BY <1>1, <1>5
  <2>3. InTime(e)
    <3>1. CASE e.queue = <<>>
      <4> HIDE DEF e
      <4>1. QED
        BY <3>1 DEF InTime
    <3>2. CASE e.queue # <<>>
      <4>1. r = e
        BY <2>2, <3>2
      <4>2. InTime(r)
        OBVIOUS
      <4> HIDE DEF e, r
      <4>3. QED
        BY <4>1, <4>2
    <3>3. QED
      BY <3>1, <3>2
  <2>4. Good(e, d) /\ Staying(e) = Staying(b) /\ ~ Quiet(e) /\ NoNewResets(e, b)
    BY <1>2, <1>5, <2>1, <2>3, GoodUnexpected
  <2>5. InTime(r)
    OBVIOUS
  <2> HIDE DEF e, r
  <2>6. Good(r, d) /\ Staying(r) = Staying(e) /\ ~ Quiet(r) /\ NoNewResets(r, e)
    <3>1. CASE e.queue = <<>> /\ st.phase \in {THIRD, NORMAL}
      <4>1. r = Phase3Completed(e)
        BY <2>2, <3>1
      <4>2. InTime(Phase3Completed(e))
        BY <2>5, <4>1
      <4>3. /\ Good(r, d) /\ Keeps(r, e)
            /\ (r.state = "KR1" \/ (r.state = "IDLE" /\ r.queue = e.queue))
        BY <2>4, <4>1, <4>2, GoodPhase3Completed
      <4>4. QED
        BY <3>1, <4>3, KeepsResets DEF Keeps, Quiet
    <3>2. CASE ~ (e.queue = <<>> /\ st.phase \in {THIRD, NORMAL})
      <4>1. r = e
        BY <2>2, <3>2
      <4>2. QED
        BY <2>4, <4>1 DEF NoNewResets
    <3>3. QED
      BY <3>1, <3>2
  <2>7. Staying(r) = Staying(b) /\ NoNewResets(r, b)
    BY <2>4, <2>6, ResetsTrans
  <2>8. Handled(r, c, d, st)
    BY <1>2, <2>1, <2>6, <2>7, RecordedThen
  <2>9. QED
    BY <2>8 DEF r
<1>6. CASE ~ HeadAnsweredBy(b, st) /\ ~ mistaken /\ b.netPhase = NORMAL
  BY <1>1, <1>2, <1>6, RecordedOnly
<1>7. QED
  BY <1>3, <1>4, <1>5, <1>6

\* The filter status in NETWORK_CONNECT, which takes the refresh up again.
LEMMA ConnectFilterStatusHandled ==
    ASSUME NEW c, NEW d, Good(c, d), InTime(c), ShortTable, c.state = "NETWORK_CONNECT",
           NEW st, Timely(c, d, st), st.kind = "FILTER_ADD",
           InTime(ConnectFilterStatus(c, st.src))
    PROVE  Handled(ConnectFilterStatus(c, st.src), c, d, st)
<1> DEFINE p  == st.src
           s  == StartNextOp(c)
           c1 == [c EXCEPT !.state = "IDLE", !.queue = Tail(@)]
           c2 == IF p \in c1.nodes \cap c1.blocked THEN Enqueue(c1, <<NodeReset(p)>>) ELSE c1
           e  == IF c2.netPhase # NORMAL THEN Continue(c2) ELSE c2
           r  == ConnectFilterStatus(c, p)
<1>1. /\ AnswersHead(c, st) /\ c.queue # <<>> /\ HeadIs(c, "FILTER_ADD")
      /\ c \in Client /\ c.queue \in Seq(Op) /\ Sound(c) /\ Aimed(c)
  BY DEF Timely, Counts, AnswersHead, Answers, HeadIs, Quiet, Good, Sound, Client
<1>2. r = Execute(e)
  BY <1>1 DEF ConnectFilterStatus
<1>3. Good(s, d) /\ Staying(s) = Staying(c)
  BY GoodStartNextOp
<1>4. s.queue = Tail(c.queue) /\ SameRecord(s, c) /\ s.nodes = c.nodes /\ s.blocked = c.blocked
  BY <1>1, StartNextOpFields
<1> HIDE DEF s
<1>5. /\ Sound(c1) /\ c1.queue = s.queue /\ SameRecord(c1, s) /\ c1.nodes = s.nodes
      /\ c1.blocked = s.blocked /\ c1.state = "IDLE"
  <2> DEFINE q == Tail(c.queue)
  <2>1. q \in Seq(SafeOps(c.blocked)) /\ q \in Seq(Op)
    BY <1>1, TailOver DEF Sound
  <2>2. c1 = [c EXCEPT !.state = "IDLE", !.queue = q]
    BY <1>1 DEF Client
  <2>3. s.queue = q
    BY <1>4
  <2> HIDE DEF q, c1
  <2>4. QED
    BY <1>1, <1>4, <2>1, <2>2, <2>3 DEF Sound, Client, ClientStates, SameRecord
<1> HIDE DEF c1
<1>6. Good(c1, d) /\ Staying(c1) = Staying(c)
  <2>1. Good(c1, d) /\ Keeps(c1, s)
    BY <1>3, <1>5, GoodSameQueue
  <2>2. QED
    BY <1>3, <2>1 DEF Keeps
<1>7. /\ Good(c2, d) /\ Staying(c2) = Staying(c1) /\ SameRecord(c2, c1) /\ c2.state = "IDLE"
      /\ (c2.queue = c1.queue \/ c2.queue = c1.queue \o <<NodeReset(p)>>)
  <2>1. CASE p \in c1.nodes \cap c1.blocked
    <3>1. p \in Nodes /\ p \notin Staying(c1)
      BY <1>5, <2>1 DEF Sound, Client, Staying
    <3>2. NodeReset(p) \in SafeOps(c1.blocked)
      BY <3>1, ClientAssumption DEF NodeReset, SafeOps, Op, OpKinds, Keys
    <3>3. NodeReset(p).kind = "NODE_RESET" /\ NodeReset(p).dst = p
      BY DEF NodeReset
    <3>4. c2 = Enqueue(c1, <<NodeReset(p)>>)
      BY <2>1
    <3> HIDE DEF c2, p
    <3>5. QED
      BY <1>5, <1>6, <3>1, <3>2, <3>3, <3>4, GoodEnqueue
  <2>2. CASE p \notin c1.nodes \cap c1.blocked
    <3>1. c2 = c1
      BY <2>2
    <3> HIDE DEF c2
    <3>2. QED
      BY <1>5, <1>6, <3>1 DEF SameRecord
  <2>3. QED
    BY <2>1, <2>2
<1>8. p \in Nodes
  BY DEF Timely, Status
<1> HIDE DEF c2
<1>9. c2.netPhase = FIRST => NoPhaseSets(c2)
  <2> SUFFICES ASSUME c2.netPhase = FIRST, NEW n \in Participants(c2),
                      NEW i \in DOMAIN c2.queue, IsPhaseSet(c2.queue[i], n)
               PROVE  FALSE
    BY DEF NoPhaseSets
  <2>1. c.netPhase = FIRST
    BY <1>4, <1>5, <1>7 DEF SameRecord
  <2>2. NoPhaseSets(c)
    BY <1>1, <2>1, NothingInTime
  <2>3. n \in Participants(c)
    BY <1>6, <1>7 DEF Participants, Staying
  <2>4. NodeReset(p) \in Op /\ c1.queue \in Seq(Op) /\ NodeReset(p).kind = "NODE_RESET"
    BY <1>5, <1>8, ClientAssumption DEF NodeReset, Op, OpKinds, Keys, Sound, Client
  <2>5. i \in DOMAIN c1.queue /\ c2.queue[i] = c1.queue[i]
    <3>1. CASE c2.queue = c1.queue
      BY <3>1
    <3>2. CASE c2.queue = c1.queue \o <<NodeReset(p)>>
      <4>1. i \in DOMAIN c1.queue \/ c2.queue[i] = NodeReset(p)
        BY <2>4, <3>2
      <4>2. i \in DOMAIN c1.queue
        BY <2>4, <4>1 DEF IsPhaseSet
      <4>3. QED
        BY <2>4, <3>2, <4>2
    <3>3. QED
      BY <1>7, <3>1, <3>2
  <2>6. c1.queue = Tail(c.queue)
    BY <1>4, <1>5
  <2>7. i + 1 \in DOMAIN c.queue /\ c1.queue[i] = c.queue[i + 1]
    BY <1>1, <2>5, <2>6, TailElements
  <2>8. QED
    BY <2>2, <2>3, <2>5, <2>7 DEF NoPhaseSets
<1>10. Matches(c2)
  BY <1>7 DEF Matches
<1>11. InTime(e)
  <2>1. e \in Client
    BY <1>7, <1>10, SoundContinue DEF Good, Sound
  <2>2. InTime(Execute(e))
    BY <1>2
  <2> HIDE DEF e
  <2>3. QED
    BY <2>1, <2>2, InTimeExecute
<1>12. Good(e, d) /\ Keeps(e, c2)
  <2>1. CASE c2.netPhase # NORMAL
    <3>1. e = Continue(c2)
      BY <2>1
    <3>2. InTime(Continue(c2))
      BY <1>11, <3>1
    <3> HIDE DEF e
    <3>3. QED
      BY <1>7, <1>9, <2>1, <3>1, <3>2, GoodContinue
  <2>2. CASE c2.netPhase = NORMAL
    <3>1. e = c2
      BY <2>2
    <3> HIDE DEF e
    <3>2. QED
      BY <1>7, <3>1, KeepsSelf
  <2>3. QED
    BY <2>1, <2>2
<1> HIDE DEF e, r
<1>13. Good(r, d) /\ Keeps(r, e)
  BY <1>2, <1>12, GoodExecute
<1>14. Staying(r) = Staying(c)
  BY <1>6, <1>7, <1>12, <1>13 DEF Keeps
<1>15. Quiet(c)
  BY DEF Quiet
<1>16. QED
  BY <1>1, <1>13, <1>14, <1>15 DEF Handled, r

\* The status events of mesh_provision_process_event.
LEMMA OnStatusHandled ==
    ASSUME NEW c, NEW d, Good(c, d), Matches(c), InTime(c), ShortTable,
           NEW st, Timely(c, d, st), NEW u \in BOOLEAN, InTime(OnStatus(c, st, u))
    PROVE  Handled(OnStatus(c, st, u), c, d, st)
<1> DEFINE r == OnStatus(c, st, u)
<1>1. CASE c.state \in KrStates /\ st.kind = "FILTER_ADD"
  <2>1. r = KrFilterStatus(c)
    BY <1>1 DEF OnStatus, KrStates
  <2>2. InTime(KrFilterStatus(c))
    BY <2>1
  <2>3. QED
    BY <1>1, <2>1, <2>2, KrFilterStatusHandled
<1>2. CASE c.state \in KrStates /\ st.kind = "NODE_RESET"
  <2>1. r = KrResetStatus(c, st)
    BY <1>2 DEF OnStatus, KrStates
  <2>2. InTime(KrResetStatus(c, st))
    BY <2>1
  <2>3. QED
    BY <1>2, <2>1, <2>2, KrResetStatusHandled
<1>3. CASE \/ c.state = "KR1" /\ st.kind = "KEY_UPDATE"
           \/ c.state \in {"KR2", "KR3"} /\ st.kind = "KR_PHASE_SET"
  <2>1. r = KrStatus(c, st)
    BY <1>3 DEF OnStatus, KrStates
  <2>2. InTime(KrStatus(c, st))
    BY <2>1
  <2>3. QED
    BY <1>3, <2>1, <2>2, KrStatusHandled
<1>4. CASE c.state = "IDLE" /\ st.kind = "KEY_UPDATE"
  <2>1. r = IdleKeyStatus(c, st)
    BY <1>4 DEF OnStatus, KrStates
  <2>2. InTime(IdleKeyStatus(c, st))
    BY <2>1
  <2>3. QED
    BY <1>4, <2>1, <2>2, IdleKeyStatusHandled
<1>5. CASE c.state = "IDLE" /\ st.kind = "KR_PHASE_SET"
  <2>1. r = IdlePhaseStatus(c, st, u)
    BY <1>5 DEF OnStatus, KrStates
  <2>2. InTime(IdlePhaseStatus(c, st, u))
    BY <2>1
  <2>3. QED
    BY <1>5, <2>1, <2>2, IdlePhaseStatusHandled
<1>6. CASE c.state = "NETWORK_CONNECT" /\ st.kind = "FILTER_ADD"
  <2>1. r = ConnectFilterStatus(c, st.src)
    BY <1>6 DEF OnStatus, KrStates
  <2>2. InTime(ConnectFilterStatus(c, st.src))
    BY <2>1
  <2>3. QED
    BY <1>6, <2>1, <2>2, ConnectFilterStatusHandled
<1>7. CASE r = c
  BY <1>7, KeepsSelf, RecordedOnly
<1>8. \/ c.state \in KrStates /\ st.kind = "FILTER_ADD"
      \/ c.state \in KrStates /\ st.kind = "NODE_RESET"
      \/ c.state = "KR1" /\ st.kind = "KEY_UPDATE"
      \/ c.state \in {"KR2", "KR3"} /\ st.kind = "KR_PHASE_SET"
      \/ c.state = "IDLE" /\ st.kind = "KEY_UPDATE"
      \/ c.state = "IDLE" /\ st.kind = "KR_PHASE_SET"
      \/ c.state = "NETWORK_CONNECT" /\ st.kind = "FILTER_ADD"
      \/ r = c
  BY DEF OnStatus, KrStates
<1>9. QED
  BY <1>1, <1>2, <1>3, <1>4, <1>5, <1>6, <1>7, <1>8

-----------------------------------------------------------------------------
(* The invariant: Good, and every answer on its way is true and is for the  *)
(* head of the queue, once.                                                *)

\* What the proofs about the keys assume of the constants: the Windows host's build,
\* no answer delivered twice, and fewer keys at all nodes than phase1_continue can count.
Plain == ~ ClientControl /\ MaxDups = 0 /\ ShortTable

\* An answer of node n on its way: it is for the head of the queue if a handler
\* may drop the head for it, and it is true.
Fits(c, e, n, st, lk) ==
    /\ st.src = n
    /\ Counts(c, st) => AnswersHead(c, st)
    /\ st.kind = "KR_PHASE_SET" => ~ TwoResets(c, n)
    /\ n \in Participants(c) => TrueAnswer(c, e, st)
    /\ n # Local => lk = "up"

\* All answers on their way fit.
AnswersFit(c, d, rep, lk) ==
    \A n \in Nodes : \A i \in DOMAIN rep[n] : Fits(c, d[n], n, rep[n][i], lk)

\* At most one answer on its way can end an operation.
OneCounted(c, rep) ==
    \A m, n \in Nodes : \A i \in DOMAIN rep[m], j \in DOMAIN rep[n] :
        Counts(c, rep[m][i]) /\ Counts(c, rep[n][j]) => m = n /\ i = j

\* Only the operation at the head is with the core.
OnlyHeadSent(c, ops) == \A o \in ops : c.queue # <<>> /\ o = Head(c.queue)

\* The invariant that relates the client, the nodes and what is on its way.
Agreement ==
    /\ Good(cl, dev)
    /\ OnlyHeadSent(cl, inflight)
    /\ AnswersFit(cl, dev, replies, link)
    /\ OneCounted(cl, replies)

\* Of each node's answers all, none, or all but the oldest are left.
Shorter(rep2, rep) ==
    \A n \in Nodes : \/ rep2[n] = rep[n]
                     \/ rep2[n] = <<>>
                     \/ rep[n] # <<>> /\ rep2[n] = Tail(rep[n])

\* r2 is r without its first k elements.
IsRest(r2, r, k) ==
    \A i \in DOMAIN r2 : i \in Nat /\ i + k \in DOMAIN r /\ r2[i] = r[i + k]

LEMMA ShorterElements ==
    ASSUME NEW rep \in [Nodes -> Seq(Status)], NEW rep2, Shorter(rep2, rep), NEW n \in Nodes
    PROVE  \E k \in {0, 1} : IsRest(rep2[n], rep[n], k)
<1>1. rep[n] \in Seq(Status)
  OBVIOUS
<1>2. CASE rep2[n] = rep[n]
  <2>1. \A i \in DOMAIN rep2[n] : i \in Nat /\ i + 0 = i
    BY <1>1, <1>2
  <2>2. IsRest(rep2[n], rep[n], 0)
    BY <1>2, <2>1 DEF IsRest
  <2>3. QED
    BY <2>2
<1>3. CASE rep2[n] = <<>>
  <2>1. IsRest(rep2[n], rep[n], 0)
    BY <1>3 DEF IsRest
  <2>2. QED
    BY <2>1
<1>4. CASE rep[n] # <<>> /\ rep2[n] = Tail(rep[n])
  <2>1. \A i \in DOMAIN rep2[n] : i \in Nat /\ i + 1 \in DOMAIN rep[n] /\ rep2[n][i] = rep[n][i + 1]
    BY <1>1, <1>4, TailElements
  <2>2. IsRest(rep2[n], rep[n], 1)
    BY <2>1 DEF IsRest
  <2>3. QED
    BY <2>2
<1>5. QED
  BY <1>2, <1>3, <1>4 DEF Shorter

\* Each answer that fits c fits c2 too, and counts there only if it did before.
CarryOver(rep2, c, d, lk, c2, d2, lk2) ==
    \A n \in Nodes : \A i \in DOMAIN rep2[n] :
        Fits(c, d[n], n, rep2[n][i], lk) =>
            /\ Fits(c2, d2[n], n, rep2[n][i], lk2)
            /\ Counts(c2, rep2[n][i]) => Counts(c, rep2[n][i])

\* If every answer that is left fits as before, all still do.
LEMMA FewerAnswers ==
    ASSUME NEW rep \in [Nodes -> Seq(Status)], NEW rep2, Shorter(rep2, rep),
           NEW c, NEW d, NEW lk, AnswersFit(c, d, rep, lk), OneCounted(c, rep),
           NEW c2, NEW d2, NEW lk2, CarryOver(rep2, c, d, lk, c2, d2, lk2)
    PROVE  AnswersFit(c2, d2, rep2, lk2) /\ OneCounted(c2, rep2)
<1>1. \A n \in Nodes : \A i \in DOMAIN rep2[n] : Fits(c, d[n], n, rep2[n][i], lk)
  <2>1. TAKE n \in Nodes
  <2>2. TAKE i \in DOMAIN rep2[n]
  <2>3. PICK k \in {0, 1} : IsRest(rep2[n], rep[n], k)
    BY ShorterElements
  <2>4. i + k \in DOMAIN rep[n] /\ rep2[n][i] = rep[n][i + k]
    BY <2>3 DEF IsRest
  <2>5. QED
    BY <2>4 DEF AnswersFit
<1>2. AnswersFit(c2, d2, rep2, lk2)
  BY <1>1 DEF AnswersFit, CarryOver
<1>3. ASSUME NEW m \in Nodes, NEW n \in Nodes, NEW i \in DOMAIN rep2[m], NEW j \in DOMAIN rep2[n],
             Counts(c2, rep2[m][i]), Counts(c2, rep2[n][j])
      PROVE  m = n /\ i = j
  <2>1. Counts(c, rep2[m][i]) /\ Counts(c, rep2[n][j])
    BY <1>1, <1>3 DEF CarryOver
  <2>2. PICK k \in {0, 1} : IsRest(rep2[m], rep[m], k)
    BY ShorterElements
  <2>3. PICK l \in {0, 1} : IsRest(rep2[n], rep[n], l)
    BY ShorterElements
  <2>4. /\ i + k \in DOMAIN rep[m] /\ rep2[m][i] = rep[m][i + k] /\ i \in Nat
        /\ j + l \in DOMAIN rep[n] /\ rep2[n][j] = rep[n][j + l] /\ j \in Nat
    BY <2>2, <2>3 DEF IsRest
  <2>5. m = n /\ i + k = j + l
    BY <2>1, <2>4 DEF OneCounted
  <2>6. j + k \in DOMAIN rep[m] /\ rep2[n][j] = rep[m][j + k]
    <3>1. j \in DOMAIN rep2[m] /\ rep2[m][j] = rep2[n][j]
      BY <2>5
    <3>2. QED
      BY <2>2, <3>1 DEF IsRest
  <2>7. i + k = j + k
    BY <2>1, <2>4, <2>5, <2>6 DEF OneCounted
  <2>8. QED
    BY <2>4, <2>5, <2>7
<1>4. QED
  BY <1>2, <1>3 DEF OneCounted

\* A client that goes on waiting for the same answer.
LEMMA StillFits ==
    ASSUME NEW c, NEW c2, NEW e, NEW n, NEW st, NEW lk, NEW lk2,
           Fits(c, e, n, st, lk),
           Staying(c2) = Staying(c),
           Quiet(c2) => Quiet(c) \/ n \in Staying(c),
           c.queue # <<>> => c2.queue # <<>> /\ Head(c2.queue) = Head(c.queue),
           NoNewResets(c2, c), c2.gen = c.gen, c2.netPhase = c.netPhase,
           n # Local => lk2 = "up"
    PROVE  /\ Fits(c2, e, n, st, lk2)
           /\ Counts(c2, st) => Counts(c, st)
<1>1. Counts(c2, st) => Counts(c, st)
  BY DEF Counts, Fits
<1>2. AnswersHead(c, st) => AnswersHead(c2, st)
  BY DEF AnswersHead
<1>3. ~ TwoResets(c, n) => ~ TwoResets(c2, n)
  BY DEF NoNewResets
<1>4. n \in Participants(c2) => n \in Participants(c)
  BY ParticipantsStay
<1>5. TrueAnswer(c, e, st) => TrueAnswer(c2, e, st)
  BY DEF TrueAnswer, HasKey
<1>6. QED
  BY <1>1, <1>2, <1>3, <1>4, <1>5 DEF Fits

\* An answer that no longer counts.
LEMMA UncountedFits ==
    ASSUME NEW c, NEW c2, NEW e, NEW e2, NEW n, NEW st, NEW lk, NEW lk2,
           Fits(c, e, n, st, lk), ~ Counts(c2, st),
           TwoResets(c2, n) => TwoResets(c, n),
           n # Local => lk2 = "up"
    PROVE  Fits(c2, e2, n, st, lk2)
<1>1. n \notin Participants(c2)
  BY DEF Counts, Participants, Staying, Fits
<1>2. QED
  BY <1>1 DEF Fits

\* Before the head is answered nothing counts.
LEMMA NoneCounted ==
    ASSUME Agreement, NEW o \in inflight, ~ Answered(o)
    PROVE  /\ cl.queue # <<>> /\ o = Head(cl.queue)
           /\ \A n \in Nodes : \A i \in DOMAIN replies[n] : ~ Counts(cl, replies[n][i])
<1>1. cl.queue # <<>> /\ o = Head(cl.queue)
  BY DEF Agreement, OnlyHeadSent
<1>2. ASSUME NEW n \in Nodes, NEW i \in DOMAIN replies[n], Counts(cl, replies[n][i]) PROVE FALSE
  <2>1. AnswersHead(cl, replies[n][i])
    BY <1>2 DEF Agreement, AnswersFit, Fits
  <2>2. Answers(replies[n][i], o)
    BY <1>1, <2>1 DEF AnswersHead
  <2>3. QED
    BY <2>2 DEF Answered
<1>3. QED
  BY <1>1, <1>2

\* Nothing is on its way at the start and all nodes have the first key.
LEMMA AgreementInit == Init => Agreement
<1> SUFFICES ASSUME Init PROVE Agreement
  OBVIOUS
<1>1. Sound(cl)
  BY SoundInit DEF Init
<1>2. cl.queue = <<>> /\ cl.netPhase = NORMAL /\ cl.gen = 0 /\ cl.blocked = {}
      /\ cl.nodes = Nodes /\ cl.phase = [s \in Slots |-> NORMAL]
  BY DEF Init, ClientInit
<1>3. \A n \in Participants(cl) : UpdatesFit(cl, n) /\ RecordFits(cl, dev[n], n)
  <2>1. TAKE n \in Participants(cl)
  <2>2. n \in Nodes
    BY <1>2 DEF Participants
  <2>3. dev[n].phase = NORMAL /\ dev[n].cur = 0 /\ \A k \in AppKeys : dev[n].app[k] = 0
    BY <2>2 DEF Init, FreshDevice
  <2>4. HasAll(cl, dev[n], n)
    BY <1>2, <2>3 DEF HasAll, HasKey, Keys
  <2>5. \A k \in Keys : <<k, n>> \in Slots => cl.phase[<<k, n>>] = NORMAL
    BY <1>2
  <2>6. UpdatesFit(cl, n)
    BY <1>2 DEF UpdatesFit
  <2>7. QED
    BY <1>2, <2>3, <2>4, <2>5, <2>6 DEF RecordFits
<1>4. Good(cl, dev)
  BY <1>1, <1>2, <1>3 DEF Good, Aimed
<1>5. \A n \in Nodes : replies[n] = <<>>
  BY DEF Init
<1>6. inflight = {}
  BY DEF Init
<1>7. QED
  BY <1>4, <1>5, <1>6 DEF Agreement, OnlyHeadSent, AnswersFit, OneCounted

\* Steps of the client that leave the queue's head and the answers alone.
LEMMA WaitingStep ==
    ASSUME IInv, Agreement,
           Good(cl', dev), Staying(cl') = Staying(cl),
           \A n \in Nodes : replies'[n] # <<>> => (Quiet(cl') => Quiet(cl) \/ n \in Staying(cl)),
           cl.queue # <<>> => cl'.queue # <<>> /\ Head(cl'.queue) = Head(cl.queue),
           NoNewResets(cl', cl), cl'.gen = cl.gen, cl'.netPhase = cl.netPhase,
           Shorter(replies', replies),
           \A n \in Nodes \ {Local} : replies'[n] # <<>> => link' = "up",
           OnlyHeadSent(cl', inflight'), dev' = dev
    PROVE  Agreement'
<1>1. replies \in [Nodes -> Seq(Status)]
  BY DEF IInv, Environment
<1>2. ASSUME NEW n \in Nodes, NEW i \in DOMAIN replies'[n], Fits(cl, dev[n], n, replies'[n][i], link)
      PROVE  /\ Fits(cl', dev'[n], n, replies'[n][i], link')
             /\ Counts(cl', replies'[n][i]) => Counts(cl, replies'[n][i])
  <2>1. replies'[n] # <<>>
    BY <1>2
  <2>2. Quiet(cl') => Quiet(cl) \/ n \in Staying(cl)
    BY <2>1
  <2>3. n # Local => link' = "up"
    BY <2>1
  <2>4. QED
    BY <1>2, <2>2, <2>3, StillFits
<1>3. AnswersFit(cl', dev', replies', link') /\ OneCounted(cl', replies')
  <2>1. CarryOver(replies', cl, dev, link, cl', dev', link')
    BY <1>2 DEF CarryOver
  <2>2. QED
    BY <1>1, <2>1, FewerAnswers DEF Agreement
<1>4. QED
  BY <1>3 DEF Agreement

-----------------------------------------------------------------------------
(* Agreement: timer, losses, connections, the user, restarts. *)

\* Plain leaves only what it holds the queue for outstanding.
LEMMA PlainOutstanding ==
    ASSUME Plain, NEW c, NEW ops, NEW o \in Outstanding(c, ops)
    PROVE  o \in ops /\ \E i \in DOMAIN c.queue : c.queue[i] = o
BY DEF Plain, Outstanding

LEMMA ShorterSelf == Shorter(replies, replies)
BY DEF Shorter

LEMMA ShorterLocal == Shorter(LocalRepliesOnly, replies)
BY DEF Shorter, LocalRepliesOnly

LEMMA ShorterTail ==
    ASSUME IInv, NEW n \in Nodes, replies[n] # <<>>,
           replies' = [replies EXCEPT ![n] = Tail(@)]
    PROVE  Shorter(replies', replies)
BY DEF IInv, Environment, Shorter

LEMMA SameQueueResets ==
    ASSUME NEW r, NEW c, r.queue = c.queue
    PROVE  NoNewResets(r, c)
BY DEF NoNewResets, TwoResets

\* The local node stays.
LEMMA LocalStays == IInv => Local \in Staying(cl)
BY DEF IInv, Sound, Staying

LEMMA OpTimerAgrees ==
    ASSUME IInv, Agreement, OpTimer
    PROVE  Agreement'
<1>1. IInv'
  BY OpTimerStep
<1>2. /\ cl'.queue = cl.queue /\ SameRecord(cl', cl) /\ cl'.nodes = cl.nodes
      /\ cl'.blocked = cl.blocked /\ cl'.state = cl.state
  BY DEF OpTimer, IInv, Sound, Client, SameRecord
<1>3. Good(cl', dev) /\ Keeps(cl', cl)
  BY <1>1, <1>2, GoodSameQueue DEF Agreement, IInv
<1>4. OnlyHeadSent(cl', inflight')
  BY <1>2 DEF OpTimer, Agreement, OnlyHeadSent
<1>5. Quiet(cl') => Quiet(cl)
  BY <1>2 DEF Quiet, SameRecord
<1>6. replies' = replies /\ link' = link /\ dev' = dev
  BY DEF OpTimer
<1>7. \A n \in Nodes \ {Local} : replies[n] # <<>> => link = "up"
  <2> SUFFICES ASSUME NEW n \in Nodes \ {Local}, replies[n] # <<>> PROVE link = "up"
    OBVIOUS
  <2>1. 1 \in DOMAIN replies[n]
    BY DEF IInv, Environment
  <2>2. QED
    BY <2>1 DEF Agreement, AnswersFit, Fits
<1>8. QED
  BY <1>2, <1>3, <1>4, <1>5, <1>6, <1>7, ShorterSelf, SameQueueResets, WaitingStep
     DEF SameRecord, Keeps

\* Other nodes' answers are on their way only while the client is connected.
LEMMA AnswersNeedLink ==
    ASSUME IInv, Agreement, NEW n \in Nodes \ {Local}, replies[n] # <<>>
    PROVE  link = "up"
<1>1. 1 \in DOMAIN replies[n]
  BY DEF IInv, Environment
<1>2. QED
  BY <1>1 DEF Agreement, AnswersFit, Fits

LEMMA LoseStatusAgrees ==
    ASSUME IInv, Agreement, NEW n \in Nodes, LoseStatus(n)
    PROVE  Agreement'
<1>1. cl' = cl /\ dev' = dev /\ link' = link /\ inflight' = inflight
      /\ replies[n] # <<>> /\ replies' = [replies EXCEPT ![n] = Tail(@)]
  BY DEF LoseStatus
<1>2. Shorter(replies', replies)
  BY <1>1, ShorterTail
<1>3. \A m \in Nodes \ {Local} : replies'[m] # <<>> => link' = "up"
  <2> SUFFICES ASSUME NEW m \in Nodes \ {Local}, replies'[m] # <<>> PROVE link = "up"
    BY <1>1
  <2>1. replies[m] # <<>>
    BY <1>1 DEF IInv, Environment
  <2>2. QED
    BY <2>1, AnswersNeedLink
<1>4. Good(cl', dev) /\ OnlyHeadSent(cl', inflight') /\ NoNewResets(cl', cl)
  BY <1>1, SameQueueResets DEF Agreement
<1>5. Quiet(cl') => Quiet(cl)
  BY <1>1
<1>6. QED
  BY <1>1, <1>2, <1>3, <1>4, <1>5, WaitingStep

LEMMA LinkUpAgrees ==
    ASSUME IInv, Agreement, NEW p \in Proxies, LinkUp(p)
    PROVE  Agreement'
<1>1. /\ cl' = OnLinkUp(cl) /\ dev' = dev /\ inflight' = inflight /\ replies' = replies
      /\ link' = "up"
  BY DEF LinkUp
<1>2. /\ Good(cl', dev) /\ Staying(cl') = Staying(cl) /\ SameRecord(cl', cl)
      /\ cl'.state = cl.state
      /\ cl'.queue = cl.queue \/ (cl.state # "IDLE" /\ cl'.queue = cl.queue \o <<FilterAdd>>)
  <2>1. CASE cl.state = "IDLE"
    <3>1. cl' = cl
      BY <1>1, <2>1 DEF OnLinkUp
    <3>2. QED
      BY <3>1 DEF Agreement, SameRecord
  <2>2. CASE cl.state # "IDLE"
    <3> DEFINE a == Enqueue(cl, <<FilterAdd>>)
    <3>1. FilterAdd \in SafeOps(cl.blocked) /\ FilterAdd.kind = "FILTER_ADD"
      BY ClientAssumption DEF FilterAdd, SafeOps, Op, OpKinds, Keys
    <3>2. /\ Good(a, dev) /\ Staying(a) = Staying(cl) /\ SameRecord(a, cl)
          /\ a.state = cl.state /\ a.queue = cl.queue \o <<FilterAdd>>
      BY <3>1, GoodEnqueue DEF Agreement
    <3>3. cl' = Execute(a)
      BY <1>1, <2>2 DEF OnLinkUp, AddFilter
    <3> HIDE DEF a
    <3>4. /\ Good(Execute(a), dev) /\ Keeps(Execute(a), a) /\ SameRecord(Execute(a), a)
          /\ Execute(a).state = a.state /\ Execute(a).queue = a.queue
      BY <3>2, GoodExecute
    <3>5. QED
      BY <2>2, <3>2, <3>3, <3>4 DEF SameRecord, Keeps
  <2>3. QED
    BY <2>1, <2>2
<1>3. cl.queue \in Seq(Op) /\ FilterAdd \in Op /\ FilterAdd.kind = "FILTER_ADD"
  BY ClientAssumption DEF IInv, Sound, Client, FilterAdd, Op, OpKinds, Keys
<1>4. cl.queue # <<>> => cl'.queue # <<>> /\ Head(cl'.queue) = Head(cl.queue)
  BY <1>2, <1>3
<1>5. NoNewResets(cl', cl)
  <2> SUFFICES ASSUME NEW m, TwoResets(cl', m) PROVE TwoResets(cl, m)
    BY DEF NoNewResets
  <2>1. PICK i \in DOMAIN cl'.queue, j \in DOMAIN cl'.queue :
          /\ i # j
          /\ cl'.queue[i].kind = "NODE_RESET" /\ cl'.queue[i].dst = m
          /\ cl'.queue[j].kind = "NODE_RESET" /\ cl'.queue[j].dst = m
    BY DEF TwoResets
  <2>2. \A x \in DOMAIN cl'.queue :
           (x \in DOMAIN cl.queue /\ cl'.queue[x] = cl.queue[x]) \/ cl'.queue[x] = FilterAdd
    <3> DEFINE q == cl.queue
               f == FilterAdd
    <3>1. q \in Seq(Op) /\ f \in Op
      BY <1>3
    <3> HIDE DEF q, f
    <3>2. \A x \in DOMAIN (q \o <<f>>) :
             (x \in DOMAIN q /\ (q \o <<f>>)[x] = q[x]) \/ (q \o <<f>>)[x] = f
      BY <3>1
    <3>3. cl'.queue = q \/ cl'.queue = q \o <<f>>
      BY <1>2 DEF q, f
    <3>4. QED
      BY <3>2, <3>3 DEF q, f
  <2>3. QED
    BY <1>3, <2>1, <2>2 DEF TwoResets
<1>6. OnlyHeadSent(cl', inflight')
  BY <1>1, <1>4 DEF Agreement, OnlyHeadSent
<1>7. Quiet(cl') => Quiet(cl)
  BY <1>2, <1>3 DEF Quiet, SameRecord
<1>8. Shorter(replies', replies)
  BY <1>1, ShorterSelf
<1>9. QED
  BY <1>1, <1>2, <1>4, <1>5, <1>6, <1>7, <1>8, WaitingStep DEF SameRecord

\* The connection goes down, and with it the answers of all other nodes.
LEMMA LocalAnswersStep ==
    ASSUME IInv, Agreement, Good(cl', dev), cl'.queue = cl.queue, SameRecord(cl', cl),
           Staying(cl') = Staying(cl), inflight' \subseteq inflight, dev' = dev,
           Shorter(replies', replies),
           \A n \in Nodes \ {Local} : replies'[n] = <<>>
    PROVE  Agreement'
<1>1. OnlyHeadSent(cl', inflight')
  BY DEF Agreement, OnlyHeadSent
<1>2. \A n \in Nodes : replies'[n] # <<>> => (Quiet(cl') => Quiet(cl) \/ n \in Staying(cl))
  BY LocalStays
<1>3. QED
  BY <1>1, <1>2, SameQueueResets, WaitingStep DEF SameRecord

LEMMA OnLinkDownFields ==
    ASSUME NEW c, c \in Client
    PROVE  LET r == OnLinkDown(c)
           IN  r.queue = c.queue /\ SameRecord(r, c) /\ r.nodes = c.nodes /\ r.blocked = c.blocked
BY DEF OnLinkDown, Client, SameRecord

LEMMA LinkDownAgrees ==
    ASSUME IInv, Agreement, LinkDown, Shorter(replies', replies),
           \A n \in Nodes \ {Local} : replies'[n] = <<>>
    PROVE  Agreement'
<1>1. /\ cl' = OnLinkDown(cl) /\ dev' = dev /\ inflight' \subseteq inflight
  BY OutstandingSubset DEF LinkDown
<1>2. Sound(cl')
  BY LinkDownStep
<1>3. /\ cl'.queue = cl.queue /\ SameRecord(cl', cl) /\ cl'.nodes = cl.nodes
      /\ cl'.blocked = cl.blocked
  BY <1>1, OnLinkDownFields DEF IInv, Sound
<1>4. Good(cl', dev) /\ Staying(cl') = Staying(cl)
  BY <1>2, <1>3, GoodSameQueue DEF Agreement, Keeps
<1>5. QED
  BY <1>1, <1>3, <1>4, LocalAnswersStep

LEMMA ConnectFailedAgrees ==
    ASSUME IInv, Agreement, ConnectFailed
    PROVE  Agreement'
<1>1. LinkDown /\ replies' = replies /\ link = "connecting"
  BY DEF ConnectFailed
<1>2. \A n \in Nodes \ {Local} : replies'[n] = <<>>
  BY <1>1, AnswersNeedLink
<1>3. QED
  BY <1>1, <1>2, ShorterSelf, LinkDownAgrees

LEMMA LinkLostAgrees ==
    ASSUME IInv, Agreement, LinkLost
    PROVE  Agreement'
<1>1. LinkDown /\ replies' = LocalRepliesOnly
  BY DEF LinkLost
<1>2. \A n \in Nodes \ {Local} : replies'[n] = <<>>
  BY <1>1 DEF LocalRepliesOnly
<1>3. QED
  BY <1>1, <1>2, ShorterLocal, LinkDownAgrees

\* A step that only sets the client's state.
LEMMA StateOnly ==
    ASSUME IInv, Agreement, NEW s \in ClientStates, cl' = [cl EXCEPT !.state = s],
           inflight' = inflight, dev' = dev, Shorter(replies', replies),
           \A n \in Nodes \ {Local} : replies'[n] = <<>>
    PROVE  Agreement'
<1>1. Good(cl', dev) /\ Keeps(cl', cl) /\ SameRecord(cl', cl) /\ cl'.queue = cl.queue
  BY GoodState DEF Agreement
<1>2. QED
  BY <1>1, LocalAnswersStep DEF Keeps

LEMMA ConnectNetworkAgrees ==
    ASSUME IInv, Agreement, ConnectNetwork
    PROVE  Agreement'
<1>1. /\ cl' = [cl EXCEPT !.state = "NETWORK_CONNECT"] /\ link # "up"
      /\ inflight' = inflight /\ dev' = dev /\ replies' = replies
  BY DEF ConnectNetwork
<1>2. \A n \in Nodes \ {Local} : replies'[n] = <<>>
  BY <1>1, AnswersNeedLink
<1>3. QED
  BY <1>1, <1>2, ShorterSelf, StateOnly DEF ClientStates

LEMMA DisconnectNetworkAgrees ==
    ASSUME IInv, Agreement, DisconnectNetwork
    PROVE  Agreement'
<1>1. /\ cl' = [cl EXCEPT !.state = "IDLE"]
      /\ inflight' = inflight /\ dev' = dev /\ replies' = LocalRepliesOnly
  BY DEF DisconnectNetwork
<1>2. \A n \in Nodes \ {Local} : replies'[n] = <<>>
  BY <1>1 DEF LocalRepliesOnly
<1>3. QED
  BY <1>1, <1>2, ShorterLocal, StateOnly DEF ClientStates

\* A new session: nothing is pending, and what the database holds is still true.
LEMMA RestartedAgrees ==
    ASSUME IInv, Agreement, IInv', NEW c, Restarted(c), SameRecord(c, cl), c \in Client,
           c.nodes = cl.nodes, c.blocked \in SUBSET Nodes, cl.blocked \subseteq c.blocked
    PROVE  Agreement'
<1>1. cl' = Reopened(c) /\ inflight' = {} /\ replies' = [n \in Nodes |-> <<>>]
      /\ dev' = [dev EXCEPT ![Local] = LocalDevice(c)]
  BY DEF Restarted
<1>2. cl'.queue = <<>> /\ SameRecord(cl', cl) /\ cl'.nodes = cl.nodes /\ cl'.blocked = c.blocked
  BY <1>1 DEF Reopened, Client, SameRecord
<1>3. \A n \in Participants(cl') : UpdatesFit(cl', n) /\ RecordFits(cl', dev'[n], n)
  <2>1. TAKE n \in Participants(cl')
  <2>2. n \in Participants(cl)
    BY <1>2 DEF Participants
  <2>3. n \in Nodes /\ n # Local
    BY <2>2, ParticipantIsNode DEF IInv, Sound
  <2>4. dev'[n] = dev[n]
    BY <1>1, <2>3 DEF IInv, Environment
  <2>5. RecordFits(cl', dev[n], n)
    BY <1>2, <2>2, SameRecordFits DEF Agreement, Good
  <2>6. UpdatesFit(cl', n)
    BY <1>2 DEF UpdatesFit
  <2>7. QED
    BY <2>4, <2>5, <2>6
<1>4. Good(cl', dev')
  BY <1>2, <1>3 DEF IInv, Good, Aimed
<1>5. QED
  BY <1>1, <1>4 DEF Agreement, OnlyHeadSent, AnswersFit, OneCounted

LEMMA ReopenAgrees ==
    ASSUME IInv, Agreement, Reopen
    PROVE  Agreement'
<1>1. IInv'
  BY ReopenStep
<1>2. Restarted(cl) /\ cl \in Client
  BY DEF Reopen, IInv, Sound
<1>3. cl.blocked \in SUBSET Nodes
  BY <1>2 DEF Client
<1>4. QED
  BY <1>1, <1>2, <1>3, RestartedAgrees DEF SameRecord

LEMMA CrashAgrees ==
    ASSUME IInv, Agreement, NEW n \in Removable, CrashInResetNode(n)
    PROVE  Agreement'
<1> DEFINE B == cl.blocked \cup {n}
           c == [cl EXCEPT !.blocked = B]
<1>1. IInv'
  BY CrashStep
<1>2. cl \in Client /\ B \in SUBSET Nodes /\ cl.blocked \subseteq B
  BY MeshAssumption DEF IInv, Sound, Client
<1>3. Restarted(c)
  BY DEF CrashInResetNode
<1> HIDE DEF B
<1>4. c \in Client /\ SameRecord(c, cl) /\ c.nodes = cl.nodes /\ c.blocked = B
  BY <1>2 DEF Client, SameRecord
<1> HIDE DEF c
<1>5. QED
  BY <1>1, <1>2, <1>3, <1>4, RestartedAgrees

-----------------------------------------------------------------------------
(* Agreement: answers delivered, messages failed. *)

\* Plain has no second delivery: the status leaves its node's answers.
LEMMA PlainDelivery ==
    ASSUME Plain, IInv, NEW n \in Nodes, DeliverStatus(n)
    PROVE  replies' = [replies EXCEPT ![n] = Tail(@)] /\ replies[n] # <<>>
<1>1. used["dups"] \in Nat /\ Bounds["dups"] = 0
  BY DEF Plain, IInv, Environment, Bounds
<1>2. ~ Within("dups")
  BY <1>1 DEF Within
<1>3. QED
  BY <1>2 DEF DeliverStatus, Arrives

\* If the client counted the status, or dropped the head for it, nothing that is
\* left counts.
LEMMA RestUncounted ==
    ASSUME Plain, IInv, Agreement, NEW n \in Nodes, DeliverStatus(n),
           Handled(cl', cl, dev, Head(replies[n])),
           ~ Kept(cl', cl) \/ Counts(cl, Head(replies[n])),
           NEW m \in Nodes, NEW i \in DOMAIN replies'[m]
    PROVE  /\ ~ Counts(cl', replies'[m][i])
           /\ Counts(cl, Head(replies[n])) => ~ Counts(cl, replies'[m][i])
<1> DEFINE st == Head(replies[n])
           x  == replies'[m][i]
<1>1. replies' = [replies EXCEPT ![n] = Tail(@)] /\ replies[n] # <<>>
  BY PlainDelivery
<1>2. replies \in [Nodes -> Seq(Status)] /\ 1 \in DOMAIN replies[n] /\ st = replies[n][1]
  BY <1>1 DEF IInv, Environment
<1>3. \E k \in DOMAIN replies[m] : x = replies[m][k] /\ (m = n => k # 1)
  <2>1. CASE m = n
    <3> DEFINE s == replies[n]
    <3>1. replies'[m] = Tail(s) /\ s \in Seq(Status) /\ s # <<>>
      BY <1>1, <1>2, <2>1
    <3> HIDE DEF s
    <3>2. i \in DOMAIN Tail(s) /\ x = Tail(s)[i]
      BY <3>1
    <3>3. i \in Nat /\ i + 1 \in DOMAIN s /\ x = s[i + 1] /\ i + 1 # 1
      BY <3>1, <3>2
    <3>4. QED
      BY <2>1, <3>3 DEF s
  <2>2. CASE m # n
    BY <1>1, <1>2, <2>2
  <2>3. QED
    BY <2>1, <2>2
<1>4. PICK k \in DOMAIN replies[m] : x = replies[m][k] /\ (m = n => k # 1)
  BY <1>3
<1>5. Fits(cl, dev[m], m, x, link) /\ Fits(cl, dev[n], n, st, link)
  BY <1>2, <1>4 DEF Agreement, AnswersFit
<1>6. Counts(cl, st) => ~ Counts(cl, x)
  BY <1>2, <1>4 DEF Agreement, OneCounted
<1>7. Counts(cl', x) => Counts(cl, x)
  BY DEF Handled, Counts
<1> HIDE DEF st, x
<1>8. ASSUME Counts(cl', x) PROVE FALSE
  <2>1. Counts(cl, x) /\ ~ Counts(cl, st)
    BY <1>6, <1>7, <1>8
  <2>2. ~ Kept(cl', cl)
    BY <2>1 DEF st
  <2>3. cl.queue # <<>> /\ Answers(x, Head(cl.queue))
    BY <1>5, <2>1 DEF Fits, AnswersHead
  <2>4. \/ Answers(st, Head(cl.queue))
        \/ Head(cl.queue).kind = "NODE_RESET" /\ Head(cl.queue).dst = st.src
    BY <2>2, <2>3 DEF Handled, AnswersHead, Mistaken, st
  <2>5. ~ Quiet(cl) /\ st.kind # "FILTER_ADD" /\ st.src \notin Staying(cl)
    BY <2>1 DEF Counts
  <2>6. x.kind # "FILTER_ADD" /\ x.src = st.src
    BY <2>3, <2>4, <2>5 DEF Answers
  <2>7. QED
    BY <2>1, <2>5, <2>6 DEF Counts
<1>9. QED
  BY <1>6, <1>8 DEF st, x

LEMMA DeliverStatusAgrees ==
    ASSUME Plain, IInv, Agreement, InTime(cl), InTime(cl'), NEW n \in Nodes, DeliverStatus(n)
    PROVE  Agreement'
<1> DEFINE st == Head(replies[n])
<1>1. replies' = [replies EXCEPT ![n] = Tail(@)] /\ replies[n] # <<>>
  BY PlainDelivery
<1>2. replies \in [Nodes -> Seq(Status)] /\ 1 \in DOMAIN replies[n] /\ st = replies[n][1]
      /\ st \in Status
  BY <1>1 DEF IInv, Environment
<1>3. PICK u \in BOOLEAN : cl' = OnStatus(cl, st, u)
  BY DEF DeliverStatus
<1>4. /\ inflight' = Outstanding(cl', {o \in inflight : ~ Answers(st, o)})
      /\ dev' = dev /\ link' = link
  BY DEF DeliverStatus
<1>5. Fits(cl, dev[n], n, st, link)
  BY <1>2 DEF Agreement, AnswersFit
<1>6. Timely(cl, dev, st)
  BY <1>2, <1>5 DEF Timely, Fits
<1>7. Handled(cl', cl, dev, st)
  <2>1. InTime(OnStatus(cl, st, u))
    BY <1>3
  <2> HIDE DEF st
  <2>2. Handled(OnStatus(cl, st, u), cl, dev, st)
    BY <1>6, <2>1, OnStatusHandled DEF Agreement, IInv, Plain
  <2>3. QED
    BY <1>3, <2>2
<1>8. Shorter(replies', replies)
  BY <1>1, ShorterTail
<1>9. OnlyHeadSent(cl', inflight')
  <2> SUFFICES ASSUME NEW o \in inflight' PROVE cl'.queue # <<>> /\ o = Head(cl'.queue)
    BY DEF OnlyHeadSent
  <2>1. o \in inflight /\ ~ Answers(st, o) /\ \E i \in DOMAIN cl'.queue : cl'.queue[i] = o
    BY <1>4, PlainOutstanding
  <2>2. cl.queue # <<>> /\ o = Head(cl.queue)
    BY <2>1 DEF Agreement, OnlyHeadSent
  <2>3. ~ AnswersHead(cl, st)
    BY <2>1, <2>2 DEF AnswersHead
  <2>4. ASSUME Mistaken(cl', cl, st) PROVE FALSE
    <3>1. cl'.queue = Tail(cl.queue) /\ o.kind = "NODE_RESET" /\ o.dst = n
          /\ ~ TwoResets(cl, n)
      BY <1>5, <2>2, <2>4 DEF Mistaken, Fits
    <3>2. PICK i \in DOMAIN cl'.queue : cl'.queue[i] = o
      BY <2>1
    <3>3. cl.queue \in Seq(Op)
      BY DEF IInv, Sound, Client
    <3>4. /\ i \in Nat /\ i # 0 /\ i + 1 \in DOMAIN cl.queue /\ cl.queue[i + 1] = o
          /\ 1 \in DOMAIN cl.queue /\ cl.queue[1] = o
      BY <2>2, <3>1, <3>2, <3>3, TailElements
    <3>5. i + 1 # 1
      BY <3>4
    <3>6. QED
      BY <3>1, <3>4, <3>5 DEF TwoResets
  <2>5. Kept(cl', cl)
    BY <1>7, <2>2, <2>3, <2>4 DEF Handled
  <2>6. QED
    BY <2>2, <2>5 DEF Kept
<1>10. ASSUME NEW m \in Nodes, NEW i \in DOMAIN replies'[m],
              Fits(cl, dev[m], m, replies'[m][i], link)
       PROVE  /\ Fits(cl', dev'[m], m, replies'[m][i], link')
              /\ Counts(cl', replies'[m][i]) => Counts(cl, replies'[m][i])
  <2> DEFINE x == replies'[m][i]
  <2>1. m # Local => link' = "up"
    BY <1>4, <1>10 DEF Fits
  <2>2. CASE Kept(cl', cl)
    <3>1. cl.queue # <<>> => cl'.queue # <<>> /\ Head(cl'.queue) = Head(cl.queue)
      BY <2>2 DEF Kept
    <3>2. NoNewResets(cl', cl)
      BY <2>2, SameQueueResets DEF Kept
    <3>3. Staying(cl') = Staying(cl) /\ (Quiet(cl') => Quiet(cl))
      BY <1>7 DEF Handled
    <3> HIDE DEF x
    <3>4. Fits(cl', dev[m], m, x, link') /\ (Counts(cl', x) => Counts(cl, x))
      BY <1>10, <2>1, <2>2, <3>1, <3>2, <3>3, StillFits DEF Kept, x
    <3>5. QED
      BY <1>4, <3>4 DEF x
  <2>3. CASE ~ Kept(cl', cl)
    <3>1. /\ ~ Counts(cl', x)
          /\ Counts(cl, st) => ~ Counts(cl, x)
      BY <1>7, <2>3, RestUncounted
    <3>2. TwoResets(cl', m) => TwoResets(cl, m)
      <4>1. CASE cl.state = "NETWORK_CONNECT"
        <5>1. Counts(cl, st) /\ Counts(cl, x)
          BY <4>1 DEF Counts, Quiet
        <5>2. QED
          BY <3>1, <5>1
      <4>2. CASE cl.state # "NETWORK_CONNECT"
        BY <1>7, <4>2 DEF Handled, NoNewResets
      <4>3. QED
        BY <4>1, <4>2
    <3> HIDE DEF x
    <3>3. Fits(cl', dev'[m], m, x, link')
      BY <1>10, <2>1, <3>1, <3>2, UncountedFits DEF x
    <3>4. QED
      BY <3>1, <3>3 DEF x
  <2>4. QED
    BY <2>2, <2>3
<1>11. AnswersFit(cl', dev', replies', link') /\ OneCounted(cl', replies')
  <2>1. CarryOver(replies', cl, dev, link, cl', dev', link')
    BY <1>10 DEF CarryOver
  <2>2. QED
    BY <1>2, <1>8, <2>1, FewerAnswers DEF Agreement
<1>12. Good(cl', dev')
  BY <1>4, <1>7 DEF Handled
<1>13. QED
  BY <1>9, <1>11, <1>12 DEF Agreement

LEMMA TxFailedAgrees ==
    ASSUME Plain, IInv, Agreement, InTime(cl'), NEW o \in inflight, TxFailed(o)
    PROVE  Agreement'
<1>1. /\ cl' = OnTxFailed(cl, o.dst) /\ inflight' = Outstanding(cl', inflight \ {o})
      /\ dev' = dev /\ link' = link /\ replies' = replies /\ ~ Answered(o)
  BY DEF TxFailed, GivesUp
<1>2. /\ cl.queue # <<>> /\ o = Head(cl.queue)
      /\ \A n \in Nodes : \A i \in DOMAIN replies[n] : ~ Counts(cl, replies[n][i])
  BY <1>1, NoneCounted
<1>3. /\ Good(cl', dev) /\ Staying(cl') = Staying(cl) /\ NoNewResets(cl', cl)
      /\ cl' = cl \/ ~ Quiet(cl')
  BY <1>1, GoodOnTxFailed DEF Plain, Agreement, IInv
<1>4. inflight' = {}
  <2> SUFFICES ASSUME NEW p \in inflight' PROVE FALSE
    OBVIOUS
  <2>1. p \in inflight \ {o}
    BY <1>1, PlainOutstanding
  <2>2. QED
    BY <1>2, <2>1 DEF Agreement, OnlyHeadSent
<1>5. ASSUME NEW n \in Nodes, NEW i \in DOMAIN replies'[n],
             Fits(cl, dev[n], n, replies'[n][i], link)
      PROVE  /\ Fits(cl', dev'[n], n, replies'[n][i], link')
             /\ Counts(cl', replies'[n][i]) => Counts(cl, replies'[n][i])
  <2>1. ~ Counts(cl, replies'[n][i])
    BY <1>1, <1>2, <1>5
  <2>2. ~ Counts(cl', replies'[n][i])
    BY <1>3, <2>1 DEF Counts
  <2>3. TwoResets(cl', n) => TwoResets(cl, n)
    BY <1>3 DEF NoNewResets
  <2>4. n # Local => link' = "up"
    BY <1>1, <1>5 DEF Fits
  <2>5. QED
    BY <1>5, <2>2, <2>3, <2>4, UncountedFits
<1>6. replies \in [Nodes -> Seq(Status)] /\ Shorter(replies', replies)
  BY <1>1, ShorterSelf DEF IInv, Environment
<1>7. AnswersFit(cl', dev', replies', link') /\ OneCounted(cl', replies')
  <2>1. CarryOver(replies', cl, dev, link, cl', dev', link')
    BY <1>5 DEF CarryOver
  <2>2. QED
    BY <1>6, <2>1, FewerAnswers DEF Agreement
<1>8. QED
  BY <1>1, <1>3, <1>4, <1>7 DEF Agreement, OnlyHeadSent

-----------------------------------------------------------------------------
(* Agreement: a node handles a message; a node is removed. *)

\* The head reaches the participant it is for.
LEMMA AfterFits ==
    ASSUME NEW c, Sound(c), Aimed(c), InTime(c), NEW p \in Participants(c),
           NEW e \in Device, UpdatesFit(c, p), RecordFits(c, e, p),
           1 \in DOMAIN c.queue, NEW o \in Op, o = c.queue[1], o.dst = p, NEW st,
           st.kind = o.kind, st.key = o.key, st.ok = Accepts(e, o)
    PROVE  RecordFits(c, After(e, o), p) /\ TrueAnswer(c, After(e, o), st)
<1> DEFINE f == After(e, o)
<1>1. /\ e.phase \in {NORMAL, FIRST, SECOND} /\ o.val \in Nat /\ c.gen \in Nat
      /\ o.key \in Keys /\ c.netPhase \in Phases
      /\ e.app \in [AppKeys -> Nat]
  BY DEF Device, Op, Sound, Client
<1>2. o.kind # "NODE_RESET" /\ o.kind # "FILTER_ADD"
  <2>1. o.kind # "FILTER_ADD"
    BY ClientAssumption, ParticipantIsNode DEF Op, Sound
  <2>2. p \in Staying(c)
    BY DEF Participants, Staying
  <2>3. QED
    BY <2>1, <2>2 DEF Aimed
<1>3. CASE o.kind = "KEY_UPDATE"
  <2>1. o.val = c.gen /\ c.netPhase \in {FIRST, SECOND}
    BY <1>3 DEF UpdatesFit, IsUpdate
  <2>2. CASE ~ Accepts(e, o)
    <3>1. f = e
      BY <1>3, <2>2 DEF After
    <3> HIDE DEF f
    <3>2. QED
      BY <2>2, <3>1 DEF TrueAnswer, f
  <2>3. CASE Accepts(e, o) /\ o.key = NetKey
    <3> DEFINE g == [e EXCEPT !.phase = FIRST, !.old = e.cur, !.cur = o.val]
    <3>0. g.cur = c.gen /\ g.app = e.app
      BY <2>1 DEF Device
    <3> HIDE DEF g
    <3>1. /\ f.cur = c.gen /\ f.app = e.app
      <4>1. f = IF e.phase = FIRST THEN e ELSE g
        BY <1>3, <2>3 DEF After, g
      <4>2. e.phase = FIRST => e.cur = o.val
        BY <1>3, <2>3 DEF Accepts
      <4> HIDE DEF f
      <4>3. QED
        BY <2>1, <3>0, <4>1, <4>2
    <3> HIDE DEF f
    <3>2. \A k \in Keys : HasKey(c, e, k) => HasKey(c, f, k)
      BY <3>1 DEF HasKey
    <3>3. RecordFits(c, f, p)
      BY <2>1, <3>1, <3>2 DEF RecordFits, HasAll
    <3>4. TrueAnswer(c, f, st)
      BY <1>3, <2>3, <3>1 DEF TrueAnswer, HasKey
    <3>5. QED
      BY <3>3, <3>4 DEF f
  <2>4. CASE Accepts(e, o) /\ o.key # NetKey
    <3>1. o.key \in AppKeys
      BY <1>1, <2>4 DEF Keys
    <3>2. f = [e EXCEPT !.app[o.key] = o.val]
      BY <1>3, <2>4 DEF After
    <3>3. /\ f.cur = e.cur /\ f.phase = e.phase
          /\ \A k \in AppKeys : f.app[k] = IF k = o.key THEN c.gen ELSE e.app[k]
      BY <1>1, <2>1, <3>1, <3>2 DEF Device
    <3> HIDE DEF f
    <3>4. \A k \in Keys : HasKey(c, e, k) \/ k = o.key => HasKey(c, f, k)
      BY <2>4, <3>1, <3>3 DEF HasKey, Keys
    <3>5. RecordFits(c, f, p)
      BY <2>1, <3>3, <3>4 DEF RecordFits, HasAll
    <3>6. TrueAnswer(c, f, st)
      BY <1>1, <1>3, <3>4 DEF TrueAnswer
    <3>7. QED
      BY <3>5, <3>6 DEF f
  <2>5. QED
    BY <2>2, <2>3, <2>4
<1>4. CASE o.kind = "KR_PHASE_SET"
  <2>1. o.val = c.netPhase /\ c.netPhase \in {SECOND, THIRD}
    BY <1>4 DEF InTime, Aimed
  <2>2. /\ f.cur = e.cur /\ f.app = e.app
        /\ c.netPhase = THIRD => f.phase = NORMAL
    BY <1>1, <1>4, <2>1 DEF After, Accepts, Device
  <2> HIDE DEF f
  <2>3. \A k \in Keys : HasKey(c, e, k) => HasKey(c, f, k)
    BY <2>2 DEF HasKey
  <2>4. RecordFits(c, f, p)
    BY <2>1, <2>2, <2>3 DEF RecordFits, HasAll
  <2>5. TrueAnswer(c, f, st)
    BY <1>4, <2>2 DEF TrueAnswer
  <2>6. QED
    BY <2>4, <2>5 DEF f
<1>5. QED
  BY <1>1, <1>2, <1>3, <1>4 DEF Op, OpKinds

LEMMA NodeHandlesAgrees ==
    ASSUME IInv, Agreement, InTime(cl), NEW o \in inflight, NodeHandles(o)
    PROVE  Agreement'
<1> DEFINE n  == IF o.kind = "FILTER_ADD" THEN proxy ELSE o.dst
           st == Answer(o)
<1>1. /\ ~ Answered(o) /\ Reaches(o)
      /\ dev' = IF o.kind = "FILTER_ADD" THEN dev ELSE [dev EXCEPT ![o.dst] = After(@, o)]
      /\ replies' = [replies EXCEPT ![st.src] = Append(@, st)]
      /\ cl' = cl /\ inflight' = inflight /\ link' = link
  BY DEF NodeHandles
<1>2. /\ cl.queue # <<>> /\ o = Head(cl.queue)
      /\ \A m \in Nodes : \A i \in DOMAIN replies[m] : ~ Counts(cl, replies[m][i])
  BY <1>1, NoneCounted
<1>3. /\ o \in Op /\ dev \in [Nodes -> Device] /\ replies \in [Nodes -> Seq(Status)]
      /\ proxy \in Nodes /\ cl.queue \in Seq(Op)
      /\ Sound(cl) /\ Aimed(cl)
  BY DEF IInv, Environment, Sound, Client, Agreement, Good
<1>4. n \in Nodes /\ st.src = n /\ st.kind = o.kind /\ st.key = o.key /\ st.ok = Accepts(dev[n], o)
  BY <1>3 DEF Op, Answer
<1>5. o = cl.queue[1] /\ 1 \in DOMAIN cl.queue
  BY <1>2, <1>3
<1> HIDE DEF st
<1>6. \A p \in Participants(cl) :
         /\ RecordFits(cl, dev'[p], p)
         /\ p = n => TrueAnswer(cl, dev'[p], st)
  <2>1. TAKE p \in Participants(cl)
  <2>2. UpdatesFit(cl, p) /\ RecordFits(cl, dev[p], p) /\ p \in Nodes
    BY ParticipantIsNode DEF Agreement, Good, Sound
  <2>3. CASE o.kind = "FILTER_ADD"
    BY <1>1, <1>4, <2>2, <2>3 DEF TrueAnswer
  <2>4. CASE o.kind # "FILTER_ADD" /\ p = n
    <3>1. o.dst = p /\ dev'[p] = After(dev[p], o) /\ dev[p] \in Device
      BY <1>1, <1>3, <2>2, <2>4
    <3>2. st.ok = Accepts(dev[p], o)
      BY <1>4, <2>4
    <3>3. RecordFits(cl, After(dev[p], o), p) /\ TrueAnswer(cl, After(dev[p], o), st)
      BY <1>3, <1>4, <1>5, <2>2, <3>1, <3>2, AfterFits
    <3>4. QED
      BY <3>1, <3>3
  <2>5. CASE o.kind # "FILTER_ADD" /\ p # n
    BY <1>1, <1>3, <2>2, <2>5
  <2>6. QED
    BY <2>3, <2>4, <2>5
<1>7. Good(cl', dev')
  BY <1>1, <1>6 DEF Agreement, Good
<1>8. Fits(cl, dev'[n], n, st, link)
  <2>1. Counts(cl, st) => AnswersHead(cl, st)
    BY <1>2, <1>4 DEF AnswersHead, Answers
  <2>2. st.kind = "KR_PHASE_SET" => ~ TwoResets(cl, n)
    <3> SUFFICES ASSUME st.kind = "KR_PHASE_SET", TwoResets(cl, n) PROVE FALSE
      OBVIOUS
    <3>1. n \in Staying(cl)
      BY <1>3, <1>4, <1>5 DEF Aimed
    <3>2. QED
      BY <1>3, <3>1 DEF Aimed, TwoResets
  <2>3. n # Local => link = "up"
    BY <1>1 DEF Reaches
  <2>4. n \in Participants(cl) => TrueAnswer(cl, dev'[n], st)
    BY <1>6
  <2>5. QED
    BY <1>4, <2>1, <2>2, <2>3, <2>4 DEF Fits
<1>9. ASSUME NEW m \in Nodes, NEW i \in DOMAIN replies'[m]
      PROVE  \/ m = n /\ i = Len(replies[n]) + 1 /\ replies'[m][i] = st
             \/ i \in DOMAIN replies[m] /\ replies'[m][i] = replies[m][i]
  <2>1. CASE m = n
    <3> DEFINE s == replies[n]
    <3>1. s \in Seq(Status) /\ replies'[m] = Append(s, st)
      BY <1>1, <1>3, <1>4, <2>1
    <3> HIDE DEF s
    <3>2. i = Len(s) + 1 \/ i \in DOMAIN s
      BY <1>9, <3>1
    <3>3. Append(s, st)[Len(s) + 1] = st /\ \A j \in DOMAIN s : Append(s, st)[j] = s[j]
      BY <3>1
    <3>4. QED
      BY <2>1, <3>1, <3>2, <3>3 DEF s
  <2>2. CASE m # n
    BY <1>1, <1>3, <1>4, <1>9, <2>2
  <2>3. QED
    BY <2>1, <2>2
<1> HIDE DEF n
<1>10. AnswersFit(cl', dev', replies', link')
  <2> SUFFICES ASSUME NEW m \in Nodes, NEW i \in DOMAIN replies'[m]
               PROVE  Fits(cl, dev'[m], m, replies'[m][i], link)
    BY <1>1 DEF AnswersFit
  <2>1. CASE m = n /\ replies'[m][i] = st
    BY <1>8, <2>1
  <2>2. CASE i \in DOMAIN replies[m] /\ replies'[m][i] = replies[m][i]
    <3> DEFINE x == replies[m][i]
    <3>1. Fits(cl, dev[m], m, x, link)
      BY <2>2 DEF Agreement, AnswersFit
    <3>2. ~ Counts(cl, x)
      BY <1>2, <2>2
    <3>3. m # Local => link = "up"
      BY <3>1 DEF Fits
    <3> HIDE DEF x
    <3>4. Fits(cl, dev'[m], m, x, link)
      BY <3>1, <3>2, <3>3, UncountedFits
    <3>5. QED
      BY <2>2, <3>4 DEF x
  <2>3. QED
    BY <1>9, <2>1, <2>2
<1>11. OneCounted(cl', replies')
  <2>1. ASSUME NEW m \in Nodes, NEW i \in DOMAIN replies'[m], Counts(cl, replies'[m][i])
        PROVE  m = n /\ i = Len(replies[n]) + 1
    BY <1>2, <1>9, <2>1
  <2>2. QED
    BY <1>1, <2>1 DEF OneCounted
<1>12. OnlyHeadSent(cl', inflight')
  BY <1>1 DEF Agreement, OnlyHeadSent
<1>13. QED
  BY <1>7, <1>10, <1>11, <1>12 DEF Agreement

LEMMA ResetDeviceAgrees ==
    ASSUME Plain, IInv, Agreement, InTime(cl), InTime(cl'), NEW n \in Removable, ResetDevice(n)
    PROVE  Agreement'
<1>1. /\ n \in Nodes \ {Local} /\ n \in Staying(cl) /\ cl.state = "IDLE"
      /\ cl' = ResetNode(cl, n) /\ inflight' = Outstanding(cl', inflight)
      /\ dev' = dev /\ replies' = replies /\ link' = link
  BY MeshAssumption DEF ResetDevice, Staying
<1>2. InTime(ResetNode(cl, n))
  BY <1>1
<1>3. /\ Good(cl', dev) /\ Staying(cl') = Staying(cl) \ {n} /\ ~ Quiet(cl')
      /\ NoNewResets(cl', cl)
      /\ cl.queue # <<>> /\ Head(cl.queue).dst # n =>
            cl'.queue # <<>> /\ Head(cl'.queue) = Head(cl.queue)
  BY <1>1, <1>2, GoodResetNode DEF Agreement, Plain
<1>4. /\ cl.queue \in Seq(Op) /\ cl'.queue \in Seq(Op) /\ Aimed(cl) /\ Aimed(cl')
      /\ cl.queue # <<>> => /\ Head(cl.queue) \in Op /\ Head(cl.queue) = cl.queue[1]
                            /\ 1 \in DOMAIN cl.queue
      /\ cl'.queue # <<>> => Head(cl'.queue) = cl'.queue[1] /\ 1 \in DOMAIN cl'.queue
  BY <1>3 DEF Agreement, Good, Sound, Client
<1>5. \A o \in Op : o.kind = "FILTER_ADD" => o.dst # n
  BY <1>1, ClientAssumption DEF Op
<1>6. OnlyHeadSent(cl', inflight')
  <2> SUFFICES ASSUME NEW o \in inflight' PROVE cl'.queue # <<>> /\ o = Head(cl'.queue)
    BY DEF OnlyHeadSent
  <2>1. o \in inflight /\ \E i \in DOMAIN cl'.queue : cl'.queue[i] = o
    BY <1>1, PlainOutstanding
  <2>2. cl.queue # <<>> /\ o = Head(cl.queue)
    BY <2>1 DEF Agreement, OnlyHeadSent
  <2>3. o.dst # n
    <3> SUFFICES ASSUME o.dst = n PROVE FALSE
      OBVIOUS
    <3>1. o \in Op /\ o = cl.queue[1] /\ 1 \in DOMAIN cl.queue
      BY <1>4, <2>2
    <3>2. o.kind # "NODE_RESET"
      BY <1>1, <1>4, <3>1 DEF Aimed
    <3>3. o.kind \in {"KEY_UPDATE", "KR_PHASE_SET"}
      BY <1>5, <3>1, <3>2 DEF Op, OpKinds
    <3>4. o.dst \in Staying(cl')
      BY <1>4, <2>1, <3>3 DEF Aimed
    <3>5. QED
      BY <1>3, <3>4
  <2>4. QED
    BY <1>3, <2>2, <2>3
<1>7. ASSUME NEW m \in Nodes, NEW i \in DOMAIN replies'[m],
             Fits(cl, dev[m], m, replies'[m][i], link)
      PROVE  /\ Fits(cl', dev'[m], m, replies'[m][i], link')
             /\ Counts(cl', replies'[m][i]) => Counts(cl, replies'[m][i])
  <2> DEFINE x == replies'[m][i]
  <2> HIDE DEF x
  <2>1. Counts(cl', x) => Counts(cl, x)
    BY <1>3 DEF Counts
  <2>2. Fits(cl, dev[m], m, x, link)
    BY <1>7 DEF x
  <2>3. Counts(cl', x) => AnswersHead(cl, x) /\ AnswersHead(cl', x)
    <3> SUFFICES ASSUME Counts(cl', x) PROVE AnswersHead(cl, x) /\ AnswersHead(cl', x)
      OBVIOUS
    <3>1. AnswersHead(cl, x)
      BY <2>1, <2>2 DEF Fits
    <3>2. Head(cl.queue).dst # n
      <4>1. CASE x.kind = "FILTER_ADD"
        BY <1>4, <1>5, <3>1, <4>1 DEF AnswersHead, Answers
      <4>2. CASE x.kind # "FILTER_ADD"
        <5>1. x.src \in Staying(cl')
          BY <1>3, <4>2 DEF Counts
        <5>2. QED
          BY <1>3, <3>1, <4>2, <5>1 DEF AnswersHead, Answers
      <4>3. QED
        BY <4>1, <4>2
    <3>3. QED
      BY <1>3, <3>1, <3>2 DEF AnswersHead
  <2>4. m \in Participants(cl') => TrueAnswer(cl', dev[m], x)
    <3> SUFFICES ASSUME m \in Participants(cl') PROVE TrueAnswer(cl', dev[m], x)
      OBVIOUS
    <3>1. m \in Participants(cl) /\ m \in Staying(cl') /\ x.src = m
      BY <1>3, <2>2 DEF Participants, Staying, Fits
    <3>2. TrueAnswer(cl, dev[m], x)
      BY <2>2, <3>1 DEF Fits
    <3>3. AnswersHead(cl, x) /\ AnswersHead(cl', x)
      BY <2>3, <3>1 DEF Counts
    <3> DEFINE o == cl.queue[1]
    <3>4. o = cl.queue[1] /\ o = cl'.queue[1] /\ 1 \in DOMAIN cl.queue /\ 1 \in DOMAIN cl'.queue
          /\ Answers(x, o)
      <4>1. cl.queue # <<>> /\ Answers(x, Head(cl.queue)) /\ cl'.queue # <<>>
        BY <3>3 DEF AnswersHead
      <4>2. Head(cl.queue).dst # n \/ Head(cl.queue).kind \in {"FILTER_ADD"}
        BY <1>3, <3>1, <4>1 DEF Answers
      <4>3. Head(cl.queue).dst # n
        BY <1>4, <1>5, <4>1, <4>2
      <4>4. QED
        BY <1>3, <1>4, <4>1, <4>3
    <3> HIDE DEF o
    <3>5. CASE x.kind = "KEY_UPDATE"
      <4>1. IsUpdate(o, m)
        BY <3>1, <3>4, <3>5 DEF Answers, IsUpdate
      <4>2. o.val = cl.gen /\ o.val = cl'.gen
        BY <1>3, <3>1, <3>4, <4>1 DEF Agreement, Good, UpdatesFit
      <4>3. QED
        BY <3>2, <3>5, <4>2 DEF TrueAnswer, HasKey
    <3>6. CASE x.kind = "KR_PHASE_SET"
      <4>1. o.kind = "KR_PHASE_SET" /\ o.dst = m
        BY <3>1, <3>4, <3>6 DEF Answers
      <4>2. o.val = cl.netPhase /\ o.val = cl'.netPhase
        BY <3>1, <3>4, <4>1 DEF InTime
      <4>3. QED
        BY <3>2, <3>6, <4>2 DEF TrueAnswer
    <3>7. CASE x.kind \notin {"KEY_UPDATE", "KR_PHASE_SET"}
      BY <3>7 DEF TrueAnswer
    <3>8. QED
      BY <3>5, <3>6, <3>7
  <2>5. Fits(cl', dev[m], m, x, link)
    BY <1>3, <2>2, <2>3, <2>4 DEF Fits, NoNewResets
  <2>6. QED
    BY <1>1, <2>1, <2>5 DEF x
<1>8. CarryOver(replies', cl, dev, link, cl', dev', link')
  BY <1>7 DEF CarryOver
<1>9. replies \in [Nodes -> Seq(Status)] /\ Shorter(replies', replies)
  BY <1>1, ShorterSelf DEF IInv, Environment
<1>10. AnswersFit(cl', dev', replies', link') /\ OneCounted(cl', replies')
  BY <1>8, <1>9, FewerAnswers DEF Agreement
<1>11. QED
  BY <1>1, <1>3, <1>6, <1>10 DEF Agreement

-----------------------------------------------------------------------------
(* The theorems about the keys. *)

\* Every step keeps the agreement, as long as the phase sets are in time.
LEMMA AgreementStep ==
    ASSUME Plain, IInv, Agreement, InTime(cl), InTime(cl'), [Next]_vars
    PROVE  Agreement'
<1>1. CASE OpTimer
  BY <1>1, OpTimerAgrees
<1>2. CASE \E n \in Nodes : DeliverStatus(n) \/ LoseStatus(n)
  BY <1>2, DeliverStatusAgrees, LoseStatusAgrees
<1>3. CASE \E o \in inflight : NodeHandles(o) \/ TxFailed(o)
  BY <1>3, NodeHandlesAgrees, TxFailedAgrees
<1>4. CASE \E p \in Proxies : LinkUp(p)
  BY <1>4, LinkUpAgrees
<1>5. CASE ConnectFailed
  BY <1>5, ConnectFailedAgrees
<1>6. CASE LinkLost
  BY <1>6, LinkLostAgrees
<1>7. CASE ConnectNetwork
  BY <1>7, ConnectNetworkAgrees
<1>8. CASE DisconnectNetwork
  BY <1>8, DisconnectNetworkAgrees
<1>9. CASE \E n \in Removable : ResetDevice(n) \/ CrashInResetNode(n)
  BY <1>9, ResetDeviceAgrees, CrashAgrees
<1>10. CASE Reopen
  BY <1>10, ReopenAgrees
<1>11. CASE UNCHANGED vars
  BY <1>11 DEF vars, Agreement
<1>12. QED
  BY <1>1, <1>2, <1>3, <1>4, <1>5, <1>6, <1>7, <1>8, <1>9, <1>10, <1>11 DEF Next

\* The property of KeyRefresh is InTime of the client.
LEMMA CurrentInTime == PhaseSetsCurrent <=> InTime(cl)
BY DEF PhaseSetsCurrent, InTime

\* The client, the nodes and what is on its way agree, whatever is lost, given up,
\* restarted or taken up again, as long as no phase set of an earlier phase is pending.
THEOREM AgreementHolds ==
    ASSUME Plain
    PROVE  Spec /\ []PhaseSetsCurrent => []Agreement
<1>1. IInv /\ Agreement /\ PhaseSetsCurrent /\ PhaseSetsCurrent' /\ [Next]_vars => Agreement'
  <2>1. PhaseSetsCurrent' => InTime(cl')
    BY DEF PhaseSetsCurrent, InTime
  <2>2. QED
    BY <2>1, CurrentInTime, AgreementStep
<1>2. QED
  BY <1>1, AgreementInit, Invariance, PTL DEF Spec

\* What the agreement means for the keys.
LEMMA AgreementSafe == Agreement => SwitchSafe /\ OneKeyBehind /\ OldKeyRetired
<1> SUFFICES ASSUME Agreement PROVE SwitchSafe /\ OneKeyBehind /\ OldKeyRetired
  OBVIOUS
<1>1. ASSUME NEW n \in Participants(cl)
      PROVE  /\ RecordFits(cl, dev[n], n) /\ NetKey \in Keys /\ <<NetKey, n>> \in Slots
             /\ NetKey \notin AppKeys
  BY ParticipantIsNode, ClientAssumption DEF Agreement, Good, Sound
<1>2. ASSUME NEW n \in Participants(cl), cl.netPhase # FIRST
      PROVE  /\ dev[n].cur = cl.gen
             /\ \A k \in AppKeys : <<k, n>> \in Slots => dev[n].app[k] = cl.gen
  <2>1. \A k \in Keys : <<k, n>> \in Slots => HasKey(cl, dev[n], k)
    BY <1>1, <1>2 DEF RecordFits, HasAll
  <2>2. dev[n].cur = cl.gen
    BY <1>1, <2>1 DEF HasKey
  <2>3. \A k \in AppKeys : <<k, n>> \in Slots => dev[n].app[k] = cl.gen
    BY <1>1, <2>1 DEF HasKey, Keys
  <2>4. QED
    BY <2>2, <2>3
<1>3. SwitchSafe
  BY <1>2 DEF SwitchSafe
<1>4. OneKeyBehind
  <2> SUFFICES ASSUME NEW n \in Participants(cl)
               PROVE  dev[n].cur = cl.gen \/ dev[n].cur + 1 = cl.gen
    BY DEF OneKeyBehind
  <2>1. CASE cl.netPhase = FIRST
    BY <1>1, <2>1 DEF RecordFits
  <2>2. QED
    BY <1>2, <2>1
<1>5. OldKeyRetired
  BY <1>1 DEF OldKeyRetired, RecordFits
<1>6. QED
  BY <1>3, <1>4, <1>5

\* The network key goes to its second phase only when every node that takes part has
\* all new keys, for every network of fewer than 256 keys at nodes and every bound.
THEOREM SwitchIsSafe ==
    ASSUME Plain
    PROVE  Spec /\ []PhaseSetsCurrent => []SwitchSafe
BY AgreementHolds, AgreementSafe, PTL

\* Keys are renewed only when every node that takes part has the ones before.
THEOREM NeverTwoKeysBehind ==
    ASSUME Plain
    PROVE  Spec /\ []PhaseSetsCurrent => []OneKeyBehind
BY AgreementHolds, AgreementSafe, PTL

\* When a refresh is over no node that takes part accepts the old key any more.
THEOREM OldKeysRetire ==
    ASSUME Plain
    PROVE  Spec /\ []PhaseSetsCurrent => []OldKeyRetired
BY AgreementHolds, AgreementSafe, PTL

-----------------------------------------------------------------------------
(* A user who does not go on with a refresh while phase sets of it are      *)
(* pending: each that is pending is then for the present phase.            *)

\* The operations that are no phase set.
NotSets == {o \in Op : o.kind # "KR_PHASE_SET"}

\* The operations that may be pending while the network key is in phase p.
OpsFor(p) == {o \in Op : o.kind = "KR_PHASE_SET" => o.val = p /\ p \in {SECOND, THIRD}}

\* No phase set is pending.
Unset(c) == c.queue \in Seq(NotSets)

\* All phase sets pending are for the present phase, and none waits for a connection.
Timed(c) == c.queue \in Seq(OpsFor(c.netPhase)) /\ (c.state = "NETWORK_CONNECT" => Unset(c))

LEMMA UnsetTimed ==
    ASSUME NEW c, Unset(c)
    PROVE  Timed(c)
<1> DEFINE q == c.queue
<1>1. q \in Seq(NotSets) /\ \A o \in NotSets : o \in OpsFor(c.netPhase)
  BY DEF Unset, NotSets, OpsFor
<1> HIDE DEF q
<1>2. \A i \in DOMAIN q : q[i] \in OpsFor(c.netPhase)
  BY <1>1
<1>3. q \in Seq(OpsFor(c.netPhase))
  BY <1>1, <1>2, SeqOver
<1>4. QED
  BY <1>3 DEF Timed, q

LEMMA TimedUnset ==
    ASSUME NEW c, Timed(c), c.netPhase \in {NORMAL, FIRST} \/ c.queue = <<>>
    PROVE  Unset(c)
<1> DEFINE q == c.queue
           p == c.netPhase
<1>1. q \in Seq(OpsFor(p))
  BY DEF Timed
<1>2. CASE q = <<>>
  BY <1>2 DEF Unset
<1>3. CASE p \in {NORMAL, FIRST}
  <2>1. \A o \in OpsFor(p) : o \in NotSets
    BY <1>3 DEF OpsFor, NotSets
  <2> HIDE DEF q, p
  <2>2. \A i \in DOMAIN q : q[i] \in NotSets
    BY <1>1, <2>1
  <2>3. q \in Seq(NotSets)
    BY <1>1, <2>2, SeqOver
  <2>4. QED
    BY <2>3 DEF Unset, q
<1>4. QED
  BY <1>2, <1>3

LEMMA UnsetSame ==
    ASSUME NEW r, NEW c, r.queue = c.queue, Unset(c)
    PROVE  Unset(r)
BY DEF Unset

LEMMA TimedSame ==
    ASSUME NEW r, NEW c, r.queue = c.queue, r.netPhase = c.netPhase,
           r.state = "NETWORK_CONNECT" => c.state = "NETWORK_CONNECT", Timed(c)
    PROVE  Timed(r)
BY UnsetSame DEF Timed

LEMMA UnsetAppend ==
    ASSUME NEW c, NEW r, NEW ops \in Seq(NotSets), Unset(c), r.queue = c.queue \o ops
    PROVE  Unset(r)
BY DEF Unset

LEMMA TimedExecute ==
    ASSUME NEW c, Sound(c)
    PROVE  /\ Timed(c) => Timed(Execute(c))
           /\ Unset(c) => Unset(Execute(c))
BY SoundExecute, TimedSame, UnsetSame DEF SameButQueue

\* Dropping the head or all that is pending for a node.
LEMMA TimedStartNextOp ==
    ASSUME NEW c, Sound(c), Timed(c)
    PROVE  Timed(StartNextOp(c))
<1> DEFINE r == StartNextOp(c)
           q == c.queue
<1>1. /\ r.queue = (IF q = <<>> THEN <<>> ELSE Tail(q))
      /\ r.netPhase = c.netPhase /\ r.state \in {c.state, "IDLE"}
  BY StartNextOpFields DEF Sound, SameRecord
<1> HIDE DEF r, q
<1>2. \A S : q \in Seq(S) => r.queue \in Seq(S)
  BY <1>1
<1>3. QED
  BY <1>1, <1>2 DEF Timed, Unset, r, q

LEMMA TimedClean ==
    ASSUME NEW c, Sound(c), NEW n
    PROVE  /\ Timed(c) => Timed(Clean(c, n))
           /\ Unset(c) => Unset(Clean(c, n))
<1> DEFINE T == {i \in DOMAIN c.queue : c.queue[i].dst # n}
           r == Clean(c, n)
<1>1. T \in SUBSET DOMAIN c.queue
  OBVIOUS
<1>2. r.queue = Select(c.queue, T) /\ r.netPhase = c.netPhase /\ r.state = c.state
  <2>1. T = {i \in DOMAIN c.queue : c.queue[i].dst # n} /\ c \in Client
    BY DEF Sound
  <2> HIDE DEF T
  <2>2. QED
    BY <2>1, CleanFields DEF SameRecord
<1> HIDE DEF T, r
<1>3. ASSUME NEW S, c.queue \in Seq(S) PROVE r.queue \in Seq(S)
  <2> DEFINE q == c.queue
  <2>1. q \in Seq(S) /\ T \in SUBSET DOMAIN q
    BY <1>1, <1>3
  <2> HIDE DEF q
  <2>2. Select(q, T) \in Seq(S)
    BY <2>1, SelectType
  <2>3. QED
    BY <1>2, <2>2 DEF q
<1>4. Unset(c) => Unset(r)
  BY <1>3 DEF Unset
<1>5. c.queue \in Seq(OpsFor(c.netPhase)) => r.queue \in Seq(OpsFor(r.netPhase))
  BY <1>2, <1>3
<1>6. Timed(c) => Timed(r)
  BY <1>2, <1>4, <1>5 DEF Timed
<1>7. QED
  BY <1>4, <1>6 DEF r

LEMMA TimedTransition ==
    ASSUME NEW c, Sound(c), NEW t \in {SECOND, THIRD}, Unset(c)
    PROVE  /\ Timed(Transition(c, t))
           /\ TransitionOps(c, t) = <<>> => Unset(Transition(c, t))
<1> DEFINE r == Transition(c, t)
           q == c.queue
           a == TransitionOps(c, t)
<1>1. r.queue = q \o a /\ r.netPhase = t /\ r.state # "NETWORK_CONNECT"
  BY TransitionFields DEF Sound
<1>2. a \in Seq(Op) /\ \A j \in DOMAIN a : a[j].val = t
  BY PhaseSetsScheduled
<1>3. q \in Seq(NotSets) /\ \A o \in NotSets : o \in OpsFor(t)
  BY DEF Unset, NotSets, OpsFor
<1> HIDE DEF r, q, a
<1>4. a \in Seq(OpsFor(t))
  <2>1. \A j \in DOMAIN a : a[j] \in OpsFor(t)
    BY <1>2 DEF OpsFor
  <2>2. QED
    BY <1>2, <2>1, SeqOver
<1>5. q \in Seq(OpsFor(t))
  <2>1. \A i \in DOMAIN q : q[i] \in OpsFor(t)
    BY <1>3
  <2>2. QED
    BY <1>3, <2>1, SeqOver
<1>6. q \o a \in Seq(OpsFor(t)) /\ (a = <<>> => q \o a \in Seq(NotSets))
  BY <1>3, <1>4, <1>5
<1>7. QED
  BY <1>1, <1>6 DEF Timed, Unset, r, a

LEMMA UnsetContinueFirst ==
    ASSUME NEW c, Sound(c), Unset(c)
    PROVE  Unset(ContinueFirst(c))
<1>1. CASE c.netPhase # FIRST
  BY <1>1, SoundContinueFirst
<1>2. CASE c.netPhase = FIRST
  <2> DEFINE a == Phase1Ops(c)
             q == c.queue \o a
             np == IF Len(a) % UINT8 = 0 THEN SECOND ELSE c.netPhase
  <2>1. a \in Seq(Op) /\ \A j \in DOMAIN a : a[j].kind = "KEY_UPDATE"
    BY UpdatesScheduled
  <2>2. ContinueFirst(c) = [c EXCEPT !.state = "KR1", !.queue = q, !.netPhase = np]
    BY <1>2 DEF ContinueFirst, Sound, Client
  <2> HIDE DEF q, np
  <2>3. ContinueFirst(c).queue = q
    BY <2>2 DEF Sound, Client
  <2> HIDE DEF a
  <2>4. a \in Seq(NotSets)
    <3>1. \A j \in DOMAIN a : a[j] \in NotSets
      BY <2>1 DEF NotSets
    <3>2. QED
      BY <2>1, <3>1, SeqOver
  <2>5. QED
    BY <2>3, <2>4, UnsetAppend DEF q
<1>3. QED
  BY <1>1, <1>2

LEMMA TimedContinueSecond ==
    ASSUME NEW c, Sound(c), Unset(c)
    PROVE  /\ Timed(ContinueSecond(c))
           /\ ContinueSecond(c).netPhase = THIRD => Unset(ContinueSecond(c))
<1>1. CASE c.netPhase # SECOND
  BY <1>1, UnsetTimed DEF ContinueSecond
<1>2. CASE c.netPhase = SECOND
  <2> DEFINE d == Transition(c, SECOND)
             r == ContinueSecond(c)
  <2>1. Sound(d) /\ d.netPhase = SECOND /\ d.state = "KR2"
    BY <1>2, SoundTransition DEF Sound
  <2>2. Timed(d) /\ (TransitionOps(c, SECOND) = <<>> => Unset(d))
    BY TimedTransition
  <2>3. r = [d EXCEPT !.netPhase = IF TransitionOps(c, SECOND) = <<>> THEN THIRD ELSE @]
    BY <1>2 DEF ContinueSecond
  <2> HIDE DEF d, r
  <2>4. r.queue = d.queue /\ r.state = d.state
        /\ r.netPhase = IF TransitionOps(c, SECOND) = <<>> THEN THIRD ELSE SECOND
    BY <2>1, <2>3 DEF Sound, Client
  <2>5. CASE TransitionOps(c, SECOND) = <<>>
    <3>1. Unset(r)
      BY <2>2, <2>4, <2>5, UnsetSame
    <3>2. QED
      BY <3>1, UnsetTimed DEF r
  <2>6. CASE TransitionOps(c, SECOND) # <<>>
    <3>1. Timed(r) /\ r.netPhase = SECOND
      BY <2>1, <2>2, <2>4, <2>6, TimedSame
    <3>2. QED
      BY <3>1 DEF r
  <2>7. QED
    BY <2>5, <2>6
<1>3. QED
  BY <1>1, <1>2

LEMMA TimedRestart ==
    ASSUME NEW c, Sound(c), Unset(c)
    PROVE  Timed(Restart(c))
<1> DEFINE a == [c EXCEPT !.state = "KR1"]
           b == UpdateKeys(a)
           d == ContinueFirst(b)
<1>1. Sound(a) /\ a.queue = c.queue
  BY SoundState DEF ClientStates, Sound, Client
<1> HIDE DEF a
<1>2. Sound(b) /\ b.queue = a.queue
  BY <1>1, SoundUpdateKeys, UpdateKeysFields DEF Sound
<1> HIDE DEF b
<1>3. Unset(b)
  BY <1>1, <1>2, UnsetSame
<1>4. Sound(d) /\ Unset(d)
  BY <1>2, <1>3, SoundContinueFirst, UnsetContinueFirst
<1> HIDE DEF d
<1>5. Timed(ContinueSecond(d))
  BY <1>4, TimedContinueSecond
<1>6. QED
  BY <1>5 DEF Restart, d, b, a

LEMMA TimedPhase3Completed ==
    ASSUME NEW c, Sound(c), Unset(c)
    PROVE  Timed(Phase3Completed(c))
<1> DEFINE idle == [c EXCEPT !.state = "IDLE"]
           fin  == Finish(idle)
<1>1. Sound(idle) /\ idle.queue = c.queue
  BY SoundState DEF ClientStates, Sound, Client
<1> HIDE DEF idle
<1>2. Unset(idle)
  BY <1>1, UnsetSame
<1>3. Sound(fin) /\ fin.queue = idle.queue /\ fin.phase[<<NetKey, Local>>] = NORMAL
  BY <1>1, SoundFinish, FinishFields DEF Sound
<1> HIDE DEF fin
<1>4. Unset(fin)
  BY <1>2, <1>3, UnsetSame
<1>5. Timed(idle) /\ Timed(Execute(fin)) /\ Timed(Execute(Restart(fin)))
  <2>1. Timed(idle) /\ Timed(fin) /\ Timed(Restart(fin)) /\ Sound(Restart(fin))
    BY <1>2, <1>3, <1>4, UnsetTimed, TimedRestart, SoundRestart
  <2>2. QED
    BY <1>3, <2>1, TimedExecute
<1>6. Phase3Completed(c) \in {idle, Execute(fin), Execute(Restart(fin))}
  BY DEF Phase3Completed, idle, fin
<1>7. QED
  BY <1>5, <1>6

LEMMA TimedIdle ==
    ASSUME NEW c, Sound(c), Timed(c)
    PROVE  Timed([c EXCEPT !.state = "IDLE"])
<1> DEFINE r == [c EXCEPT !.state = "IDLE"]
<1>1. r.queue = c.queue /\ r.netPhase = c.netPhase /\ r.state = "IDLE"
  BY DEF Sound, Client
<1> HIDE DEF r
<1>2. Timed(r)
  BY <1>1, TimedSame
<1>3. QED
  BY <1>2 DEF r

LEMMA TimedPhase2Completed ==
    ASSUME NEW c, Sound(c), Unset(c), c.netPhase # NORMAL
    PROVE  Timed(Phase2Completed(c))
<1>1. Timed([c EXCEPT !.state = "IDLE"])
  BY UnsetTimed, TimedIdle
<1>2. Timed(Transition(c, THIRD)) /\ Sound(Transition(c, THIRD))
  BY TimedTransition, SoundTransition DEF Sound
<1>3. Timed(Execute(Transition(c, THIRD)))
  BY <1>2, TimedExecute
<1>4. QED
  BY <1>1, <1>3 DEF Phase2Completed

LEMMA TimedPhase1Completed ==
    ASSUME NEW c, Sound(c), Unset(c)
    PROVE  Timed(Phase1Completed(c))
<1>1. Timed(c) /\ Timed([c EXCEPT !.state = "IDLE"])
  BY UnsetTimed, TimedIdle
<1>2. c.netPhase = FIRST => Timed(Execute(Transition(c, SECOND)))
  <2>1. c.netPhase = FIRST => Timed(Transition(c, SECOND)) /\ Sound(Transition(c, SECOND))
    BY TimedTransition, SoundTransition DEF Sound
  <2>2. QED
    BY <2>1, TimedExecute
<1>3. QED
  BY <1>1, <1>2 DEF Phase1Completed

\* The refresh is taken up again with no phase set pending.
LEMMA TimedContinue ==
    ASSUME NEW c, Sound(c), Unset(c)
    PROVE  Timed(Continue(c))
<1> DEFINE c1 == ContinueFirst(c)
           c2 == ContinueSecond(c1)
           on == Transition(c2, THIRD)
<1>1. Sound(c1) /\ Unset(c1)
  BY SoundContinueFirst, UnsetContinueFirst
<1> HIDE DEF c1
<1>2. Sound(c2) /\ Timed(c2) /\ (c2.netPhase = THIRD => Unset(c2))
  BY <1>1, SoundContinueSecond, TimedContinueSecond
<1> HIDE DEF c2
<1>3. c2.netPhase = THIRD =>
         Sound(on) /\ Timed(on) /\ (TransitionOps(c2, THIRD) = <<>> => Unset(on))
  BY <1>2, SoundTransition, TimedTransition DEF Sound
<1> HIDE DEF on
<1>4. c2.netPhase = THIRD /\ TransitionOps(c2, THIRD) = <<>> => Timed(Phase3Completed(on))
  BY <1>3, TimedPhase3Completed
<1>5. \/ c2.netPhase # THIRD /\ Continue(c) = c2
      \/ c2.netPhase = THIRD /\ Continue(c) = on
      \/ c2.netPhase = THIRD /\ TransitionOps(c2, THIRD) = <<>> /\ Continue(c) = Phase3Completed(on)
  BY DEF Continue, c1, c2, on
<1>6. QED
  BY <1>2, <1>3, <1>4, <1>5

\* The user takes up a refresh, or removes a node, only while no phase set is pending.
Tidy == ConnectNetwork \/ (\E n \in Removable : ResetDevice(n)) => Unset(cl)

LEMMA TimedPhaseCompleted ==
    ASSUME NEW c, Sound(c), Timed(c), NEW kr \in KrStates, kr = "KR2" => c.netPhase # NORMAL
    PROVE  Timed(IfDone(c, kr))
<1>1. c.queue = <<>> => Unset(c)
  BY TimedUnset
<1>2. c.queue = <<>> => Timed(PhaseCompleted(c, kr))
  <2>1. CASE kr = "KR1"
    BY <1>1, <2>1, TimedPhase1Completed DEF PhaseCompleted
  <2>2. CASE kr = "KR2"
    BY <1>1, <2>2, TimedPhase2Completed DEF PhaseCompleted
  <2>3. CASE kr = "KR3"
    BY <1>1, <2>3, TimedPhase3Completed DEF PhaseCompleted
  <2>4. QED
    BY <2>1, <2>2, <2>3 DEF KrStates
<1>3. QED
  BY <1>2 DEF IfDone

LEMMA TimedNextOrDone ==
    ASSUME NEW c, Sound(c), Matches(c), Timed(c), c.state \in KrStates
    PROVE  Timed(IfDone(StartNextOp(c), c.state))
<1> DEFINE d == StartNextOp(c)
<1>1. Sound(d) /\ Timed(d) /\ d.netPhase = c.netPhase
  BY SoundStartNextOp, TimedStartNextOp
<1>2. c.state = "KR2" => d.netPhase # NORMAL
  BY <1>1 DEF Matches
<1> HIDE DEF d
<1>3. Timed(IfDone(d, c.state))
  BY <1>1, <1>2, TimedPhaseCompleted
<1>4. QED
  BY <1>3 DEF d

LEMMA TimedSetPhase ==
    ASSUME NEW c, Sound(c), Timed(c), NEW k, NEW n, NEW p
    PROVE  Timed(SetPhase(c, k, n, p)) /\ Timed(AddKey(c, k, n))
BY SetPhaseFields, AddKeyFields, TimedSame DEF Sound

LEMMA TimedKrStatus ==
    ASSUME NEW c, Sound(c), Matches(c), Timed(c), c.state \in KrStates, NEW st \in Status
    PROVE  Timed(KrStatus(c, st))
<1> DEFINE p  == CASE c.state = "KR1" -> FIRST
                   [] c.state = "KR2" -> SECOND
                   [] c.state = "KR3" -> THIRD
           c1 == IF st.ok THEN SetPhase(c, st.key, st.src, p) ELSE c
<1>1. p \in Phases
  BY DEF KrStates
<1> HIDE DEF p
<1>2. Sound(c1) /\ Timed(c1) /\ c1.state = c.state /\ c1.netPhase = c.netPhase
  BY <1>1, SoundSetPhase, TimedSetPhase
<1> HIDE DEF c1
<1>3. Matches(c1)
  BY <1>2 DEF Matches
<1>4. Timed(IfDone(StartNextOp(c1), c.state))
  BY <1>2, <1>3, TimedNextOrDone
<1>5. KrStatus(c, st) \in {c1, IfDone(StartNextOp(c1), c.state)}
  BY DEF KrStatus, c1, p
<1>6. QED
  BY <1>2, <1>4, <1>5

LEMMA TimedKrResetStatus ==
    ASSUME NEW c, Sound(c), Matches(c), Timed(c), c.state \in KrStates, NEW st
    PROVE  Timed(KrResetStatus(c, st))
<1> DEFINE z == [c EXCEPT !.nullDeref = @ \/ c.state # "KR1"]
<1>1. z.queue = c.queue /\ z.netPhase = c.netPhase /\ z.state = c.state
  BY DEF Sound, Client
<1>2. KrResetStatus(c, st) \in {z, c, IfDone(StartNextOp(c), c.state)}
  BY DEF KrResetStatus
<1> HIDE DEF z
<1>3. QED
  BY <1>1, <1>2, TimedSame, TimedNextOrDone

LEMMA TimedKrFilterStatus ==
    ASSUME NEW c, Sound(c), Matches(c), Timed(c), c.state \in KrStates
    PROVE  Timed(KrFilterStatus(c))
<1> DEFINE z  == [c EXCEPT !.nullDeref = TRUE]
           a  == IF HeadIs(c, "FILTER_ADD") THEN StartNextOp(c) ELSE c
           c1 == Execute(a)
<1>1. z.queue = c.queue /\ z.netPhase = c.netPhase /\ z.state = c.state
  BY DEF Sound, Client
<1>2. Sound(a) /\ Timed(a)
  BY SoundStartNextOp, TimedStartNextOp
<1> HIDE DEF a, z
<1>3. Sound(c1) /\ Timed(c1)
  BY <1>2, SoundExecute, TimedExecute
<1> HIDE DEF c1
<1>4. Timed(IfDone(c1, "KR1"))
  BY <1>3, TimedPhaseCompleted DEF KrStates
<1>5. KrFilterStatus(c) \in {z, c1, IfDone(c1, "KR1")}
  BY DEF KrFilterStatus, c1, a, z
<1>6. Timed(z)
  BY <1>1, TimedSame
<1>7. QED
  BY <1>3, <1>4, <1>5, <1>6

LEMMA TimedKrTxFailed ==
    ASSUME NEW c, Sound(c), Matches(c), Timed(c), c.state \in KrStates, NEW dst
    PROVE  Timed(KrTxFailed(c, dst))
<1> DEFINE c1 == Clean(c, dst)
           z  == [c1 EXCEPT !.state = "IDLE"]
<1>1. Sound(c1) /\ Timed(c1)
  BY SoundClean, TimedClean
<1> HIDE DEF c1
<1>2. Timed(Execute(c1))
  BY <1>1, TimedExecute
<1>3. Sound(z) /\ Timed(z) /\ z.queue = c1.queue
  BY <1>1, SoundState, TimedIdle DEF ClientStates, Sound, Client
<1> HIDE DEF z
<1>4. c1.queue = <<>> => Timed(Phase1Completed(z))
  BY <1>3, TimedUnset, TimedPhase1Completed
<1>5. \/ KrTxFailed(c, dst) \in {c, Execute(c1), IfDone(StartNextOp(c), c.state)}
      \/ c1.queue = <<>> /\ KrTxFailed(c, dst) = Phase1Completed(z)
  BY DEF KrTxFailed, c1, z
<1>6. QED
  BY <1>2, <1>4, <1>5, TimedNextOrDone

LEMMA TimedUnexpected ==
    ASSUME NEW c, Sound(c), Matches(c), Timed(c)
    PROVE  Timed(Unexpected(c))
<1> DEFINE c1 == StartNextOp(c)
           d  == IF c1.queue = <<>> THEN Continue(c1) ELSE c1
<1>1. Sound(c1) /\ Timed(c1) /\ c1.netPhase = c.netPhase /\ c1.state \in {c.state, "IDLE"}
  BY SoundStartNextOp, TimedStartNextOp
<1> HIDE DEF c1
<1>2. Matches(c1)
  BY <1>1 DEF Matches
<1>3. Sound(d) /\ Timed(d)
  BY <1>1, <1>2, SoundContinue, TimedUnset, TimedContinue
<1> HIDE DEF d
<1>4. Timed(Execute(d))
  BY <1>3, TimedExecute
<1>5. QED
  BY <1>4 DEF Unexpected, c1, d

LEMMA TimedIdleKeyStatus ==
    ASSUME NEW c, Sound(c), Matches(c), Timed(c), NEW st
    PROVE  Timed(IdleKeyStatus(c, st))
<1> DEFINE c1 == IF st.ok THEN AddKey(c, st.key, st.src) ELSE c
<1>1. Sound(c1) /\ Timed(c1) /\ c1.state = c.state /\ c1.netPhase = c.netPhase
  BY SoundAddKey, TimedSetPhase
<1> HIDE DEF c1
<1>2. Matches(c1)
  BY <1>1 DEF Matches
<1>3. IdleKeyStatus(c, st) \in {StartNextOp(c1), Unexpected(c1), c1}
  BY DEF IdleKeyStatus, c1
<1>4. QED
  BY <1>1, <1>2, <1>3, TimedStartNextOp, TimedUnexpected

LEMMA TimedIdlePhaseStatus ==
    ASSUME NEW c, Sound(c), Matches(c), Timed(c), NEW st \in Status, NEW u
    PROVE  Timed(IdlePhaseStatus(c, st, u))
<1> DEFINE c1 == IF st.ok THEN SetPhase(c, NetKey, st.src, st.phase) ELSE c
           c2 == Unexpected(c1)
<1>1. st.phase \in Phases
  BY DEF Status
<1>2. Sound(c1) /\ Timed(c1) /\ c1.state = c.state /\ c1.netPhase = c.netPhase
  BY <1>1, SoundSetPhase, TimedSetPhase
<1> HIDE DEF c1
<1>3. Matches(c1)
  BY <1>2 DEF Matches
<1>4. Sound(c2) /\ Timed(c2)
  BY <1>2, <1>3, SoundUnexpected, TimedUnexpected
<1> HIDE DEF c2
<1>5. c2.queue = <<>> => Timed(Phase3Completed(c2))
  BY <1>4, TimedUnset, TimedPhase3Completed
<1>6. \/ IdlePhaseStatus(c, st, u) \in {StartNextOp(c1), c2, c1}
      \/ c2.queue = <<>> /\ IdlePhaseStatus(c, st, u) = Phase3Completed(c2)
  BY DEF IdlePhaseStatus, c1, c2
<1>7. QED
  BY <1>2, <1>4, <1>5, <1>6, TimedStartNextOp

\* The client connects, with no phase set pending, and takes the refresh up again.
LEMMA TimedConnectFilterStatus ==
    ASSUME NEW c, Sound(c), Unset(c), NEW p
    PROVE  Timed(ConnectFilterStatus(c, p))
<1> DEFINE q  == IF HeadIs(c, "FILTER_ADD") THEN Tail(c.queue) ELSE c.queue
           c1 == [c EXCEPT !.state = "IDLE", !.queue = q]
           c2 == IF p \in c1.nodes \cap c1.blocked THEN Enqueue(c1, <<NodeReset(p)>>) ELSE c1
           d  == IF c2.netPhase # NORMAL THEN Continue(c2) ELSE c2
<1>1. c \in Client /\ c.queue \in Seq(SafeOps(c.blocked)) /\ c.queue \in Seq(Op)
      /\ c.queue \in Seq(NotSets)
  BY DEF Sound, Client, Unset
<1>2. q \in Seq(SafeOps(c.blocked)) /\ q \in Seq(Op) /\ q \in Seq(NotSets)
  <2>1. HeadIs(c, "FILTER_ADD") => c.queue # <<>>
    BY DEF HeadIs
  <2>2. ASSUME NEW S, c.queue \in Seq(S) PROVE q \in Seq(S)
    BY <2>1, <2>2, TailOver
  <2> HIDE DEF q
  <2>3. QED
    BY <1>1, <2>2
<1>3. ConnectFilterStatus(c, p) = Execute(d)
  BY <1>1 DEF ConnectFilterStatus, Client
<1> HIDE DEF q
<1>4. Sound(c1) /\ c1.state = "IDLE" /\ Unset(c1)
  BY <1>1, <1>2 DEF Sound, Client, ClientStates, Unset
<1> HIDE DEF c1
<1>5. p \in c1.nodes \cap c1.blocked =>
         /\ <<NodeReset(p)>> \in Seq(SafeOps(c1.blocked))
         /\ <<NodeReset(p)>> \in Seq(NotSets)
  <2>1. p \in c1.nodes \cap c1.blocked => p \in Nodes
    BY <1>4 DEF Sound, Client
  <2>2. QED
    BY <2>1, ClientAssumption DEF NodeReset, SafeOps, NotSets, Op, OpKinds, Keys
<1>6. Sound(c2) /\ c2.state = "IDLE" /\ Unset(c2)
  <2>1. CASE p \in c1.nodes \cap c1.blocked
    <3>1. c2 = Enqueue(c1, <<NodeReset(p)>>)
      BY <2>1
    <3>2. Sound(c2) /\ c2.state = "IDLE"
      BY <1>4, <1>5, <2>1, <3>1, SoundEnqueue DEF SameButQueue
    <3> HIDE DEF c2
    <3>3. c2.queue = c1.queue \o <<NodeReset(p)>>
      BY <1>4, <3>1 DEF Enqueue, Sound, Client
    <3>4. QED
      BY <1>4, <1>5, <2>1, <3>2, <3>3, UnsetAppend
  <2>2. QED
    BY <1>4, <2>1
<1> HIDE DEF c2
<1>7. Matches(c2)
  BY <1>6 DEF Matches
<1>8. Sound(d) /\ Timed(d)
  BY <1>6, <1>7, SoundContinue, TimedContinue, UnsetTimed
<1> HIDE DEF d
<1>9. QED
  BY <1>3, <1>8, TimedExecute

\* The handler of every status.
LEMMA TimedOnStatus ==
    ASSUME NEW c, Sound(c), Matches(c), Timed(c), NEW st \in Status, NEW u
    PROVE  Timed(OnStatus(c, st, u))
<1>1. c.state \in KrStates =>
         Timed(KrFilterStatus(c)) /\ Timed(KrResetStatus(c, st)) /\ Timed(KrStatus(c, st))
  BY TimedKrFilterStatus, TimedKrResetStatus, TimedKrStatus
<1>2. Timed(IdleKeyStatus(c, st)) /\ Timed(IdlePhaseStatus(c, st, u))
  BY TimedIdleKeyStatus, TimedIdlePhaseStatus
<1>3. c.state = "NETWORK_CONNECT" => Timed(ConnectFilterStatus(c, st.src))
  BY TimedConnectFilterStatus DEF Timed
<1>4. \/ c.state \in KrStates
         /\ OnStatus(c, st, u) \in {KrFilterStatus(c), KrResetStatus(c, st), KrStatus(c, st)}
      \/ OnStatus(c, st, u) \in {IdleKeyStatus(c, st), IdlePhaseStatus(c, st, u), c}
      \/ c.state = "NETWORK_CONNECT" /\ OnStatus(c, st, u) = ConnectFilterStatus(c, st.src)
  BY DEF OnStatus, KrStates
<1>5. QED
  BY <1>1, <1>2, <1>3, <1>4

LEMMA TimedOnTxFailed ==
    ASSUME NEW c, Sound(c), Matches(c), Timed(c), NEW dst
    PROVE  Timed(OnTxFailed(c, dst))
BY TimedKrTxFailed DEF OnTxFailed

\* A connection adds a proxy filter operation, whatever is pending.
LEMMA TimedOnLinkUp ==
    ASSUME NEW c, Sound(c), Timed(c)
    PROVE  Timed(OnLinkUp(c))
<1> DEFINE a == Enqueue(c, <<FilterAdd>>)
           q == c.queue
           f == FilterAdd
<1>1. f \in SafeOps(c.blocked) /\ f \in NotSets /\ f \in OpsFor(c.netPhase)
  BY ClientAssumption DEF FilterAdd, SafeOps, NotSets, OpsFor, Op, OpKinds, Keys
<1>2. Sound(a) /\ SameButQueue(a, c) /\ a.queue = q \o <<f>>
  <2>1. <<f>> \in Seq(SafeOps(c.blocked))
    BY <1>1
  <2>2. QED
    BY <2>1, SoundEnqueue DEF Enqueue, Sound, Client
<1> HIDE DEF a, f
<1>3. ASSUME NEW S, q \in Seq(S), f \in S PROVE a.queue \in Seq(S)
  <2> HIDE DEF q
  <2>1. q \o <<f>> \in Seq(S)
    BY <1>3
  <2>2. QED
    BY <1>2, <2>1
<1>4. Unset(c) => Unset(a)
  BY <1>1, <1>3 DEF Unset
<1>5. c.queue \in Seq(OpsFor(c.netPhase)) => a.queue \in Seq(OpsFor(a.netPhase))
  BY <1>1, <1>2, <1>3 DEF SameButQueue
<1>6. Timed(a)
  BY <1>2, <1>4, <1>5 DEF Timed, SameButQueue
<1>7. Timed(Execute(a))
  BY <1>2, <1>6, TimedExecute
<1>8. OnLinkUp(c) \in {c, Execute(a)}
  BY DEF OnLinkUp, AddFilter, a, f
<1>9. QED
  BY <1>7, <1>8

LEMMA TimedOnLinkDown ==
    ASSUME NEW c, Sound(c), Timed(c)
    PROVE  Timed(OnLinkDown(c))
<1>1. OnLinkDown(c).queue = c.queue /\ OnLinkDown(c).netPhase = c.netPhase
  BY OnLinkDownFields DEF Sound, SameRecord
<1>2. OnLinkDown(c).state \in {c.state, "IDLE"}
  BY DEF OnLinkDown, Sound, Client
<1>3. QED
  BY <1>1, <1>2, TimedSame

\* A node whose operations were cleaned may be blocked.
LEMMA SoundBlocked ==
    ASSUME NEW a, Sound(a), NEW n \in Nodes \ {Local},
           a.queue \in Seq(SafeOps(a.blocked \cup {n}))
    PROVE  LET b == [a EXCEPT !.retries = 0, !.blocked = @ \cup {n}]
           IN  /\ Sound(b) /\ b.state = a.state /\ b.netPhase = a.netPhase
               /\ b.queue = a.queue
<1> DEFINE B == a.blocked \cup {n}
           b == [a EXCEPT !.retries = 0, !.blocked = @ \cup {n}]
<1>1. a \in Client /\ Local \in a.nodes /\ (a.netPhase # NORMAL => a.gen > 0)
  BY DEF Sound
<1>2. B \in SUBSET Nodes /\ Local \notin B /\ a.queue \in Seq(SafeOps(B))
  BY DEF Sound, Client
<1>3. b = [a EXCEPT !.retries = 0, !.blocked = B]
  BY <1>1 DEF Client
<1> HIDE DEF B
<1>4. b \in Client
  BY <1>1, <1>2, <1>3, RetriesRange DEF Client
<1>5. /\ b.nodes = a.nodes /\ b.blocked = B /\ b.queue = a.queue
      /\ b.netPhase = a.netPhase /\ b.gen = a.gen /\ b.state = a.state
  BY <1>1, <1>3 DEF Client
<1> HIDE DEF b
<1>6. Sound(b)
  BY <1>1, <1>2, <1>4, <1>5 DEF Sound
<1>7. QED
  BY <1>5, <1>6 DEF b

\* A node is removed while no phase set is pending.
LEMMA TimedResetNode ==
    ASSUME NEW c, Sound(c), Matches(c), Unset(c), NEW n \in Nodes \ {Local}
    PROVE  Timed(ResetNode(c, n))
<1> DEFINE a  == Clean(c, n)
           b  == [a EXCEPT !.retries = 0, !.blocked = @ \cup {n}]
           c1 == Enqueue(b, <<NodeReset(n)>>)
           k  == [c1 EXCEPT !.state = "KR1"]
           c2 == IF c1.netPhase = NORMAL THEN UpdateKeys(k) ELSE c1
<1>1. Sound(a) /\ SameButQueue(a, c) /\ a.queue \in Seq(SafeOps(a.blocked \cup {n})) /\ Unset(a)
  BY SoundClean, TimedClean DEF SameButQueue
<1> HIDE DEF a
<1>2. Sound(b) /\ b.state = a.state /\ b.netPhase = a.netPhase /\ b.queue = a.queue
  BY <1>1, SoundBlocked
<1> HIDE DEF b
<1>3. <<NodeReset(n)>> \in Seq(SafeOps(b.blocked)) /\ <<NodeReset(n)>> \in Seq(NotSets)
  BY ClientAssumption DEF NodeReset, SafeOps, NotSets, Op, OpKinds, Keys
<1>4. Sound(c1) /\ SameButQueue(c1, b) /\ c1.queue = b.queue \o <<NodeReset(n)>>
  BY <1>2, <1>3, SoundEnqueue DEF Enqueue, Sound, Client
<1> HIDE DEF c1
<1>5. Unset(c1)
  BY <1>1, <1>2, <1>3, <1>4, UnsetSame, UnsetAppend
<1>6. Sound(k) /\ k.queue = c1.queue /\ k.state = "KR1"
  BY <1>4, SoundState DEF ClientStates, Sound, Client
<1> HIDE DEF k
<1>7. /\ Sound(UpdateKeys(k)) /\ UpdateKeys(k).netPhase = FIRST /\ UpdateKeys(k).state = "KR1"
      /\ UpdateKeys(k).queue = k.queue
  BY <1>6, SoundUpdateKeys, UpdateKeysFields DEF Sound
<1>8. Sound(c2) /\ Matches(c2) /\ Unset(c2)
  <2>1. Matches(c1)
    BY <1>1, <1>2, <1>4 DEF SameButQueue, Matches
  <2>2. Matches(UpdateKeys(k)) /\ Unset(UpdateKeys(k))
    BY <1>5, <1>6, <1>7, UnsetSame DEF Matches
  <2>3. QED
    BY <1>4, <1>5, <1>7, <2>1, <2>2
<1> HIDE DEF c2
<1>9. Timed(Execute(Continue(c2)))
  BY <1>8, SoundContinue, TimedContinue, TimedExecute
<1>10. QED
  BY <1>9 DEF ResetNode, c2, k, c1, b, a

\* Every step of such a user keeps it so.
LEMMA TimedStep ==
    ASSUME IInv, Timed(cl), [Next]_vars, Tidy
    PROVE  Timed(cl')
<1>1. Sound(cl) /\ Matches(cl)
  BY DEF IInv
<1>2. CASE OpTimer
  <2>1. cl'.queue = cl.queue /\ cl'.netPhase = cl.netPhase /\ cl'.state = cl.state
    BY <1>1, <1>2 DEF OpTimer, Sound, Client
  <2>2. QED
    BY <2>1, TimedSame
<1>3. CASE \E n \in Nodes : DeliverStatus(n) \/ LoseStatus(n)
  <2>1. ASSUME NEW n \in Nodes, DeliverStatus(n) PROVE Timed(cl')
    <3>1. Head(replies[n]) \in Status
      BY <2>1 DEF DeliverStatus, IInv, Environment
    <3>2. \E u \in BOOLEAN : cl' = OnStatus(cl, Head(replies[n]), u)
      BY <2>1 DEF DeliverStatus
    <3>3. QED
      BY <1>1, <3>1, <3>2, TimedOnStatus
  <2>2. QED
    BY <1>3, <2>1 DEF LoseStatus
<1>4. CASE \E o \in inflight : NodeHandles(o) \/ TxFailed(o)
  BY <1>1, <1>4, TimedOnTxFailed DEF NodeHandles, TxFailed
<1>5. CASE \E p \in Proxies : LinkUp(p)
  BY <1>1, <1>5, TimedOnLinkUp DEF LinkUp
<1>6. CASE ConnectFailed \/ LinkLost
  BY <1>1, <1>6, TimedOnLinkDown DEF ConnectFailed, LinkLost, LinkDown
<1>7. CASE ConnectNetwork
  <2>1. Unset(cl)
    BY <1>7 DEF Tidy
  <2>2. cl'.queue = cl.queue
    BY <1>1, <1>7 DEF ConnectNetwork, Sound, Client
  <2>3. QED
    BY <2>1, <2>2, UnsetSame, UnsetTimed
<1>8. CASE DisconnectNetwork
  BY <1>1, <1>8, TimedIdle DEF DisconnectNetwork
<1>9. CASE \E n \in Removable : ResetDevice(n)
  <2>1. PICK n \in Removable : ResetDevice(n)
    BY <1>9
  <2>2. Unset(cl) /\ cl' = ResetNode(cl, n) /\ n \in Nodes \ {Local}
    BY <1>9, <2>1, MeshAssumption DEF Tidy, ResetDevice
  <2>3. QED
    BY <1>1, <2>2, TimedResetNode
<1>10. CASE Reopen \/ \E n \in Removable : CrashInResetNode(n)
  <2>1. cl'.queue = <<>>
    BY <1>1, <1>10 DEF Reopen, CrashInResetNode, Restarted, Reopened, Sound, Client
  <2>2. Unset(cl')
    BY <2>1 DEF Unset
  <2>3. QED
    BY <2>2, UnsetTimed
<1>11. CASE UNCHANGED vars
  BY <1>11 DEF vars
<1>12. QED
  BY <1>2, <1>3, <1>4, <1>5, <1>6, <1>7, <1>8, <1>9, <1>10, <1>11 DEF Next

LEMMA TimedCurrent ==
    ASSUME Timed(cl)
    PROVE  PhaseSetsCurrent
<1> DEFINE q == cl.queue
<1>1. \A i \in DOMAIN q : q[i] \in OpsFor(cl.netPhase)
  BY DEF Timed
<1>2. QED
  BY <1>1 DEF PhaseSetsCurrent, OpsFor

\* With such a user no phase set of an earlier phase is ever pending, in either build,
\* whatever is lost or delivered twice, for every network and every bound.
THEOREM TidyUser == Spec /\ [][Tidy]_vars => []PhaseSetsCurrent
<1>1. Init => Timed(cl)
  <2>1. Init => Unset(cl)
    BY DEF Init, ClientInit, Unset
  <2>2. QED
    BY <2>1, UnsetTimed
<1>2. IInv /\ Timed(cl) /\ [Next]_vars /\ [Tidy]_vars => Timed(cl)'
  <2>1. Timed(cl) /\ UNCHANGED vars => Timed(cl)'
    BY DEF vars
  <2>2. QED
    BY <2>1, TimedStep
<1>3. QED
  BY <1>1, <1>2, TimedCurrent, Invariance, PTL DEF Spec

\* With such a user all three properties of the keys hold without a condition on the
\* queue.
THEOREM TidyUserIsSafe ==
    ASSUME Plain
    PROVE  Spec /\ [][Tidy]_vars => [](SwitchSafe /\ OneKeyBehind /\ OldKeyRetired)
BY TidyUser, AgreementHolds, AgreementSafe, PTL

-----------------------------------------------------------------------------
(* A connection that stays: nothing is left pending by an earlier attempt,  *)
(* and the client always waits for what it scheduled.                       *)

\* The operations of s are of the kinds K.
OfKinds(s, K) == \A i \in DOMAIN s : s[i].kind \in K

\* What is pending belongs to the state, and a state of the refresh waits for something.
QueueFits(c) ==
    /\ c.state = "IDLE" => c.queue = <<>>
    /\ c.state = "NETWORK_CONNECT" => c.queue = <<>> \/ c.queue = <<FilterAdd>>
    /\ c.state = "KR1" => c.queue # <<>> /\ OfKinds(c.queue, {"KEY_UPDATE", "NODE_RESET"})
    /\ c.state \in {"KR2", "KR3"} =>
          c.queue # <<>> /\ OfKinds(c.queue, {"KR_PHASE_SET", "NODE_RESET"})

\* After the first phase every node that takes part is known to have taken the key.
HaveTaken(c) ==
    c.netPhase \in {SECOND, THIRD} =>
        \A n \in Participants(c) : c.phase[<<NetKey, n>>] # NORMAL

\* The nodes d that have the newest key are in the database and, during a refresh,
\* known to have it; of those in N the news is on its way.
Accounted(c, d, N) ==
    \A n \in Nodes \ Provisioners :
        /\ d[n].cur <= c.gen
        /\ d[n].member /\ d[n].cur = c.gen =>
              IF c.netPhase = NORMAL THEN n \in Staying(c)
              ELSE n \in c.nodes /\ (c.phase[<<NetKey, n>>] # NORMAL \/ n \in N)

\* r is what a handler makes of c while the connection stays.
Onward(r, c, d) ==
    /\ QueueFits(r) /\ HaveTaken(r)
    /\ Accounted(c, d, {}) => Accounted(r, d, {})

LEMMA AccountedOn ==
    ASSUME NEW c, NEW r, NEW d, NEW N, Accounted(c, d, N),
           c.netPhase # NORMAL, r.netPhase # NORMAL,
           r.gen = c.gen, r.phase = c.phase, r.nodes = c.nodes
    PROVE  Accounted(r, d, N)
BY DEF Accounted

LEMMA SameAccount ==
    ASSUME NEW c, NEW r, NEW d, SameRecord(r, c), r.nodes = c.nodes, r.blocked = c.blocked
    PROVE  /\ HaveTaken(c) => HaveTaken(r)
           /\ \A N : Accounted(c, d, N) => Accounted(r, d, N)
BY DEF SameRecord, HaveTaken, Accounted, Participants, Staying

LEMMA SameFits ==
    ASSUME NEW c, NEW r, r.state = c.state, r.queue = c.queue, QueueFits(c)
    PROVE  QueueFits(r)
BY DEF QueueFits

\* Arming the timer changes nothing of this.
LEMMA OnwardExecute ==
    ASSUME NEW r, Sound(r), NEW c, NEW d, Onward(r, c, d)
    PROVE  Onward(Execute(r), c, d)
<1> DEFINE e == Execute(r)
<1>1. /\ e.state = r.state /\ e.queue = r.queue /\ SameRecord(e, r)
      /\ e.nodes = r.nodes /\ e.blocked = r.blocked
  BY SoundExecute DEF SameButQueue, SameRecord
<1> HIDE DEF e
<1>2. QueueFits(e) /\ HaveTaken(e) /\ (Accounted(r, d, {}) => Accounted(e, d, {}))
  BY <1>1, SameFits, SameAccount DEF Onward
<1>3. QED
  BY <1>2 DEF Onward, e

LEMMA KindsAppend ==
    ASSUME NEW S, NEW s \in Seq(S), NEW t \in Seq(S), NEW K,
           OfKinds(s, K), OfKinds(t, K), s # <<>> \/ t # <<>>
    PROVE  OfKinds(s \o t, K) /\ s \o t # <<>>
<1>1. s \o t # <<>>
  OBVIOUS
<1>2. ASSUME NEW i \in DOMAIN (s \o t) PROVE (s \o t)[i].kind \in K
  <2>1. CASE i \in DOMAIN s
    BY <2>1 DEF OfKinds
  <2>2. CASE i \notin DOMAIN s
    <3>1. i - Len(s) \in DOMAIN t /\ (s \o t)[i] = t[i - Len(s)]
      BY <1>2, <2>2
    <3>2. QED
      BY <3>1 DEF OfKinds
  <2>3. QED
    BY <2>1, <2>2
<1>3. QED
  BY <1>1, <1>2 DEF OfKinds

LEMMA KindsTail ==
    ASSUME NEW S, NEW s \in Seq(S), NEW K, OfKinds(s, K), s # <<>>
    PROVE  OfKinds(Tail(s), K)
BY DEF OfKinds

\* The network moves on to a phase with messages to wait for.
LEMMA FitsTransition ==
    ASSUME NEW c, Sound(c), OfKinds(c.queue, {"NODE_RESET"}), NEW t \in {SECOND, THIRD},
           c.queue # <<>> \/ TransitionOps(c, t) # <<>>
    PROVE  QueueFits(Transition(c, t))
<1> DEFINE r   == Transition(c, t)
           ops == TransitionOps(c, t)
           K   == {"KR_PHASE_SET", "NODE_RESET"}
<1>1. c \in Client /\ c.queue \in Seq(Op)
  BY DEF Sound, Client
<1>2. r.queue = c.queue \o ops /\ r.state \in {"KR2", "KR3"}
  BY <1>1, TransitionFields
<1>3. ops \in Seq(Op) /\ OfKinds(ops, K)
  BY PhaseSetsScheduled DEF OfKinds
<1>4. OfKinds(c.queue, K)
  BY DEF OfKinds
<1> HIDE DEF r, ops, K
<1>5. OfKinds(r.queue, K) /\ r.queue # <<>>
  BY <1>1, <1>2, <1>3, <1>4, KindsAppend DEF ops
<1>6. QED
  BY <1>2, <1>5 DEF QueueFits, r, K

\* The keys are renewed: no node has the new one yet.
LEMMA AccountedRenewed ==
    ASSUME NEW c, NEW d, c.gen \in Nat, d \in [Nodes -> Device], Accounted(c, d, {}),
           NEW r, r.gen = c.gen + 1
    PROVE  Accounted(r, d, {})
<1>1. ASSUME NEW n \in Nodes \ Provisioners
      PROVE  d[n].cur <= r.gen /\ d[n].cur # r.gen
  <2>1. d[n].cur \in Nat
    BY DEF Device
  <2>2. d[n].cur <= c.gen
    BY DEF Accounted
  <2>3. QED
    BY <2>1, <2>2
<1>2. QED
  BY <1>1 DEF Accounted

\* A refresh that starts over waits for the updates.
LEMMA OnwardRestart ==
    ASSUME NEW c, Sound(c), c.phase[<<NetKey, Local>>] = NORMAL, ShortTable,
           OfKinds(c.queue, {"NODE_RESET"})
    PROVE  LET r == Restart(c)
           IN  /\ QueueFits(r) /\ HaveTaken(r) /\ r.gen = c.gen + 1
               /\ r.nodes = c.nodes /\ r.blocked = c.blocked
<1> DEFINE a == [c EXCEPT !.state = "KR1"]
           b == UpdateKeys(a)
           r == Restart(c)
           K == {"KEY_UPDATE", "NODE_RESET"}
<1>1. /\ Sound(a) /\ a.queue = c.queue /\ a.phase = c.phase /\ a.gen = c.gen
      /\ a.nodes = c.nodes /\ a.blocked = c.blocked /\ a \in Client
  <2>1. c \in Client /\ Sound(a)
    BY SoundState DEF ClientStates, Sound
  <2>2. QED
    BY <2>1 DEF Sound, Client
<1> HIDE DEF a
<1>2. /\ Sound(b) /\ b.queue = c.queue /\ b.netPhase = FIRST /\ b.gen = c.gen + 1
      /\ b.phase = c.phase /\ b.nodes = c.nodes /\ b.blocked = c.blocked
  BY <1>1, SoundUpdateKeys, UpdateKeysFields
<1>3. r = ContinueFirst(b) /\ r.netPhase = FIRST /\ r.state = "KR1"
  BY RestartShape DEF a
<1> HIDE DEF b, r
<1>4. /\ r.queue = b.queue \o Phase1Ops(b) /\ r.gen = b.gen
      /\ r.nodes = b.nodes /\ r.blocked = b.blocked
      /\ r.netPhase = IF Phase1Ops(b) = <<>> THEN SECOND ELSE FIRST
  BY <1>2, <1>3, ContinueFirstFields
<1>5. Phase1Ops(b) \in Seq(Op) /\ OfKinds(Phase1Ops(b), K) /\ Phase1Ops(b) # <<>>
  <2>1. Phase1Ops(b) \in Seq(Op) /\ OfKinds(Phase1Ops(b), K)
    BY <1>2, UpdatesScheduled DEF OfKinds
  <2>2. QED
    BY <1>3, <1>4, <2>1
<1>6. b.queue \in Seq(Op) /\ OfKinds(b.queue, K)
  BY <1>2 DEF OfKinds, Sound, Client
<1> HIDE DEF K
<1>7. OfKinds(r.queue, K) /\ r.queue # <<>>
  BY <1>4, <1>5, <1>6, KindsAppend
<1>8. QueueFits(r) /\ HaveTaken(r)
  BY <1>3, <1>7 DEF QueueFits, HaveTaken, K
<1>9. QED
  BY <1>2, <1>4, <1>8 DEF r

-----------------------------------------------------------------------------
(* The connection stays: a phase ends, and the next begins. *)

\* The end of a refresh removes blocked nodes only.
LEMMA FinishKeeps ==
    ASSUME NEW c, c \in Client
    PROVE  LET r == Finish(c)
           IN  /\ r.queue = c.queue /\ r.netPhase = NORMAL /\ r.gen = c.gen
               /\ Staying(r) = Staying(c) /\ r.state = c.state
<1> DEFINE r    == Finish(c)
           gone == (c.nodes \cap c.blocked) \ Suspects(c)
<1>1. gone \subseteq c.blocked
  OBVIOUS
<1>2. /\ r.queue = c.queue /\ r.netPhase = NORMAL /\ r.gen = c.gen
      /\ r.nodes = c.nodes \ gone /\ r.blocked = c.blocked \ gone
      /\ r.state = c.state
  BY FinishFields
<1> HIDE DEF r, gone
<1>3. Staying(r) = Staying(c)
  BY <1>1, <1>2 DEF Staying
<1>4. QED
  BY <1>2, <1>3 DEF r

\* The refresh ends; it starts over for a node that was removed in its course.
LEMMA OnwardPhase3 ==
    ASSUME NEW c, Sound(c), ShortTable, NEW d \in [Nodes -> Device], HaveTaken(c),
           OfKinds(c.queue, {"NODE_RESET"}), c.netPhase = THIRD,
           \/ c.queue = <<>>
           \/ AllThrough(c, {NetKey}, {THIRD, NORMAL}) /\ Suspects(c) # {}
    PROVE  Onward(Phase3Completed(c), c, d)
<1> DEFINE idle == [c EXCEPT !.state = "IDLE"]
           fin  == Finish(idle)
           done == AllThrough(c, {NetKey}, {THIRD, NORMAL})
<1>1. c \in Client /\ c.gen \in Nat
  BY DEF Sound, Client
<1>2. /\ Sound(idle) /\ idle.state = "IDLE" /\ idle.queue = c.queue /\ SameRecord(idle, c)
      /\ idle.nodes = c.nodes /\ idle.blocked = c.blocked /\ idle \in Client
  <2>1. Sound(idle)
    BY SoundState DEF ClientStates
  <2>2. QED
    BY <1>1, <2>1 DEF Sound, Client, SameRecord
<1>3. Phase3Completed(c) = IF ~ done THEN idle
                           ELSE Execute(IF Suspects(c) = {} THEN fin ELSE Restart(fin))
  BY DEF Phase3Completed
<1> HIDE DEF idle
<1>4. Suspects(idle) = Suspects(c)
  BY <1>2 DEF Suspects, SameRecord
<1>5. /\ Sound(fin) /\ fin.queue = c.queue /\ fin.netPhase = NORMAL /\ fin.gen = c.gen
      /\ Staying(fin) = Staying(c) /\ fin.state = "IDLE"
      /\ fin.phase[<<NetKey, Local>>] = NORMAL
  <2>1. Sound(fin) /\ fin.phase[<<NetKey, Local>>] = NORMAL
    BY <1>2, SoundFinish
  <2>2. /\ fin.queue = idle.queue /\ fin.netPhase = NORMAL /\ fin.gen = idle.gen
        /\ Staying(fin) = Staying(idle) /\ fin.state = idle.state
    BY <1>2, FinishKeeps
  <2> HIDE DEF fin
  <2>3. QED
    BY <1>2, <2>1, <2>2 DEF SameRecord, Staying
<1> HIDE DEF done, fin
<1>6. CASE ~ done
  <2>1. Phase3Completed(c) = idle /\ c.queue = <<>>
    BY <1>3, <1>6 DEF done
  <2>2. QueueFits(idle)
    BY <1>2, <2>1 DEF QueueFits
  <2>3. QED
    BY <1>2, <2>1, <2>2, SameAccount DEF Onward
<1>7. CASE done /\ Suspects(c) = {}
  <2>1. c.queue = <<>>
    BY <1>7 DEF done
  <2>2. QueueFits(fin) /\ HaveTaken(fin)
    BY <1>5, <2>1 DEF QueueFits, HaveTaken
  <2>3. ASSUME Accounted(c, d, {}) PROVE Accounted(fin, d, {})
    <3> SUFFICES ASSUME NEW n \in Nodes \ Provisioners
                 PROVE  /\ d[n].cur <= fin.gen
                        /\ d[n].member /\ d[n].cur = fin.gen => n \in Staying(fin)
      BY <1>5 DEF Accounted
    <3>1. d[n].cur <= c.gen
      BY <2>3 DEF Accounted
    <3>2. ASSUME d[n].member, d[n].cur = c.gen PROVE n \in Staying(fin)
      <4>1. n \in c.nodes /\ c.phase[<<NetKey, n>>] # NORMAL
        BY <2>3, <3>2 DEF Accounted
      <4>2. n \notin c.blocked
        BY <1>7, <4>1 DEF Suspects
      <4>3. QED
        BY <1>5, <4>1, <4>2 DEF Staying
    <3>3. QED
      BY <1>5, <3>1, <3>2
  <2>4. Onward(fin, c, d)
    BY <2>2, <2>3 DEF Onward
  <2>5. QED
    BY <1>3, <1>5, <1>7, <2>4, OnwardExecute
<1>8. CASE done /\ Suspects(c) # {}
  <2> DEFINE r == Restart(fin)
  <2>1. QueueFits(r) /\ HaveTaken(r) /\ r.gen = c.gen + 1
    BY <1>5, OnwardRestart
  <2>2. Sound(r)
    BY <1>5, SoundRestart
  <2> HIDE DEF r
  <2>3. Onward(r, c, d)
    BY <1>1, <2>1, AccountedRenewed DEF Onward
  <2>4. QED
    BY <1>3, <1>8, <2>2, <2>3, OnwardExecute DEF r
<1>9. QED
  BY <1>6, <1>7, <1>8

\* A phase that ends goes on to the next, or leaves nothing pending.
LEMMA OnwardTransition ==
    ASSUME NEW c, Sound(c), NEW d, NEW t \in {SECOND, THIRD}, c.netPhase # NORMAL,
           OfKinds(c.queue, {"NODE_RESET"}),
           c.queue # <<>> \/ TransitionOps(c, t) # <<>>,
           \A n \in Participants(c) : c.phase[<<NetKey, n>>] # NORMAL
    PROVE  Onward(Transition(c, t), c, d)
<1> DEFINE r == Transition(c, t)
<1>1. QueueFits(r)
  BY FitsTransition
<1>2. /\ r.netPhase = t /\ r.gen = c.gen /\ r.phase = c.phase /\ r.nodes = c.nodes
      /\ r.blocked = c.blocked
  BY TransitionFields DEF Sound
<1> HIDE DEF r
<1>3. HaveTaken(r)
  BY <1>2 DEF HaveTaken, Participants
<1>4. Accounted(c, d, {}) => Accounted(r, d, {})
  BY <1>2, AccountedOn
<1>5. QED
  BY <1>1, <1>3, <1>4 DEF Onward, r

\* Nothing is pending and the attempt ends.
LEMMA OnwardIdle ==
    ASSUME NEW c, Sound(c), NEW d, HaveTaken(c), c.queue = <<>>
    PROVE  Onward([c EXCEPT !.state = "IDLE"], c, d)
<1> DEFINE idle == [c EXCEPT !.state = "IDLE"]
<1>1. /\ idle.state = "IDLE" /\ idle.queue = c.queue /\ SameRecord(idle, c)
      /\ idle.nodes = c.nodes /\ idle.blocked = c.blocked
  BY DEF Sound, Client, SameRecord
<1> HIDE DEF idle
<1>2. QueueFits(idle)
  BY <1>1 DEF QueueFits
<1>3. QED
  BY <1>1, <1>2, SameAccount DEF Onward, idle

LEMMA OnwardPhase2 ==
    ASSUME NEW c, Sound(c), NEW d, HaveTaken(c), c.queue = <<>>, c.netPhase = SECOND,
           NEW p \in Participants(c)
    PROVE  Onward(Phase2Completed(c), c, d)
<1> DEFINE on == Transition(c, THIRD)
<1>1. CASE AllThrough(c, {NetKey}, {SECOND})
  <2>1. <<NetKey, p>> \in Slots /\ p \in Staying(c)
    BY ParticipantIsNode DEF Sound
  <2>2. c.phase[<<NetKey, p>>] = SECOND
    BY <1>1, <2>1 DEF AllThrough
  <2>3. TransitionOps(c, THIRD) # <<>>
    BY <2>1, <2>2, PhaseSetsScheduled
  <2>4. OfKinds(c.queue, {"NODE_RESET"})
    BY DEF OfKinds
  <2>5. Onward(on, c, d) /\ Sound(on)
    <3>1. \A n \in Participants(c) : c.phase[<<NetKey, n>>] # NORMAL
      BY DEF HaveTaken
    <3>2. Onward(on, c, d)
      BY <2>3, <2>4, <3>1, OnwardTransition
    <3>3. c.gen > 0
      BY DEF Sound
    <3>4. Sound(on)
      BY <3>3, SoundTransition
    <3>5. QED
      BY <3>2, <3>4
  <2> HIDE DEF on
  <2>6. Phase2Completed(c) = Execute(on)
    BY <1>1 DEF Phase2Completed, on
  <2>7. QED
    BY <2>5, <2>6, OnwardExecute
<1>2. CASE ~ AllThrough(c, {NetKey}, {SECOND})
  BY <1>2, OnwardIdle DEF Phase2Completed
<1>3. QED
  BY <1>1, <1>2

LEMMA OnwardPhase1 ==
    ASSUME NEW c, Sound(c), NEW d, c.queue = <<>>, c.netPhase = FIRST,
           NEW p \in Participants(c)
    PROVE  Onward(Phase1Completed(c), c, d)
<1> DEFINE on == Transition(c, SECOND)
<1>1. CASE AllThrough(c, Keys, {FIRST})
  <2>1. \A n \in Participants(c) : c.phase[<<NetKey, n>>] = FIRST
    <3>1. TAKE n \in Participants(c)
    <3>2. <<NetKey, n>> \in Slots /\ NetKey \in Keys
      BY ParticipantIsNode DEF Sound
    <3>3. QED
      BY <1>1, <3>2 DEF AllThrough
  <2>2. p \in Staying(c)
    BY ParticipantIsNode DEF Sound
  <2>3. TransitionOps(c, SECOND) # <<>>
    <3>1. c.phase[<<NetKey, p>>] # SECOND
      BY <2>1
    <3>2. QED
      BY <2>2, <3>1, PhaseSetsScheduled
  <2>4. OfKinds(c.queue, {"NODE_RESET"})
    BY DEF OfKinds
  <2>5. Onward(on, c, d)
    BY <2>1, <2>3, <2>4, OnwardTransition
  <2>6. Sound(on)
    <3>1. c.gen > 0
      BY DEF Sound
    <3>2. QED
      BY <3>1, SoundTransition
  <2> HIDE DEF on
  <2>7. Phase1Completed(c) = Execute(on)
    BY <1>1 DEF Phase1Completed, on
  <2>8. QED
    BY <2>5, <2>6, <2>7, OnwardExecute
<1>2. CASE ~ AllThrough(c, Keys, {FIRST})
  <2>1. HaveTaken(c)
    BY DEF HaveTaken
  <2>2. QED
    BY <1>2, <2>1, OnwardIdle DEF Phase1Completed
<1>3. QED
  BY <1>1, <1>2

\* The end of every handler of a KEY_REFRESH state.
LEMMA OnwardDone ==
    ASSUME NEW c, Sound(c), Matches(c), ShortTable, NEW d \in [Nodes -> Device], HaveTaken(c),
           NEW p \in Participants(c), NEW kr \in KrStates,
           c.queue = <<>> => /\ kr = "KR1" => c.netPhase = FIRST
                             /\ kr = "KR2" => c.netPhase = SECOND
                             /\ kr = "KR3" => c.netPhase = THIRD,
           c.queue # <<>> => QueueFits(c)
    PROVE  Onward(IfDone(c, kr), c, d)
<1>1. CASE c.queue # <<>>
  BY <1>1 DEF IfDone, Onward
<1>2. CASE c.queue = <<>>
  <2>1. IfDone(c, kr) = PhaseCompleted(c, kr)
    BY <1>2 DEF IfDone
  <2>2. CASE kr = "KR1"
    BY <1>2, <2>1, <2>2, OnwardPhase1 DEF PhaseCompleted
  <2>3. CASE kr = "KR2"
    BY <1>2, <2>1, <2>3, OnwardPhase2 DEF PhaseCompleted
  <2>4. CASE kr = "KR3"
    <3>1. OfKinds(c.queue, {"NODE_RESET"})
      BY <1>2 DEF OfKinds
    <3>2. Onward(Phase3Completed(c), c, d)
      BY <1>2, <2>4, <3>1, OnwardPhase3
    <3>3. QED
      BY <2>1, <2>4, <3>2 DEF PhaseCompleted
  <2>5. QED
    BY <2>2, <2>3, <2>4 DEF KrStates
<1>3. QED
  BY <1>1, <1>2

-----------------------------------------------------------------------------
(* The connection stays: a refresh is taken up, a node removed. *)

LEMMA OnwardFrom ==
    ASSUME NEW c, NEW t, NEW r, NEW d, Onward(r, t, d),
           Accounted(c, d, {}) => Accounted(t, d, {})
    PROVE  Onward(r, c, d)
BY DEF Onward

LEMMA ContinueSecondFields ==
    ASSUME NEW c, Sound(c), c.netPhase = SECOND
    PROVE  LET r == ContinueSecond(c)
           IN  /\ r.queue = c.queue \o TransitionOps(c, SECOND)
               /\ r.netPhase = (IF TransitionOps(c, SECOND) = <<>> THEN THIRD ELSE SECOND)
               /\ r.gen = c.gen /\ r.phase = c.phase /\ r.nodes = c.nodes
               /\ r.blocked = c.blocked /\ r.state = "KR2" /\ Sound(r)
<1> DEFINE t  == Transition(c, SECOND)
           np == IF TransitionOps(c, SECOND) = <<>> THEN THIRD ELSE t.netPhase
<1>1. c \in Client /\ c.gen > 0
  BY DEF Sound
<1>2. /\ t.queue = c.queue \o TransitionOps(c, SECOND) /\ t.netPhase = SECOND
      /\ t.gen = c.gen /\ t.phase = c.phase /\ t.nodes = c.nodes
      /\ t.blocked = c.blocked /\ t.state = "KR2" /\ t \in Client
  BY <1>1, SoundTransition, TransitionFields DEF Sound
<1>3. ContinueSecond(c) = [t EXCEPT !.netPhase = np]
  BY DEF ContinueSecond
<1>4. np = IF TransitionOps(c, SECOND) = <<>> THEN THIRD ELSE SECOND
  BY <1>2
<1>5. Sound(ContinueSecond(c))
  BY SoundContinueSecond
<1> HIDE DEF t, np
<1>6. QED
  BY <1>2, <1>3, <1>4, <1>5 DEF Client

\* A client whose key is in the third phase goes on.
LEMMA OnwardThird ==
    ASSUME NEW c, Sound(c), ShortTable, NEW d \in [Nodes -> Device], HaveTaken(c),
           OfKinds(c.queue, {"NODE_RESET"}), c.netPhase = THIRD,
           c.queue # <<>> /\ TransitionOps(c, THIRD) = <<>> => Suspects(c) # {}
    PROVE  Onward(IF TransitionOps(c, THIRD) = <<>>
                  THEN Phase3Completed(Transition(c, THIRD))
                  ELSE Transition(c, THIRD), c, d)
<1> DEFINE t == Transition(c, THIRD)
<1>1. \A n \in Participants(c) : c.phase[<<NetKey, n>>] # NORMAL
  BY DEF HaveTaken
<1>2. CASE TransitionOps(c, THIRD) # <<>>
  BY <1>1, <1>2, OnwardTransition
<1>3. CASE TransitionOps(c, THIRD) = <<>>
  <2>1. c \in Client /\ c.gen > 0 /\ c.queue \in Seq(Op)
    BY DEF Sound, Client
  <2>2. /\ t.queue = c.queue /\ t.netPhase = THIRD /\ t.gen = c.gen
        /\ t.phase = c.phase /\ t.nodes = c.nodes /\ t.blocked = c.blocked
    BY <1>3, <2>1, TransitionFields
  <2>3. Sound(t)
    BY <2>1, SoundTransition
  <2> HIDE DEF t
  <2>4. AllThrough(t, {NetKey}, {THIRD, NORMAL})
    <3> SUFFICES ASSUME NEW s \in Slots, s[1] \in {NetKey}, s[2] \in Participants(t)
                 PROVE  t.phase[s] \in {THIRD, NORMAL}
      BY DEF AllThrough
    <3>1. s = <<NetKey, s[2]>>
      BY ClientAssumption DEF Slots
    <3>2. s[2] \in Staying(c)
      BY <2>2 DEF Participants, Staying
    <3>3. c.phase[<<NetKey, s[2]>>] \in {THIRD, NORMAL}
      BY <1>3, <3>2, PhaseSetsScheduled
    <3>4. QED
      BY <2>2, <3>1, <3>3
  <2>5. HaveTaken(t) /\ OfKinds(t.queue, {"NODE_RESET"}) /\ Suspects(t) = Suspects(c)
    BY <2>2 DEF HaveTaken, Participants, Suspects
  <2>6. t.queue = <<>> \/ Suspects(t) # {}
    BY <1>3, <2>2, <2>5
  <2>7. Onward(Phase3Completed(t), t, d)
    BY <2>2, <2>3, <2>4, <2>5, <2>6, OnwardPhase3
  <2>8. Accounted(c, d, {}) => Accounted(t, d, {})
    BY <2>2, AccountedOn
  <2>9. Onward(Phase3Completed(t), c, d)
    BY <2>7, <2>8, OnwardFrom
  <2>10. QED
    BY <1>3, <2>9 DEF t
<1>4. QED
  BY <1>2, <1>3

\* One whose key is in the second.
LEMMA OnwardSecond ==
    ASSUME NEW c, Sound(c), ShortTable, NEW d \in [Nodes -> Device], HaveTaken(c),
           OfKinds(c.queue, {"NODE_RESET"}), c.netPhase = SECOND,
           NEW p \in Participants(c),
           NEW e, e = ContinueSecond(c)
    PROVE  Onward(IF e.netPhase # THIRD THEN e
                  ELSE IF TransitionOps(e, THIRD) = <<>>
                       THEN Phase3Completed(Transition(e, THIRD))
                       ELSE Transition(e, THIRD), c, d)
<1> DEFINE ops == TransitionOps(c, SECOND)
<1>1. /\ e.queue = c.queue \o ops /\ e.netPhase = (IF ops = <<>> THEN THIRD ELSE SECOND)
      /\ e.gen = c.gen /\ e.phase = c.phase /\ e.nodes = c.nodes
      /\ e.blocked = c.blocked /\ e.state = "KR2" /\ Sound(e)
  BY ContinueSecondFields
<1>2. HaveTaken(e) /\ (Accounted(c, d, {}) => Accounted(e, d, {}))
  BY <1>1, AccountedOn DEF HaveTaken, Participants
<1>3. CASE ops # <<>>
  <2> DEFINE t == Transition(c, SECOND)
  <2>1. QueueFits(t)
    BY <1>3, FitsTransition
  <2>2. t.queue = e.queue /\ t.state = e.state
    BY <1>1, TransitionFields DEF Sound
  <2> HIDE DEF t
  <2>3. QueueFits(e)
    BY <2>1, <2>2, SameFits
  <2>4. e.netPhase # THIRD
    BY <1>1, <1>3
  <2>5. QED
    BY <1>2, <2>3, <2>4 DEF Onward
<1>4. CASE ops = <<>>
  <2>1. p \in Staying(c)
    BY ParticipantIsNode DEF Sound
  <2>2. c.phase[<<NetKey, p>>] = SECOND
    BY <1>4, <2>1, PhaseSetsScheduled
  <2>3. p \in Staying(e) /\ e.phase[<<NetKey, p>>] = SECOND /\ e.netPhase = THIRD
    BY <1>1, <1>4, <2>1, <2>2 DEF Staying
  <2>4. TransitionOps(e, THIRD) # <<>>
    BY <1>1, <2>3, PhaseSetsScheduled
  <2>5. e.queue = c.queue
    BY <1>1, <1>4 DEF Sound, Client
  <2>6. Onward(Transition(e, THIRD), e, d)
    <3>1. OfKinds(e.queue, {"NODE_RESET"})
      BY <2>5
    <3>2. \A n \in Participants(e) : e.phase[<<NetKey, n>>] # NORMAL
      BY <1>2, <2>3 DEF HaveTaken
    <3>3. Sound(e) /\ e.netPhase # NORMAL
      BY <1>1, <2>3
    <3> HIDE DEF ops
    <3>4. QED
      BY <2>4, <3>1, <3>2, <3>3, OnwardTransition
  <2>7. QED
    BY <1>2, <2>3, <2>4, <2>6, OnwardFrom
<1>5. QED
  BY <1>3, <1>4

\* mesh_key_refresh_continue.
LEMMA OnwardContinue ==
    ASSUME NEW c, Sound(c), ShortTable, NEW d \in [Nodes -> Device], HaveTaken(c),
           OfKinds(c.queue, {"NODE_RESET"}), c.netPhase # NORMAL,
           NEW p \in Participants(c),
           c.netPhase = THIRD /\ c.queue # <<>> => Suspects(c) # {}
    PROVE  Onward(Continue(c), c, d)
<1> DEFINE c1 == ContinueFirst(c)
           c2 == ContinueSecond(c1)
           go == IF c2.netPhase # THIRD THEN c2
                 ELSE IF TransitionOps(c2, THIRD) = <<>>
                      THEN Phase3Completed(Transition(c2, THIRD))
                      ELSE Transition(c2, THIRD)
<1>1. Continue(c) = go
  BY DEF Continue
<1>2. c.netPhase \in {FIRST, SECOND, THIRD} /\ c \in Client /\ c.queue \in Seq(Op)
  BY DEF Sound, Client
<1>3. CASE c.netPhase = FIRST
  <2> DEFINE ops == Phase1Ops(c)
             K   == {"KEY_UPDATE", "NODE_RESET"}
  <2>1. /\ c1.queue = c.queue \o ops /\ c1.netPhase = (IF ops = <<>> THEN SECOND ELSE FIRST)
        /\ c1.gen = c.gen /\ c1.phase = c.phase /\ c1.nodes = c.nodes
        /\ c1.blocked = c.blocked /\ c1.state = "KR1"
    BY <1>3, ContinueFirstFields
  <2>2. Sound(c1)
    BY SoundContinueFirst
  <2>3. Accounted(c, d, {}) => Accounted(c1, d, {})
    BY <1>3, <2>1, AccountedOn
  <2>4. ops \in Seq(Op) /\ OfKinds(ops, K)
        /\ (ops = <<>> => \A s \in Slots : s[2] \in Staying(c) => c.phase[s] # NORMAL)
    BY UpdatesScheduled DEF OfKinds
  <2>5. CASE ops # <<>>
    <3>1. OfKinds(c.queue, K)
      BY DEF OfKinds
    <3> HIDE DEF ops, K, c1
    <3>2. OfKinds(c1.queue, K) /\ c1.queue # <<>>
      BY <1>2, <2>1, <2>4, <2>5, <3>1, KindsAppend
    <3>3. QueueFits(c1) /\ HaveTaken(c1)
      BY <2>1, <2>5, <3>2 DEF QueueFits, HaveTaken, K
    <3>4. ContinueSecond(c1) = c1 /\ c1.netPhase # THIRD
      BY <2>1, <2>5 DEF ContinueSecond
    <3>5. go = c1
      BY <3>4
    <3> HIDE DEF go
    <3>6. QED
      BY <1>1, <2>3, <3>3, <3>5 DEF Onward
  <2>6. CASE ops = <<>>
    <3>1. c1.queue = c.queue /\ c1.netPhase = SECOND
      BY <1>2, <2>1, <2>6
    <3>2. HaveTaken(c1)
      <4> SUFFICES ASSUME NEW n \in Participants(c) PROVE c.phase[<<NetKey, n>>] # NORMAL
        BY <2>1 DEF HaveTaken, Participants
      <4>1. <<NetKey, n>> \in Slots /\ n \in Staying(c)
        BY ParticipantIsNode DEF Sound
      <4>2. QED
        BY <2>4, <2>6, <4>1
    <3>3. p \in Participants(c1)
      BY <2>1 DEF Participants
    <3> HIDE DEF ops, K, c1
    <3>4. OfKinds(c1.queue, {"NODE_RESET"})
      BY <3>1
    <3>5. Onward(go, c1, d)
      BY <2>2, <3>1, <3>2, <3>3, <3>4, OnwardSecond
    <3> HIDE DEF go
    <3>6. QED
      BY <1>1, <2>3, <3>5, OnwardFrom
  <2>7. QED
    BY <2>5, <2>6
<1>4. CASE c.netPhase # FIRST
  <2>1. c1 = c
    BY <1>4 DEF ContinueFirst
  <2>2. CASE c.netPhase = SECOND
    <3>1. c2 = ContinueSecond(c)
      BY <2>1
    <3> HIDE DEF c2, c1
    <3>2. Onward(go, c, d)
      BY <2>2, <3>1, OnwardSecond
    <3>3. QED
      BY <1>1, <3>2
  <2>3. CASE c.netPhase = THIRD
    <3>1. c2 = c
      BY <2>1, <2>3 DEF ContinueSecond
    <3> HIDE DEF c2, c1
    <3>2. Onward(go, c, d)
      BY <2>3, <3>1, OnwardThird
    <3>3. QED
      BY <1>1, <3>2
  <2>4. QED
    BY <1>2, <1>4, <2>2, <2>3
<1>5. QED
  BY <1>3, <1>4

\* mesh_reset_node of a node that takes part: it is known to have taken the key if
\* the others are to switch to it, and so the refresh starts over for it.
LEMMA OnwardResetNode ==
    ASSUME NEW c, Sound(c), ShortTable, NEW d \in [Nodes -> Device], HaveTaken(c),
           c.state = "IDLE", c.queue = <<>>,
           NEW n \in Participants(c), NEW p \in Participants(c), p # n
    PROVE  Onward(ResetNode(c, n), c, d)
<1> DEFINE T  == {i \in DOMAIN c.queue : c.queue[i].dst # n}
           a  == Clean(c, n)
           b  == [a EXCEPT !.retries = 0, !.blocked = @ \cup {n}]
           c1 == Enqueue(b, <<NodeReset(n)>>)
           k  == [c1 EXCEPT !.state = "KR1"]
           c2 == IF c1.netPhase = NORMAL THEN UpdateKeys(k) ELSE c1
<1>1. /\ n \in Nodes \ {Local} /\ n \in c.nodes /\ n \notin c.blocked /\ n \notin Provisioners
      /\ <<NetKey, n>> \in Slots
  BY ParticipantIsNode DEF Sound
<1>2. /\ Sound(a) /\ a.queue = <<>> /\ SameRecord(a, c) /\ a.nodes = c.nodes
      /\ a.blocked = c.blocked /\ a.state = "IDLE"
  <2>1. Sound(a)
    BY SoundClean
  <2>2. a.queue = Select(c.queue, T) /\ SameRecord(a, c) /\ a.nodes = c.nodes
        /\ a.blocked = c.blocked /\ a.state = c.state
    BY CleanFields DEF Sound
  <2>3. T \in SUBSET DOMAIN c.queue
    OBVIOUS
  <2>4. Len(Select(c.queue, T)) <= Len(c.queue) /\ Select(c.queue, T) \in Seq(Op)
    BY <2>3, SelectOrder, SelectType DEF Sound, Client
  <2>5. Len(c.queue) = 0
    OBVIOUS
  <2> HIDE DEF a, T
  <2>6. a.queue = <<>>
    BY <2>2, <2>4, <2>5
  <2>7. QED
    BY <2>1, <2>2, <2>6
<1> HIDE DEF a
<1>3. /\ Sound(b) /\ b.queue = <<>> /\ SameRecord(b, c) /\ b.nodes = c.nodes
      /\ b.blocked = c.blocked \cup {n}
  <2>1. a.queue \in Seq(SafeOps(a.blocked \cup {n}))
    BY <1>2
  <2>2. Sound(b) /\ b.queue = a.queue
    BY <1>1, <1>2, <2>1, SoundBlocked
  <2>3. SameRecord(b, a) /\ b.nodes = a.nodes /\ b.blocked = a.blocked \cup {n}
    BY <1>2 DEF Sound, Client, SameRecord
  <2> HIDE DEF b
  <2>4. QED
    BY <1>2, <2>2, <2>3 DEF SameRecord
<1> HIDE DEF b
<1>4. /\ Sound(c1) /\ c1.queue = <<NodeReset(n)>> /\ SameRecord(c1, c) /\ c1.nodes = c.nodes
      /\ c1.blocked = c.blocked \cup {n}
  <2>1. <<NodeReset(n)>> \in Seq(SafeOps(b.blocked))
    BY <1>1, ClientAssumption DEF NodeReset, SafeOps, Op, OpKinds, Keys
  <2>2. Sound(c1) /\ SameButQueue(c1, b)
    BY <1>3, <2>1, SoundEnqueue
  <2>3. c1.queue = b.queue \o <<NodeReset(n)>>
    BY <1>3 DEF Enqueue, Sound, Client
  <2>4. b.queue \o <<NodeReset(n)>> = <<NodeReset(n)>>
    BY <1>3
  <2> HIDE DEF c1
  <2>5. QED
    BY <1>3, <2>2, <2>3, <2>4 DEF SameButQueue, SameRecord
<1> HIDE DEF c1
<1>5. /\ p \in Participants(c1) /\ Participants(c1) \subseteq Participants(c)
      /\ OfKinds(c1.queue, {"NODE_RESET"})
  BY <1>1, <1>4 DEF Participants, OfKinds, NodeReset
<1>6. HaveTaken(c1)
  BY <1>4, <1>5 DEF HaveTaken, SameRecord
<1>7. ResetNode(c, n) = Execute(Continue(c2))
  BY DEF ResetNode, a, b, c1
<1>8. Onward(Continue(c2), c, d) /\ Sound(Continue(c2))
  <2>1. CASE c.netPhase = NORMAL
    <3>1. /\ Sound(k) /\ k.queue = c1.queue /\ k.gen = c1.gen /\ k.phase = c1.phase
          /\ k.nodes = c1.nodes /\ k.blocked = c1.blocked /\ k \in Client
      <4>1. Sound(k)
        BY <1>4, SoundState DEF ClientStates
      <4>2. QED
        BY <1>4, <4>1 DEF Sound, Client
    <3> HIDE DEF k
    <3> DEFINE u == UpdateKeys(k)
    <3>2. /\ Sound(u) /\ u.queue = c1.queue /\ u.netPhase = FIRST /\ u.gen = c.gen + 1
          /\ u.nodes = c1.nodes /\ u.blocked = c1.blocked /\ u.state = k.state
      BY <1>4, <3>1, SoundUpdateKeys, UpdateKeysFields DEF SameRecord
    <3>3. c2 = u
      BY <1>4, <2>1 DEF SameRecord
    <3> HIDE DEF u, c2
    <3>4. HaveTaken(u) /\ p \in Participants(u) /\ OfKinds(u.queue, {"NODE_RESET"})
      BY <1>5, <3>2 DEF HaveTaken, Participants
    <3>5. Onward(Continue(u), u, d)
      BY <3>2, <3>4, OnwardContinue
    <3>6. Accounted(c, d, {}) => Accounted(u, d, {})
      <4>1. c.gen \in Nat
        BY DEF Sound, Client
      <4>2. QED
        BY <3>2, <4>1, AccountedRenewed
    <3>7. Matches(u)
      <4>1. k.state = "KR1"
        BY <1>4 DEF k, Sound, Client
      <4>2. QED
        BY <3>2, <4>1 DEF Matches
    <3>8. QED
      BY <3>2, <3>3, <3>5, <3>6, <3>7, OnwardFrom, SoundContinue
  <2>2. CASE c.netPhase # NORMAL
    <3>1. c2 = c1
      BY <1>4, <2>2 DEF SameRecord
    <3> HIDE DEF c2, k
    <3>2. c1.netPhase = THIRD => Suspects(c1) # {}
      <4> SUFFICES ASSUME c1.netPhase = THIRD PROVE n \in Suspects(c1)
        OBVIOUS
      <4>1. c.netPhase = THIRD /\ c1.phase = c.phase
        BY <1>4 DEF SameRecord
      <4>2. c.phase[<<NetKey, n>>] # NORMAL
        BY <4>1 DEF HaveTaken
      <4>3. QED
        BY <1>1, <1>4, <4>1, <4>2 DEF Suspects
    <3>3. c1.netPhase # NORMAL
      BY <1>4, <2>2 DEF SameRecord
    <3>4. Onward(Continue(c1), c1, d)
      BY <1>4, <1>5, <1>6, <3>2, <3>3, OnwardContinue
    <3>5. Accounted(c, d, {}) => Accounted(c1, d, {})
      BY <1>4, <2>2, <3>3, AccountedOn DEF SameRecord
    <3>6. Matches(c1)
      <4>1. c1.state = "IDLE"
        <5>1. b.state = "IDLE"
          BY <1>2 DEF b, Sound, Client
        <5>2. QED
          BY <1>3, <5>1 DEF c1, Enqueue, Sound, Client
      <4>2. QED
        BY <4>1 DEF Matches
    <3>7. QED
      BY <1>4, <3>1, <3>4, <3>5, <3>6, OnwardFrom, SoundContinue
  <2>3. QED
    BY <2>1, <2>2
<1> HIDE DEF c2
<1>9. QED
  BY <1>7, <1>8, OnwardExecute

-----------------------------------------------------------------------------
(* The connection stays: answers and failures. *)

\* The head is dropped and, if it was the last, the phase completed.
LEMMA OnwardNext ==
    ASSUME NEW c, Sound(c), Matches(c), ShortTable, NEW d \in [Nodes -> Device],
           c.state \in KrStates, QueueFits(c), HaveTaken(c), NEW p \in Participants(c)
    PROVE  Onward(IfDone(StartNextOp(c), c.state), c, d)
<1> DEFINE r == StartNextOp(c)
           q == c.queue
<1>1. c \in Client /\ q \in Seq(Op) /\ q # <<>>
  BY DEF Sound, Client, QueueFits, KrStates
<1>2. /\ r.queue = Tail(q) /\ SameRecord(r, c) /\ r.nodes = c.nodes /\ r.blocked = c.blocked
      /\ r.state = IF r.queue = <<>> /\ c.state \notin {"KR1", "KR2"} THEN "IDLE" ELSE c.state
  BY <1>1, StartNextOpFields
<1>3. Sound(r)
  BY SoundStartNextOp
<1> HIDE DEF r
<1>4. Matches(r)
  BY <1>2 DEF Matches, SameRecord
<1>5. HaveTaken(r) /\ p \in Participants(r) /\ (Accounted(c, d, {}) => Accounted(r, d, {}))
  BY <1>2, SameAccount DEF Participants
<1>6. r.queue # <<>> => QueueFits(r)
  <2> SUFFICES ASSUME r.queue # <<>> PROVE QueueFits(r)
    OBVIOUS
  <2>1. r.state = c.state
    BY <1>2
  <2>2. \A K : OfKinds(q, K) => OfKinds(r.queue, K)
    BY <1>1, <1>2, KindsTail
  <2> HIDE DEF q
  <2>3. QED
    BY <2>1, <2>2 DEF QueueFits, KrStates, q
<1>7. /\ c.state = "KR1" => r.netPhase = FIRST
      /\ c.state = "KR2" => r.netPhase = SECOND
      /\ c.state = "KR3" => r.netPhase = THIRD
  BY <1>2 DEF Matches, SameRecord
<1>8. Onward(IfDone(r, c.state), r, d)
  BY <1>3, <1>4, <1>5, <1>6, <1>7, OnwardDone
<1>9. QED
  BY <1>5, <1>8, OnwardFrom DEF r

\* The node whose answer says that it has the new network key.
News(st) ==
    IF st.kind = "KEY_UPDATE" /\ st.key = NetKey /\ st.ok THEN {st.src} ELSE {}

\* The answers to key updates and phase sets.
LEMMA OnwardKrStatus ==
    ASSUME NEW c, Sound(c), Matches(c), ShortTable, NEW d \in [Nodes -> Device],
           c.state \in KrStates, QueueFits(c), HaveTaken(c), NEW p \in Participants(c),
           NEW st \in Status, AnswersHead(c, st), st.kind \in {"KEY_UPDATE", "KR_PHASE_SET"}
    PROVE  LET r == KrStatus(c, st)
           IN  /\ QueueFits(r) /\ HaveTaken(r)
               /\ Accounted(c, d, News(st)) => Accounted(r, d, {})
<1> DEFINE v  == CASE c.state = "KR1" -> FIRST
                   [] c.state = "KR2" -> SECOND
                   [] c.state = "KR3" -> THIRD
           c1 == IF st.ok THEN SetPhase(c, st.key, st.src, v) ELSE c
<1>1. v \in {FIRST, SECOND, THIRD}
  BY DEF KrStates
<1>2. c \in Client /\ st.key \in Keys /\ st.src \in Nodes /\ st.ok \in BOOLEAN
  BY DEF Sound, Status
<1> HIDE DEF v
<1>3. /\ c1.queue = c.queue /\ c1.netPhase = c.netPhase /\ c1.gen = c.gen
      /\ c1.nodes = c.nodes /\ c1.blocked = c.blocked /\ c1.state = c.state
      /\ \A s \in Slots : c1.phase[s] = IF st.ok /\ s = <<st.key, st.src>> /\ st.src \in c.nodes
                                        THEN v ELSE c.phase[s]
  <2>1. CASE st.ok
    BY <1>2, <2>1, SetPhaseFields
  <2>2. CASE ~ st.ok
    BY <2>2
  <2>3. QED
    BY <2>1, <2>2
<1>4. Sound(c1) /\ Matches(c1)
  <2>1. CASE st.ok
    <3>1. v \in Phases
      BY <1>1
    <3>2. Sound(SetPhase(c, st.key, st.src, v))
      BY <1>2, <3>1, SoundSetPhase
    <3>3. Sound(c1)
      BY <2>1, <3>2
    <3>4. QED
      BY <1>3, <3>3 DEF Matches
  <2>2. CASE ~ st.ok
    BY <2>2
  <2>3. QED
    BY <2>1, <2>2
<1>5. KrStatus(c, st) = IfDone(StartNextOp(c1), c.state)
  <2>1. HeadAnsweredBy(c1, st)
    BY <1>3 DEF AnswersHead, Answers, HeadAnsweredBy, HeadIs
  <2>2. QED
    BY <2>1 DEF KrStatus, v
<1> HIDE DEF c1
<1>6. HaveTaken(c1)
  <2> SUFFICES ASSUME c.netPhase \in {SECOND, THIRD}, NEW n \in Participants(c)
               PROVE  c1.phase[<<NetKey, n>>] # NORMAL
    BY <1>3 DEF HaveTaken, Participants
  <2>1. <<NetKey, n>> \in Slots /\ c.phase[<<NetKey, n>>] # NORMAL
    BY <1>2, ParticipantIsNode DEF HaveTaken
  <2>2. QED
    BY <1>1, <1>3, <2>1
<1>7. ASSUME Accounted(c, d, News(st)) PROVE Accounted(c1, d, {})
  <2> SUFFICES ASSUME NEW n \in Nodes \ Provisioners
               PROVE  /\ d[n].cur <= c1.gen
                      /\ d[n].member /\ d[n].cur = c1.gen =>
                            IF c1.netPhase = NORMAL THEN n \in Staying(c1)
                            ELSE n \in c1.nodes /\ c1.phase[<<NetKey, n>>] # NORMAL
    BY DEF Accounted
  <2>1. /\ d[n].cur <= c.gen
        /\ d[n].member /\ d[n].cur = c.gen =>
              IF c.netPhase = NORMAL THEN n \in Staying(c)
              ELSE n \in c.nodes /\ (c.phase[<<NetKey, n>>] # NORMAL \/ n \in News(st))
    BY <1>7 DEF Accounted
  <2>2. <<NetKey, n>> \in Slots
    BY ClientAssumption
  <2>3. n \in News(st) => st.ok /\ <<NetKey, n>> = <<st.key, st.src>>
    BY DEF News
  <2>4. c.phase[<<NetKey, n>>] # NORMAL => c1.phase[<<NetKey, n>>] # NORMAL
    BY <1>1, <1>3, <2>2
  <2>5. n \in News(st) /\ n \in c.nodes => c1.phase[<<NetKey, n>>] # NORMAL
    BY <1>1, <1>3, <2>2, <2>3
  <2>6. QED
    BY <1>3, <2>1, <2>4, <2>5 DEF Staying
<1>8. QueueFits(c1) /\ p \in Participants(c1)
  BY <1>3, SameFits DEF Participants
<1>9. Onward(IfDone(StartNextOp(c1), c1.state), c1, d)
  BY <1>3, <1>4, <1>6, <1>8, OnwardNext
<1>10. QED
  BY <1>3, <1>5, <1>7, <1>9 DEF Onward

\* The answer of the proxy ends NETWORK_CONNECT.
LEMMA OnwardConnected ==
    ASSUME NEW c, Sound(c), ShortTable, NEW d \in [Nodes -> Device], HaveTaken(c),
           c.queue = <<FilterAdd>>, NEW p \in Participants(c), NEW x \in Staying(c)
    PROVE  Onward(ConnectFilterStatus(c, x), c, d)
<1> DEFINE q  == IF HeadIs(c, "FILTER_ADD") THEN Tail(c.queue) ELSE c.queue
           c1 == [c EXCEPT !.state = "IDLE", !.queue = q]
           r  == IF c1.netPhase # NORMAL THEN Continue(c1) ELSE c1
<1>1. q = <<>>
  BY DEF HeadIs, FilterAdd
<1>2. /\ c1.state = "IDLE" /\ c1.queue = <<>> /\ SameRecord(c1, c)
      /\ c1.nodes = c.nodes /\ c1.blocked = c.blocked
  <2>1. c1 = [c EXCEPT !.state = "IDLE", !.queue = <<>>]
    BY <1>1
  <2> HIDE DEF c1
  <2>2. QED
    BY <2>1 DEF Sound, Client, SameRecord
<1>3. Sound(c1) /\ Matches(c1)
  <2>1. c1 = [c EXCEPT !.state = "IDLE", !.queue = <<>>]
    BY <1>1
  <2>2. <<>> \in Seq(Op) /\ <<>> \in Seq(SafeOps(c.blocked))
    OBVIOUS
  <2> HIDE DEF c1
  <2>3. QED
    BY <2>1, <2>2 DEF Sound, Client, ClientStates, Matches
<1>4. ConnectFilterStatus(c, x) = Execute(r)
  <2>1. x \notin c1.nodes \cap c1.blocked
    BY <1>2 DEF Staying
  <2>2. QED
    BY <2>1 DEF ConnectFilterStatus
<1> HIDE DEF c1
<1>5. /\ QueueFits(c1) /\ HaveTaken(c1) /\ p \in Participants(c1)
      /\ OfKinds(c1.queue, {"NODE_RESET"})
      /\ (Accounted(c, d, {}) => Accounted(c1, d, {}))
  BY <1>2, SameAccount DEF QueueFits, Participants, OfKinds
<1>6. Onward(r, c1, d) /\ Sound(r)
  <2>1. CASE c1.netPhase # NORMAL
    <3>1. Onward(Continue(c1), c1, d)
      BY <1>2, <1>3, <1>5, <2>1, OnwardContinue
    <3>2. QED
      BY <1>3, <2>1, <3>1, SoundContinue
  <2>2. CASE c1.netPhase = NORMAL
    BY <1>3, <1>5, <2>2 DEF Onward
  <2>3. QED
    BY <2>1, <2>2
<1> HIDE DEF r
<1>7. Onward(Execute(r), c1, d)
  BY <1>6, OnwardExecute
<1>8. QED
  BY <1>4, <1>5, <1>7, OnwardFrom

\* The answer to the head is handled.
LEMMA OnwardStatus ==
    ASSUME NEW c, Sound(c), Matches(c), ShortTable, NEW d \in [Nodes -> Device],
           QueueFits(c), HaveTaken(c), NEW p \in Participants(c),
           NEW st \in Status, AnswersHead(c, st), NEW u \in BOOLEAN,
           st.kind = "FILTER_ADD" => st.src \in Staying(c)
    PROVE  LET r == OnStatus(c, st, u)
           IN  /\ QueueFits(r) /\ HaveTaken(r)
               /\ Accounted(c, d, News(st)) => Accounted(r, d, {})
<1>1. /\ c.queue \in Seq(Op) /\ c.queue # <<>> /\ Head(c.queue) = c.queue[1]
      /\ 1 \in DOMAIN c.queue /\ c.state \in ClientStates
  BY DEF Sound, Client, AnswersHead
<1>2. /\ st.kind = c.queue[1].kind /\ st.key = c.queue[1].key
      /\ (st.kind # "FILTER_ADD" => st.src = c.queue[1].dst)
  BY <1>1 DEF AnswersHead, Answers
<1>3. c.state # "IDLE"
  BY <1>1 DEF QueueFits
<1>4. CASE c.state = "NETWORK_CONNECT"
  <2>1. c.queue = <<FilterAdd>>
    BY <1>1, <1>4 DEF QueueFits
  <2>2. st.kind = "FILTER_ADD"
    BY <1>2, <2>1 DEF FilterAdd
  <2>3. OnStatus(c, st, u) = ConnectFilterStatus(c, st.src)
    BY <1>4, <2>2 DEF OnStatus, KrStates
  <2>4. Onward(ConnectFilterStatus(c, st.src), c, d)
    BY <2>1, <2>2, OnwardConnected
  <2>5. News(st) = {}
    BY <2>2 DEF News
  <2>6. QED
    BY <2>3, <2>4, <2>5 DEF Onward
<1>5. CASE c.state \in KrStates
  <2>1. /\ st.kind = "NODE_RESET" \/ st.kind \in {"KEY_UPDATE", "KR_PHASE_SET"}
        /\ c.state = "KR1" => st.kind # "KR_PHASE_SET"
        /\ c.state \in {"KR2", "KR3"} => st.kind # "KEY_UPDATE"
    <3>1. CASE c.state = "KR1"
      <4>1. c.queue[1].kind \in {"KEY_UPDATE", "NODE_RESET"}
        BY <1>1, <3>1 DEF QueueFits, OfKinds
      <4>2. QED
        BY <1>2, <3>1, <4>1
    <3>2. CASE c.state \in {"KR2", "KR3"}
      <4>1. c.queue[1].kind \in {"KR_PHASE_SET", "NODE_RESET"}
        BY <1>1, <3>2 DEF QueueFits, OfKinds
      <4>2. QED
        BY <1>2, <3>2, <4>1
    <3>3. QED
      BY <1>5, <3>1, <3>2 DEF KrStates
  <2>2. CASE st.kind = "NODE_RESET"
    <3>1. OnStatus(c, st, u) = KrResetStatus(c, st)
      BY <1>5, <2>2 DEF OnStatus
    <3>2. HeadAnsweredBy(c, st)
      BY <1>1, <1>2, <2>2 DEF HeadAnsweredBy, HeadIs
    <3>3. KrResetStatus(c, st) = IfDone(StartNextOp(c), c.state)
      BY <1>1, <3>2 DEF KrResetStatus
    <3>4. Onward(IfDone(StartNextOp(c), c.state), c, d)
      BY <1>5, OnwardNext
    <3>5. News(st) = {}
      BY <2>2 DEF News
    <3>6. QED
      BY <3>1, <3>3, <3>4, <3>5 DEF Onward
  <2>3. CASE st.kind \in {"KEY_UPDATE", "KR_PHASE_SET"}
    <3>1. OnStatus(c, st, u) = KrStatus(c, st)
      <4>1. CASE c.state = "KR1"
        BY <2>1, <2>3, <4>1 DEF OnStatus, KrStates
      <4>2. CASE c.state \in {"KR2", "KR3"}
        BY <2>1, <2>3, <4>2 DEF OnStatus, KrStates
      <4>3. QED
        BY <1>5, <4>1, <4>2 DEF KrStates
    <3>2. QED
      BY <1>5, <2>3, <3>1, OnwardKrStatus
  <2>4. QED
    BY <2>1, <2>2, <2>3
<1>6. QED
  BY <1>1, <1>3, <1>4, <1>5 DEF ClientStates, KrStates

LEMMA KindsSelect ==
    ASSUME NEW S, NEW s \in Seq(S), NEW T \in SUBSET DOMAIN s, NEW K, OfKinds(s, K)
    PROVE  OfKinds(Select(s, T), K)
<1>1. PICK f \in [DOMAIN Select(s, T) -> T] :
         \A j \in DOMAIN Select(s, T) : Select(s, T)[j] = s[f[j]]
  BY SelectOrder
<1>2. QED
  BY <1>1 DEF OfKinds

\* The core gives up on an operation.
LEMMA OnwardTxFailed ==
    ASSUME NEW c, Sound(c), Matches(c), ShortTable, NEW d \in [Nodes -> Device],
           QueueFits(c), HaveTaken(c), NEW p \in Participants(c), NEW dst
    PROVE  Onward(OnTxFailed(c, dst), c, d)
<1>1. CASE c.state \notin KrStates
  BY <1>1 DEF OnTxFailed, Onward
<1>2. CASE c.state = "KR1"
  <2> DEFINE T  == {i \in DOMAIN c.queue : c.queue[i].dst # dst}
             c1 == Clean(c, dst)
             z  == [c1 EXCEPT !.state = "IDLE"]
  <2>1. c \in Client /\ c.queue \in Seq(Op) /\ c.queue # <<>>
        /\ OfKinds(c.queue, {"KEY_UPDATE", "NODE_RESET"}) /\ c.netPhase = FIRST
    BY <1>2 DEF Sound, Client, QueueFits, Matches
  <2>2. OnTxFailed(c, dst) = IF c1.queue # <<>> THEN Execute(c1) ELSE Phase1Completed(z)
    BY <1>2, <2>1 DEF OnTxFailed, KrStates, KrTxFailed
  <2>3. /\ c1.queue = Select(c.queue, T) /\ SameRecord(c1, c) /\ c1.nodes = c.nodes
        /\ c1.blocked = c.blocked /\ c1.state = "KR1"
    <3>1. /\ c1.queue = Select(c.queue, T) /\ SameRecord(c1, c) /\ c1.nodes = c.nodes
          /\ c1.blocked = c.blocked /\ c1.state = c.state
      BY <2>1, CleanFields
    <3>2. QED
      BY <1>2, <3>1
  <2>4. Sound(c1)
    BY SoundClean
  <2>5. OfKinds(c1.queue, {"KEY_UPDATE", "NODE_RESET"})
    <3>1. T \in SUBSET DOMAIN c.queue
      OBVIOUS
    <3> HIDE DEF T
    <3>2. QED
      BY <2>1, <2>3, <3>1, KindsSelect
  <2> HIDE DEF c1
  <2>6. HaveTaken(c1) /\ (Accounted(c, d, {}) => Accounted(c1, d, {}))
    BY <2>3, SameAccount
  <2>7. CASE c1.queue # <<>>
    <3>1. QueueFits(c1)
      BY <2>3, <2>5, <2>7 DEF QueueFits
    <3>2. Onward(c1, c, d)
      BY <2>6, <3>1 DEF Onward
    <3>3. QED
      BY <2>2, <2>4, <2>7, <3>2, OnwardExecute
  <2>8. CASE c1.queue = <<>>
    <3>1. Sound(z)
      BY <2>4, SoundState DEF ClientStates
    <3>2. /\ z.queue = <<>> /\ SameRecord(z, c) /\ z.nodes = c.nodes /\ z.blocked = c.blocked
      BY <2>3, <2>4, <2>8 DEF Sound, Client, SameRecord
    <3> HIDE DEF z
    <3>3. z.netPhase = FIRST /\ p \in Participants(z)
      BY <2>1, <3>2 DEF SameRecord, Participants
    <3>4. Onward(Phase1Completed(z), z, d)
      BY <3>1, <3>2, <3>3, OnwardPhase1
    <3>5. Accounted(c, d, {}) => Accounted(z, d, {})
      BY <3>2, SameAccount
    <3>6. QED
      BY <2>2, <2>8, <3>4, <3>5, OnwardFrom
  <2>9. QED
    BY <2>7, <2>8
<1>3. CASE c.state \in {"KR2", "KR3"}
  <2>1. c.state \in KrStates /\ c.state # "KR1" /\ c.queue # <<>>
    BY <1>3 DEF KrStates, QueueFits
  <2>2. OnTxFailed(c, dst) = IfDone(StartNextOp(c), c.state)
    BY <2>1 DEF OnTxFailed, KrTxFailed
  <2>3. Onward(IfDone(StartNextOp(c), c.state), c, d)
    BY <2>1, OnwardNext
  <2>4. QED
    BY <2>2, <2>3
<1>4. QED
  BY <1>1, <1>2, <1>3 DEF KrStates

-----------------------------------------------------------------------------
(* The connection stays: the invariant.                                     *)

\* The connection does not break by itself, the proxies and provisioners are not
\* removed, and at least one other node is not.
Steady ==
    /\ Plain
    /\ MaxDisconnects = 0 /\ MaxDrops = 0
    /\ Removable \cap (Proxies \cup Provisioners) = {}
    /\ Nodes \ (Removable \cup Provisioners) # {}

\* No answer is lost with its message delivered, and mesh_reset_node runs to its end.
Reliable == ~ AckLoss /\ MaxCrashes = 0

Silent(rep) == \A n \in Nodes : rep[n] = <<>>

\* At most one answer is on its way, and it is for the head.
OneAnswer(c, rep) ==
    \A m, n \in Nodes : \A i \in DOMAIN rep[m], j \in DOMAIN rep[n] :
        /\ m = n /\ i = j
        /\ AnswersHead(c, rep[m][i])
        /\ rep[m][i].kind = "FILTER_ADD" => m \in Proxies

\* A connection is waited for with nothing pending, and goes to a proxy that stays.
Connected ==
    /\ link = "connecting" => cl.state = "NETWORK_CONNECT" /\ cl.queue = <<>>
    /\ link = "up" => proxy \in Proxies
    /\ \A p \in Proxies : dev[p].member
    /\ Nodes \ Removable \subseteq Staying(cl)

Continuous == QueueFits(cl) /\ HaveTaken(cl) /\ OneAnswer(cl, replies) /\ Connected

\* The nodes whose news are on their way.
Reporting(rep) == {n \in Nodes : \E i \in DOMAIN rep[n] : n \in News(rep[n][i])}

AllAccounted == Accounted(cl, dev, Reporting(replies))

LEMMA NothingReported ==
    ASSUME NEW rep, Silent(rep)
    PROVE  Reporting(rep) = {} /\ \A c : OneAnswer(c, rep)
BY DEF Silent, Reporting, OneAnswer

LEMMA NothingIn ==
    ASSUME NEW S, NEW s \in Seq(S), 1 \notin DOMAIN s
    PROVE  s = <<>>
OBVIOUS

LEMMA OnlyOneIn ==
    ASSUME NEW S, NEW s \in Seq(S), s # <<>>, 2 \notin DOMAIN s
    PROVE  Tail(s) = <<>>
OBVIOUS

LEMMA TheAnswer ==
    ASSUME NEW c, NEW rep, OneAnswer(c, rep), NEW n \in Nodes, NEW i \in DOMAIN rep[n]
    PROVE  /\ AnswersHead(c, rep[n][i])
           /\ rep[n][i].kind = "FILTER_ADD" => n \in Proxies
           /\ \A m \in Nodes : \A j \in DOMAIN rep[m] : m = n /\ j = i
BY DEF OneAnswer

\* Without an operation there is no answer, and none before the head's.
LEMMA SilentEmpty ==
    ASSUME IInv, OneAnswer(cl, replies), cl.queue = <<>>
    PROVE  Silent(replies)
<1> SUFFICES ASSUME NEW n \in Nodes PROVE replies[n] = <<>>
  BY DEF Silent
<1>1. replies[n] \in Seq(Status)
  BY DEF IInv, Environment
<1>2. 1 \notin DOMAIN replies[n]
  <2> SUFFICES ASSUME 1 \in DOMAIN replies[n] PROVE FALSE
    OBVIOUS
  <2>1. AnswersHead(cl, replies[n][1])
    BY TheAnswer
  <2>2. QED
    BY <2>1 DEF AnswersHead
<1>3. QED
  BY <1>1, <1>2, NothingIn

LEMMA SilentBefore ==
    ASSUME IInv, Agreement, OneAnswer(cl, replies), NEW o \in inflight, ~ Answered(o)
    PROVE  Silent(replies) /\ cl.queue # <<>> /\ o = Head(cl.queue)
<1>1. cl.queue # <<>> /\ o = Head(cl.queue)
  BY DEF Agreement, OnlyHeadSent
<1>2. ASSUME NEW n \in Nodes PROVE replies[n] = <<>>
  <2>1. replies[n] \in Seq(Status)
    BY DEF IInv, Environment
  <2>2. 1 \notin DOMAIN replies[n]
    <3> SUFFICES ASSUME 1 \in DOMAIN replies[n] PROVE FALSE
      OBVIOUS
    <3>1. AnswersHead(cl, replies[n][1])
      BY TheAnswer
    <3>2. QED
      BY <1>1, <3>1 DEF AnswersHead, Answered
  <2>3. QED
    BY <2>1, <2>2, NothingIn
<1>3. QED
  BY <1>1, <1>2 DEF Silent

\* Some node that is no provisioner stays.
LEMMA SomeoneStays ==
    ASSUME Steady, Connected
    PROVE  \E p \in Participants(cl) : p \notin Removable
BY DEF Steady, Connected, Participants, Staying

\* Nothing but the state, the queue and the timer of the client changes.
LEMMA StillContinuous ==
    ASSUME Continuous, QueueFits(cl'), SameRecord(cl', cl),
           cl'.nodes = cl.nodes, cl'.blocked = cl.blocked, dev' = dev,
           OneAnswer(cl', replies'), Reporting(replies') = Reporting(replies),
           link' = "connecting" => cl'.state = "NETWORK_CONNECT" /\ cl'.queue = <<>>,
           link' = "up" => proxy' \in Proxies
    PROVE  Continuous' /\ (AllAccounted => AllAccounted')
<1>1. HaveTaken(cl') /\ (AllAccounted => Accounted(cl', dev, Reporting(replies)))
  BY SameAccount DEF Continuous, AllAccounted
<1>2. Staying(cl') = Staying(cl)
  BY DEF Staying
<1>3. Connected'
  BY <1>2 DEF Continuous, Connected
<1>4. QED
  BY <1>1, <1>3 DEF Continuous, AllAccounted

LEMMA OpTimerContinues ==
    ASSUME IInv, Continuous, OpTimer
    PROVE  Continuous' /\ (AllAccounted => AllAccounted')
<1>1. /\ cl' = [cl EXCEPT !.timer = FALSE]
      /\ dev' = dev /\ replies' = replies /\ link' = link /\ proxy' = proxy
  BY DEF OpTimer
<1>2. /\ cl'.queue = cl.queue /\ cl'.state = cl.state /\ SameRecord(cl', cl)
      /\ cl'.nodes = cl.nodes /\ cl'.blocked = cl.blocked
  BY <1>1 DEF IInv, Sound, Client, SameRecord
<1>3. QueueFits(cl')
  BY <1>2, SameFits DEF Continuous
<1>5. OneAnswer(cl', replies')
  BY <1>1, <1>2 DEF Continuous, OneAnswer, AnswersHead
<1>4. QED
  BY <1>1, <1>2, <1>3, <1>5, StillContinuous DEF Continuous, Connected

\* One answer is all there is to deliver or lose.
LEMMA SilentAfter ==
    ASSUME IInv, OneAnswer(cl, replies), NEW n \in Nodes, replies[n] # <<>>,
           replies' = [replies EXCEPT ![n] = Tail(@)]
    PROVE  Silent(replies')
<1>1. replies \in [Nodes -> Seq(Status)]
  BY DEF IInv, Environment
<1> DEFINE s == replies[n]
<1>2. s \in Seq(Status) /\ s # <<>> /\ 1 \in DOMAIN s
  BY <1>1
<1>3. ASSUME NEW m \in Nodes, m # n PROVE replies'[m] = <<>>
  <2>1. replies[m] \in Seq(Status) /\ replies'[m] = replies[m]
    BY <1>1, <1>3
  <2>2. 1 \notin DOMAIN replies[m]
    BY <1>2, <1>3, TheAnswer
  <2>3. QED
    BY <2>1, <2>2, NothingIn
<1>4. replies'[n] = <<>>
  <2>1. replies'[n] = Tail(s)
    BY <1>1
  <2>2. 2 \notin DOMAIN s
    BY <1>2, TheAnswer
  <2> HIDE DEF s
  <2>3. QED
    BY <1>2, <2>1, <2>2, OnlyOneIn
<1>5. QED
  BY <1>3, <1>4 DEF Silent

LEMMA LoseStatusContinues ==
    ASSUME IInv, Continuous, NEW n \in Nodes, LoseStatus(n)
    PROVE  Continuous' /\ (Reliable /\ AllAccounted => AllAccounted')
<1>1. /\ cl' = cl /\ dev' = dev /\ link' = link /\ proxy' = proxy /\ ~ Reliable
      /\ replies[n] # <<>> /\ replies' = [replies EXCEPT ![n] = Tail(@)]
  BY DEF LoseStatus, Reliable
<1>2. OneAnswer(cl', replies')
  BY <1>1, SilentAfter, NothingReported DEF Continuous
<1>3. QED
  BY <1>1, <1>2 DEF Continuous, Connected

LEMMA DeliverStatusContinues ==
    ASSUME Steady, IInv, Agreement, InTime(cl), InTime(cl'), Continuous,
           NEW n \in Nodes, DeliverStatus(n)
    PROVE  Continuous' /\ (AllAccounted => AllAccounted')
<1> DEFINE st == Head(replies[n])
<1>1. replies' = [replies EXCEPT ![n] = Tail(@)] /\ replies[n] # <<>>
  BY PlainDelivery DEF Steady
<1>2. replies \in [Nodes -> Seq(Status)] /\ 1 \in DOMAIN replies[n] /\ st = replies[n][1]
      /\ st \in Status
  BY <1>1 DEF IInv, Environment
<1>3. PICK u \in BOOLEAN : cl' = OnStatus(cl, st, u)
  BY DEF DeliverStatus
<1>4. dev' = dev /\ link' = link /\ proxy' = proxy
  BY DEF DeliverStatus
<1>5. Fits(cl, dev[n], n, st, link) /\ AnswersHead(cl, st)
      /\ (st.kind = "FILTER_ADD" => n \in Proxies)
  BY <1>2 DEF Agreement, AnswersFit, Continuous, OneAnswer
<1>6. Timely(cl, dev, st) /\ st.src = n
  BY <1>2, <1>5 DEF Timely, Fits
<1>7. Staying(cl') = Staying(cl)
  <2>1. InTime(OnStatus(cl, st, u))
    BY <1>3
  <2> HIDE DEF st
  <2>2. Handled(OnStatus(cl, st, u), cl, dev, st)
    BY <1>6, <2>1, OnStatusHandled DEF Agreement, IInv, Plain, Steady
  <2>3. QED
    BY <1>3, <2>2 DEF Handled
<1>8. Silent(replies')
  BY <1>1, SilentAfter DEF Continuous
<1>9. /\ QueueFits(cl') /\ HaveTaken(cl')
      /\ Accounted(cl, dev, News(st)) => Accounted(cl', dev, {})
  <2>1. PICK p \in Participants(cl) : TRUE
    BY SomeoneStays DEF Continuous
  <2>2. st.kind = "FILTER_ADD" => st.src \in Staying(cl)
    BY <1>5, <1>6 DEF Continuous, Connected, Steady
  <2>3. /\ Sound(cl) /\ Matches(cl) /\ dev \in [Nodes -> Device] /\ QueueFits(cl)
        /\ HaveTaken(cl) /\ ShortTable
    BY DEF IInv, Environment, Continuous, Steady, Plain
  <2> HIDE DEF st
  <2>4. QED
    BY <1>2, <1>3, <1>5, <2>1, <2>2, <2>3, OnwardStatus
<1>10. Reporting(replies) \subseteq News(st)
  <2> SUFFICES ASSUME NEW m \in Nodes, NEW i \in DOMAIN replies[m], m \in News(replies[m][i])
               PROVE  m \in News(st)
    BY DEF Reporting
  <2>1. m = n /\ i = 1
    BY <1>2 DEF Continuous, OneAnswer
  <2>2. QED
    BY <1>2, <2>1
<1> HIDE DEF st
<1>11. AllAccounted => AllAccounted'
  <2>1. AllAccounted => Accounted(cl, dev, News(st))
    BY <1>10 DEF AllAccounted, Accounted
  <2>2. Reporting(replies') = {}
    BY <1>8, NothingReported
  <2>3. QED
    BY <1>4, <1>9, <2>1, <2>2 DEF AllAccounted
<1>12. Connected'
  <2>1. cl.queue # <<>>
    BY <1>5 DEF AnswersHead
  <2>2. QED
    BY <1>4, <1>7, <2>1 DEF Continuous, Connected
<1>13. QED
  BY <1>8, <1>9, <1>11, <1>12, NothingReported DEF Continuous

LEMMA TxFailedContinues ==
    ASSUME Steady, IInv, Agreement, InTime(cl'), Continuous, NEW o \in inflight, TxFailed(o)
    PROVE  Continuous' /\ (AllAccounted => AllAccounted')
<1>1. /\ cl' = OnTxFailed(cl, o.dst)
      /\ dev' = dev /\ link' = link /\ replies' = replies /\ proxy' = proxy /\ ~ Answered(o)
  BY DEF TxFailed, GivesUp
<1>2. Silent(replies) /\ cl.queue # <<>>
  BY <1>1, SilentBefore DEF Continuous
<1>3. Staying(cl') = Staying(cl)
  BY <1>1, GoodOnTxFailed DEF Plain, Steady, Agreement, IInv
<1>4. Onward(cl', cl, dev)
  <2>1. PICK p \in Participants(cl) : TRUE
    BY SomeoneStays DEF Continuous
  <2>2. /\ Sound(cl) /\ Matches(cl) /\ dev \in [Nodes -> Device] /\ QueueFits(cl)
        /\ HaveTaken(cl) /\ ShortTable
    BY DEF IInv, Environment, Continuous, Steady, Plain
  <2>3. QED
    BY <1>1, <2>1, <2>2, OnwardTxFailed
<1>5. Reporting(replies) = {} /\ OneAnswer(cl', replies')
  BY <1>1, <1>2, NothingReported
<1>6. Connected'
  BY <1>1, <1>2, <1>3 DEF Continuous, Connected
<1>7. QED
  BY <1>1, <1>4, <1>5, <1>6 DEF Continuous, AllAccounted, Onward

-----------------------------------------------------------------------------
(* The connection stays: what the nodes and the user do.                    *)

LEMMA AfterMember ==
    ASSUME NEW e \in Device, NEW o \in Op, o.kind # "NODE_RESET"
    PROVE  After(e, o).member = e.member
BY DEF After, Device, Op, OpKinds

\* A device gets another network key only by an update it accepts.
LEMMA AfterCur ==
    ASSUME NEW e \in Device, NEW o \in Op
    PROVE  LET f == After(e, o)
           IN  /\ f.member => e.member
               /\ \/ f.cur = e.cur
                  \/ o.kind = "KEY_UPDATE" /\ o.key = NetKey /\ Accepts(e, o) /\ f.cur = o.val
BY DEF After, Device, Op, OpKinds

LEMMA NodeHandlesContinues ==
    ASSUME Steady, IInv, Agreement, Continuous, NEW o \in inflight, NodeHandles(o)
    PROVE  Continuous' /\ (AllAccounted => AllAccounted')
<1> DEFINE n  == IF o.kind = "FILTER_ADD" THEN proxy ELSE o.dst
           st == Answer(o)
<1>1. /\ ~ Answered(o) /\ Reaches(o)
      /\ dev' = IF o.kind = "FILTER_ADD" THEN dev ELSE [dev EXCEPT ![o.dst] = After(@, o)]
      /\ replies' = [replies EXCEPT ![st.src] = Append(@, st)]
      /\ cl' = cl /\ link' = link /\ proxy' = proxy
  BY DEF NodeHandles
<1>2. Silent(replies) /\ cl.queue # <<>> /\ o = Head(cl.queue)
  BY <1>1, SilentBefore DEF Continuous
<1>3. /\ o \in Op /\ dev \in [Nodes -> Device] /\ replies \in [Nodes -> Seq(Status)]
      /\ proxy \in Nodes /\ cl.queue \in Seq(Op)
      /\ Sound(cl) /\ Aimed(cl)
  BY DEF IInv, Environment, Sound, Client, Agreement, Good
<1>4. n \in Nodes /\ st.src = n /\ st.kind = o.kind /\ st.key = o.key /\ st.ok = Accepts(dev[n], o)
  BY <1>3 DEF Op, Answer
<1>5. o = cl.queue[1] /\ 1 \in DOMAIN cl.queue
  BY <1>2, <1>3
<1> HIDE DEF st
<1>6. replies'[n] = <<st>> /\ \A m \in Nodes \ {n} : replies'[m] = <<>>
  <2>1. replies[n] = <<>> /\ \A m \in Nodes : replies[m] = <<>>
    BY <1>2, <1>4 DEF Silent
  <2>2. replies'[n] = Append(<<>>, st)
    BY <1>1, <1>3, <1>4, <2>1
  <2>3. Append(<<>>, st) = <<st>>
    OBVIOUS
  <2>4. \A m \in Nodes \ {n} : replies'[m] = replies[m]
    BY <1>1, <1>3, <1>4
  <2>5. QED
    BY <2>1, <2>2, <2>3, <2>4
<1>7. AnswersHead(cl, st) /\ (st.kind = "FILTER_ADD" => n \in Proxies)
  <2>1. AnswersHead(cl, st)
    BY <1>2, <1>4 DEF AnswersHead, Answers
  <2>2. o.kind = "FILTER_ADD" => proxy \in Proxies
    BY <1>1 DEF Reaches, Continuous, Connected
  <2>3. QED
    BY <1>4, <2>1, <2>2
<1> HIDE DEF n
<1>8. OneAnswer(cl', replies')
  <2>1. ASSUME NEW m \in Nodes, NEW i \in DOMAIN replies'[m]
        PROVE  m = n /\ i = 1 /\ replies'[m][i] = st
    BY <1>6
  <2>2. QED
    BY <1>1, <1>7, <2>1 DEF OneAnswer
<1>9. Connected'
  <2>1. ASSUME NEW p \in Proxies PROVE dev'[p].member
    <3>1. p \in Nodes /\ p \in Staying(cl) /\ dev[p].member
      BY MeshAssumption DEF Continuous, Connected, Steady
    <3>2. CASE o.kind = "NODE_RESET"
      <4>1. o.dst # p
        BY <1>5, <3>1, <3>2 DEF Aimed, IInv, Agreement, Good
      <4>2. QED
        BY <1>1, <1>3, <3>1, <3>2, <4>1
    <3>3. CASE o.kind # "NODE_RESET"
      <4>1. After(dev[p], o).member = dev[p].member
        BY <1>3, <3>1, <3>3, AfterMember
      <4>2. dev'[p] = dev[p] \/ dev'[p] = After(dev[p], o)
        BY <1>1, <1>3, <3>1
      <4>3. QED
        BY <3>1, <4>1, <4>2
    <3>4. QED
      BY <3>2, <3>3
  <2>2. QED
    BY <1>1, <2>1 DEF Continuous, Connected, Staying
<1>10. ASSUME AllAccounted, NEW m \in Nodes \ Provisioners
       PROVE  /\ dev'[m].cur <= cl.gen
              /\ dev'[m].member /\ dev'[m].cur = cl.gen =>
                    IF cl.netPhase = NORMAL THEN m \in Staying(cl)
                    ELSE m \in cl.nodes /\ (cl.phase[<<NetKey, m>>] # NORMAL
                                            \/ m \in Reporting(replies'))
  <2>1. /\ dev[m].cur <= cl.gen
        /\ dev[m].member /\ dev[m].cur = cl.gen =>
              IF cl.netPhase = NORMAL THEN m \in Staying(cl)
              ELSE m \in cl.nodes /\ cl.phase[<<NetKey, m>>] # NORMAL
    <3>1. Reporting(replies) = {}
      BY <1>2, NothingReported
    <3>2. QED
      BY <1>10, <3>1 DEF AllAccounted, Accounted
  <2>2. CASE dev'[m].cur = dev[m].cur /\ (dev'[m].member => dev[m].member)
    BY <2>1, <2>2
  <2>3. CASE ~ (dev'[m].cur = dev[m].cur /\ (dev'[m].member => dev[m].member))
    <3>1. o.kind # "FILTER_ADD" /\ m = o.dst /\ dev'[m] = After(dev[m], o) /\ dev[m] \in Device
      BY <1>1, <1>3, <1>10, <2>3
    <3>2. /\ o.kind = "KEY_UPDATE" /\ o.key = NetKey /\ Accepts(dev[m], o)
          /\ dev'[m].cur = o.val
      BY <1>3, <2>3, <3>1, AfterCur
    <3>3. n = m
      BY <3>1 DEF n
    <3>4. m \in Participants(cl) /\ m \in cl.nodes
      <4>1. o.dst \in Staying(cl)
        BY <1>3, <1>5, <3>2 DEF Aimed
      <4>2. QED
        BY <1>10, <3>1, <4>1 DEF Participants, Staying
    <3>5. o.val = cl.gen /\ cl.netPhase # NORMAL /\ cl.gen \in Nat
      <4>1. UpdatesFit(cl, m)
        BY <3>4 DEF Agreement, Good
      <4>2. IsUpdate(cl.queue[1], m)
        BY <1>5, <3>1, <3>2 DEF IsUpdate
      <4>3. cl.gen \in Nat
        BY <1>3 DEF Sound, Client
      <4>4. QED
        BY <1>5, <4>1, <4>2, <4>3 DEF UpdatesFit
    <3>6. m \in News(st)
      BY <1>4, <3>2, <3>3 DEF News
    <3>7. m \in Reporting(replies')
      <4>1. 1 \in DOMAIN replies'[m] /\ replies'[m][1] = st
        BY <1>6, <3>3
      <4>2. QED
        BY <3>4, <3>6, <4>1, <1>10 DEF Reporting
    <3>8. QED
      BY <3>2, <3>4, <3>5, <3>7
  <2>4. QED
    BY <2>2, <2>3
<1>11. AllAccounted => AllAccounted'
  BY <1>1, <1>10 DEF AllAccounted, Accounted
<1>12. QED
  BY <1>1, <1>8, <1>9, <1>11 DEF Continuous

LEMMA LinkUpContinues ==
    ASSUME IInv, Continuous, NEW p \in Proxies, LinkUp(p)
    PROVE  Continuous' /\ (AllAccounted => AllAccounted')
<1>1. /\ link = "connecting" /\ link' = "up" /\ proxy' = p
      /\ cl' = OnLinkUp(cl) /\ dev' = dev /\ replies' = replies
  BY DEF LinkUp
<1>2. cl.state = "NETWORK_CONNECT" /\ cl.queue = <<>> /\ cl \in Client
  BY <1>1 DEF Continuous, Connected, IInv, Sound
<1> DEFINE a == Enqueue(cl, <<FilterAdd>>)
<1>3. /\ a.queue = <<FilterAdd>> /\ a.state = cl.state /\ SameRecord(a, cl)
      /\ a.nodes = cl.nodes /\ a.blocked = cl.blocked /\ a.timer = cl.timer
      /\ cl' = Execute(a)
  BY <1>1, <1>2 DEF OnLinkUp, AddFilter, Enqueue, Client, SameRecord
<1>4. /\ cl'.queue = <<FilterAdd>> /\ cl'.state = "NETWORK_CONNECT" /\ SameRecord(cl', cl)
      /\ cl'.nodes = cl.nodes /\ cl'.blocked = cl.blocked
  BY <1>1, <1>2 DEF OnLinkUp, AddFilter, Enqueue, Execute, Client, SameRecord
<1>5. QueueFits(cl')
  BY <1>4 DEF QueueFits
<1>6. OneAnswer(cl', replies')
  BY <1>1, <1>2, SilentEmpty, NothingReported DEF Continuous
<1>7. QED
  BY <1>1, <1>4, <1>5, <1>6, StillContinuous

LEMMA ConnectFailedContinues ==
    ASSUME IInv, Continuous, ConnectFailed
    PROVE  Continuous' /\ (AllAccounted => AllAccounted')
<1>1. /\ link = "connecting" /\ link' = IF Reconnects(cl) THEN "connecting" ELSE "down"
      /\ cl' = OnLinkDown(cl) /\ dev' = dev /\ replies' = replies
  BY DEF ConnectFailed, LinkDown
<1>2. cl.state = "NETWORK_CONNECT" /\ cl.queue = <<>> /\ cl \in Client
  BY <1>1 DEF Continuous, Connected, IInv, Sound
<1>3. /\ cl'.queue = <<>> /\ cl'.state = "IDLE" /\ SameRecord(cl', cl)
      /\ cl'.nodes = cl.nodes /\ cl'.blocked = cl.blocked /\ link' = "down"
  BY <1>1, <1>2 DEF OnLinkDown, Reconnects, KrStates, Client, SameRecord
<1>4. QueueFits(cl')
  BY <1>3 DEF QueueFits
<1>5. OneAnswer(cl', replies')
  BY <1>1, <1>2, SilentEmpty, NothingReported DEF Continuous
<1>6. QED
  BY <1>1, <1>3, <1>4, <1>5, StillContinuous

LEMMA ConnectNetworkContinues ==
    ASSUME IInv, Continuous, ConnectNetwork
    PROVE  Continuous' /\ (AllAccounted => AllAccounted')
<1>1. /\ cl.state = "IDLE" /\ cl' = [cl EXCEPT !.state = "NETWORK_CONNECT"]
      /\ link' = "connecting" /\ dev' = dev /\ replies' = replies
  BY DEF ConnectNetwork
<1>2. cl.queue = <<>> /\ cl \in Client
  BY <1>1 DEF Continuous, QueueFits, IInv, Sound
<1>3. /\ cl'.queue = <<>> /\ cl'.state = "NETWORK_CONNECT" /\ SameRecord(cl', cl)
      /\ cl'.nodes = cl.nodes /\ cl'.blocked = cl.blocked
  BY <1>1, <1>2 DEF Client, SameRecord
<1>4. QueueFits(cl')
  BY <1>3 DEF QueueFits
<1>5. OneAnswer(cl', replies')
  BY <1>1, <1>2, SilentEmpty, NothingReported DEF Continuous
<1>6. QED
  BY <1>1, <1>3, <1>4, <1>5, StillContinuous

\* The connection is neither lost nor closed.
LEMMA ConnectionKept ==
    ASSUME Steady, IInv, Continuous
    PROVE  ~ LinkLost /\ ~ DisconnectNetwork
<1>1. used["drops"] \in Nat /\ used["disconnects"] \in Nat
  BY DEF IInv, Environment, Bounds
<1>2. ~ Within("drops") /\ ~ Within("disconnects")
  BY <1>1 DEF Within, Bounds, Steady
<1>3. link = "up" => dev[proxy].member
  BY DEF Continuous, Connected
<1>4. QED
  BY <1>2, <1>3 DEF LinkLost, DisconnectNetwork

LEMMA ResetDeviceContinues ==
    ASSUME Steady, IInv, Agreement, Continuous, InTime(cl'), NEW n \in Removable, ResetDevice(n)
    PROVE  Continuous' /\ (AllAccounted => AllAccounted')
<1>1. /\ cl.state = "IDLE" /\ n \in Staying(cl) /\ n \in Nodes \ {Local}
      /\ cl' = ResetNode(cl, n)
      /\ dev' = dev /\ replies' = replies /\ link' = link /\ proxy' = proxy
  BY MeshAssumption DEF ResetDevice, Staying
<1>2. cl.queue = <<>>
  BY <1>1 DEF Continuous, QueueFits
<1>3. InTime(cl)
  BY <1>2 DEF InTime
<1>4. Silent(replies) /\ Reporting(replies) = {} /\ OneAnswer(cl', replies')
  BY <1>1, <1>2, SilentEmpty, NothingReported DEF Continuous
<1>5. Staying(cl') = Staying(cl) \ {n}
  <2>1. InTime(ResetNode(cl, n))
    BY <1>1
  <2>2. Good(cl, dev) /\ ShortTable
    BY DEF Agreement, Steady, Plain
  <2>3. QED
    BY <1>1, <1>3, <2>1, <2>2, GoodResetNode
<1>6. Onward(cl', cl, dev)
  <2>1. PICK p \in Participants(cl) : p \notin Removable
    BY SomeoneStays DEF Continuous
  <2>2. n \in Participants(cl) /\ p # n
    BY <1>1, <2>1 DEF Steady, Participants, Staying
  <2>3. Sound(cl) /\ dev \in [Nodes -> Device] /\ HaveTaken(cl) /\ ShortTable
    BY DEF IInv, Environment, Continuous, Steady, Plain
  <2>4. QED
    BY <1>1, <1>2, <2>1, <2>2, <2>3, OnwardResetNode
<1>7. link # "connecting"
  BY <1>1 DEF Continuous, Connected
<1>8. Connected'
  BY <1>1, <1>5, <1>7 DEF Continuous, Connected
<1>9. QED
  BY <1>1, <1>4, <1>6, <1>8 DEF Continuous, AllAccounted, Onward

\* A new session: nothing is pending or on its way.
LEMMA RestartedContinues ==
    ASSUME Steady, IInv, Continuous, NEW c, Restarted(c), SameRecord(c, cl), c \in Client,
           c.nodes = cl.nodes, c.blocked \subseteq cl.blocked \cup Removable,
           cl.blocked \subseteq c.blocked
    PROVE  /\ Continuous'
           /\ c.blocked = cl.blocked /\ AllAccounted /\ Reporting(replies) \subseteq {Local}
                 => AllAccounted'
<1>1. /\ cl' = Reopened(c) /\ replies' = [n \in Nodes |-> <<>>] /\ link' = "down"
      /\ dev' = [dev EXCEPT ![Local] = LocalDevice(c)]
  BY DEF Restarted
<1>2. /\ cl'.queue = <<>> /\ cl'.state = "IDLE" /\ SameRecord(cl', cl)
      /\ cl'.nodes = cl.nodes /\ cl'.blocked = c.blocked
  BY <1>1 DEF Reopened, Client, SameRecord
<1>3. QueueFits(cl')
  BY <1>2 DEF QueueFits
<1>4. HaveTaken(cl')
  BY <1>2 DEF Continuous, HaveTaken, SameRecord, Participants
<1>5. Silent(replies')
  BY <1>1 DEF Silent
<1>6. \A m \in Nodes \ {Local} : dev'[m] = dev[m]
  BY <1>1 DEF IInv, Environment
<1>7. Connected'
  BY <1>1, <1>2, <1>6, MeshAssumption DEF Continuous, Connected, Staying
<1>8. ASSUME c.blocked = cl.blocked, AllAccounted, Reporting(replies) \subseteq {Local}
      PROVE  AllAccounted'
  <2>1. Staying(cl') = Staying(cl)
    BY <1>2, <1>8 DEF Staying
  <2>2. Local \in Provisioners
    BY ClientAssumption
  <2>3. Accounted(cl, dev, {})
    BY <1>8, <2>2 DEF AllAccounted, Accounted
  <2>4. Accounted(cl', dev', {})
    BY <1>2, <1>6, <2>1, <2>2, <2>3 DEF Accounted, SameRecord
  <2>5. QED
    BY <1>5, <2>4, NothingReported DEF AllAccounted
<1>9. QED
  BY <1>3, <1>4, <1>5, <1>7, <1>8, NothingReported DEF Continuous

LEMMA ReopenContinues ==
    ASSUME Steady, IInv, Continuous, Reopen
    PROVE  Continuous' /\ (Reliable /\ AllAccounted => AllAccounted')
<1>1. Restarted(cl) /\ AnswersLosable /\ cl \in Client
  BY DEF Reopen, IInv, Sound
<1>2. Reliable => Reporting(replies) \subseteq {Local}
  BY <1>1 DEF Reliable, AnswersLosable, Reporting
<1>3. QED
  BY <1>1, <1>2, RestartedContinues DEF SameRecord

LEMMA CrashContinues ==
    ASSUME Steady, IInv, Continuous, NEW n \in Removable, CrashInResetNode(n)
    PROVE  Continuous' /\ ~ Reliable
<1> DEFINE B == cl.blocked \cup {n}
           c == [cl EXCEPT !.blocked = B]
<1>1. cl \in Client /\ B \in SUBSET Nodes /\ cl.blocked \subseteq B
      /\ B \subseteq cl.blocked \cup Removable
  BY MeshAssumption DEF IInv, Sound, Client
<1>2. Restarted(c) /\ Within("crashes")
  BY DEF CrashInResetNode
<1> HIDE DEF B
<1>3. c \in Client /\ SameRecord(c, cl) /\ c.nodes = cl.nodes /\ c.blocked = B
  BY <1>1 DEF Client, SameRecord
<1> HIDE DEF c
<1>4. ~ Reliable
  <2>1. used["crashes"] \in Nat
    BY DEF IInv, Environment, Bounds
  <2>2. QED
    BY <1>2, <2>1 DEF Within, Bounds, Reliable
<1>5. QED
  BY <1>1, <1>2, <1>3, <1>4, RestartedContinues

-----------------------------------------------------------------------------
(* The connection stays: the theorems.                                      *)

LEMMA ContinuousInit == Init => Continuous /\ AllAccounted /\ Timed(cl)
<1> SUFFICES ASSUME Init PROVE Continuous /\ AllAccounted /\ Timed(cl)
  OBVIOUS
<1>1. /\ cl = ClientInit /\ dev = [n \in Nodes |-> FreshDevice(0)] /\ link = "down"
      /\ replies = [n \in Nodes |-> <<>>]
  BY DEF Init
<1>2. /\ cl.state = "IDLE" /\ cl.queue = <<>> /\ cl.netPhase = NORMAL /\ cl.gen = 0
      /\ Staying(cl) = Nodes
  BY <1>1 DEF ClientInit, Staying
<1>3. Silent(replies)
  BY <1>1 DEF Silent
<1>4. \A n \in Nodes : dev[n].member /\ dev[n].cur = 0
  BY <1>1 DEF FreshDevice
<1>5. QueueFits(cl) /\ HaveTaken(cl)
  BY <1>2 DEF QueueFits, HaveTaken
<1>6. Connected
  BY <1>1, <1>2, <1>4, MeshAssumption DEF Connected
<1>7. AllAccounted
  BY <1>2, <1>4 DEF AllAccounted, Accounted
<1>8. Timed(cl)
  <2>1. Unset(cl)
    BY <1>2 DEF Unset
  <2>2. QED
    BY <2>1, UnsetTimed
<1>9. QED
  BY <1>3, <1>5, <1>6, <1>7, <1>8, NothingReported DEF Continuous

\* Every step keeps it so.
LEMMA ContinuousStep ==
    ASSUME Steady, IInv, Agreement, InTime(cl), InTime(cl'), Continuous, [Next]_vars
    PROVE  Continuous' /\ (Reliable /\ AllAccounted => AllAccounted')
<1>1. CASE OpTimer
  BY <1>1, OpTimerContinues
<1>2. CASE \E n \in Nodes : DeliverStatus(n) \/ LoseStatus(n)
  BY <1>2, DeliverStatusContinues, LoseStatusContinues
<1>3. CASE \E o \in inflight : NodeHandles(o) \/ TxFailed(o)
  BY <1>3, NodeHandlesContinues, TxFailedContinues
<1>4. CASE \E p \in Proxies : LinkUp(p)
  BY <1>4, LinkUpContinues
<1>5. CASE ConnectFailed
  BY <1>5, ConnectFailedContinues
<1>6. CASE LinkLost \/ DisconnectNetwork
  BY <1>6, ConnectionKept
<1>7. CASE ConnectNetwork
  BY <1>7, ConnectNetworkContinues
<1>8. CASE \E n \in Removable : ResetDevice(n) \/ CrashInResetNode(n)
  BY <1>8, ResetDeviceContinues, CrashContinues
<1>9. CASE Reopen
  BY <1>9, ReopenContinues
<1>10. CASE UNCHANGED vars
  BY <1>10 DEF vars, Continuous, Connected, AllAccounted
<1>11. QED
  BY <1>1, <1>2, <1>3, <1>4, <1>5, <1>6, <1>7, <1>8, <1>9, <1>10 DEF Next

\* In IDLE nothing is pending: the user is as TidyUser asks.
LEMMA ContinuousIsTidy == Continuous => Tidy
<1>1. ConnectNetwork => cl.state = "IDLE"
  BY DEF ConnectNetwork
<1>2. (\E n \in Removable : ResetDevice(n)) => cl.state = "IDLE"
  BY DEF ResetDevice
<1>3. cl.queue = <<>> => Unset(cl)
  BY DEF Unset
<1>4. QED
  BY <1>1, <1>2, <1>3 DEF Continuous, QueueFits, Tidy

LEMMA TimedInTime ==
    ASSUME NEW c, Timed(c)
    PROVE  InTime(c)
<1> DEFINE q == c.queue
<1>1. \A i \in DOMAIN q : q[i] \in OpsFor(c.netPhase)
  BY DEF Timed
<1>2. QED
  BY <1>1 DEF InTime, OpsFor

\* All that the theorems below need, for every step.
SteadyInv == Timed(cl) /\ Agreement /\ Continuous

LEMMA SteadyInvStep ==
    ASSUME Steady, IInv, SteadyInv, [Next]_vars
    PROVE  SteadyInv' /\ (Reliable /\ AllAccounted => AllAccounted')
<1>1. Timed(cl')
  BY ContinuousIsTidy, TimedStep DEF SteadyInv
<1>2. InTime(cl) /\ InTime(cl')
  BY <1>1, TimedInTime DEF SteadyInv
<1>4. Agreement'
  BY <1>2, AgreementStep DEF SteadyInv, Steady
<1>5. QED
  BY <1>1, <1>2, <1>4, ContinuousStep DEF SteadyInv

LEMMA SteadyHolds ==
    ASSUME Steady
    PROVE  Spec => []SteadyInv
<1>1. Init => SteadyInv
  BY ContinuousInit, AgreementInit DEF SteadyInv
<1>2. IInv /\ SteadyInv /\ [Next]_vars => SteadyInv'
  BY SteadyInvStep
<1>3. QED
  BY <1>1, <1>2, Invariance, PTL DEF Spec

LEMMA SteadyInvSafe ==
    SteadyInv => WaitsForScheduled /\ PhaseSetsCurrent /\ SwitchSafe /\ OneKeyBehind /\ OldKeyRetired
<1>1. SteadyInv => WaitsForScheduled
  BY DEF SteadyInv, Continuous, QueueFits, WaitsForScheduled, KrStates
<1>2. QED
  BY <1>1, TimedCurrent, AgreementSafe DEF SteadyInv

\* While the connection stays, a refresh never waits with nothing pending: each of its
\* states is left, or has an operation whose answer or failure takes it on.
THEOREM NeverStuck ==
    ASSUME Steady
    PROVE  Spec => []WaitsForScheduled
BY SteadyHolds, SteadyInvSafe, PTL

\* Then the keys are safe whatever the user does.
THEOREM SteadyIsSafe ==
    ASSUME Steady
    PROVE  Spec => [](PhaseSetsCurrent /\ SwitchSafe /\ OneKeyBehind /\ OldKeyRetired)
BY SteadyHolds, SteadyInvSafe, PTL

\* What is accounted for at the end of a refresh.
LEMMA AccountedSafe ==
    ASSUME Steady, IInv, Continuous, AllAccounted
    PROVE  RevokedHaveNoKey
<1> SUFFICES ASSUME cl.netPhase = NORMAL, NEW n \in (Nodes \ cl.nodes) \cup cl.blocked,
                    dev[n].member, dev[n].cur = cl.gen
             PROVE  FALSE
  BY DEF RevokedHaveNoKey
<1>1. n \in Nodes /\ n \notin Staying(cl)
  BY DEF Staying, IInv, Sound, Client
<1>2. n \notin Provisioners
  BY <1>1 DEF Steady, Continuous, Connected
<1>3. QED
  BY <1>1, <1>2 DEF AllAccounted, Accounted

\* When a refresh is over no removed node has the key that is used from then on, even if
\* it never obeyed the Node Reset, if no answer is lost and the client does not end
\* inside mesh_reset_node.
THEOREM RemovedAreLockedOut ==
    ASSUME Steady, Reliable
    PROVE  Spec => []RevokedHaveNoKey
<1>1. Init => SteadyInv /\ AllAccounted
  BY ContinuousInit, AgreementInit DEF SteadyInv
<1>2. IInv /\ SteadyInv /\ AllAccounted /\ [Next]_vars => (SteadyInv /\ AllAccounted)'
  BY SteadyInvStep
<1>3. IInv /\ SteadyInv /\ AllAccounted => RevokedHaveNoKey
  BY AccountedSafe DEF SteadyInv
<1>4. QED
  BY <1>1, <1>2, <1>3, Invariance, PTL DEF Spec
=============================================================================
