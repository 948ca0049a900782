-------------------------- MODULE KeyRefreshProofs --------------------------
(***************************************************************************)
(* Theorems about KeyRefresh, for every value of its constants.            *)
(***************************************************************************)
EXTENDS KeyRefresh, TLAPS, FiniteSetTheorems

-----------------------------------------------------------------------------
(* Select *)

\* Counting the indices of T from below reaches every number up to the size of T.
LEMMA SelectIndex ==
    ASSUME NEW n \in Nat, NEW T \in SUBSET (1 .. n), NEW j \in 1 .. Cardinality(T)
    PROVE  \E i \in T : Cardinality({k \in T : k <= i}) = j
<1> DEFINE Up(i) == {k \in T : k <= i}
           C(i)  == Cardinality(Up(i))
           R     == {ss \in Nat \X Nat : ss[1] < ss[2]}
<1>1. IsFiniteSet(T) /\ Cardinality(T) \in Nat /\ \A k \in T : k \in 1 .. n
  <2>1. IsFiniteSet(1 .. n)
    BY FS_Interval
  <2>2. IsFiniteSet(T)
    BY <2>1, FS_Subset
  <2>3. QED
    BY <2>2, FS_CardinalityType
<1>2. \A i \in Nat : IsFiniteSet(Up(i)) /\ C(i) \in Nat
  <2>1. TAKE i \in Nat
  <2>2. Up(i) \in SUBSET T
    OBVIOUS
  <2>3. IsFiniteSet(Up(i))
    BY <1>1, <2>2, FS_Subset
  <2>4. QED
    BY <2>3, FS_CardinalityType
<1>3. C(0) = 0
  <2>1. \A k \in T : ~ (k <= 0)
    BY <1>1
  <2>2. Up(0) = {}
    BY <2>1
  <2>3. QED
    BY <2>2, FS_EmptySet
<1>4. C(n) = Cardinality(T)
  <2>1. \A k \in T : k <= n
    BY <1>1
  <2>2. Up(n) = T
    BY <2>1
  <2>3. QED
    BY <2>2
<1>5. \A i \in 1 .. n : C(i) = IF i \in T THEN C(i - 1) + 1 ELSE C(i - 1)
  <2>1. TAKE i \in 1 .. n
  <2>2. CASE i \in T
    <3>1. /\ \A k \in T : k <= i <=> k <= i - 1 \/ k = i
          /\ ~ (i <= i - 1) /\ i - 1 \in Nat
      BY <1>1, <2>2
    <3>2. Up(i) = Up(i - 1) \cup {i} /\ i \notin Up(i - 1)
      BY <2>2, <3>1
    <3>3. IsFiniteSet(Up(i - 1))
      BY <1>2, <3>1
    <3>4. C(i) = C(i - 1) + 1
      BY <3>2, <3>3, FS_AddElement
    <3>5. QED
      BY <2>2, <3>4
  <2>3. CASE i \notin T
    <3>1. \A k \in T : k <= i <=> k <= i - 1
      BY <1>1, <2>3
    <3>2. Up(i) = Up(i - 1)
      BY <3>1
    <3>3. QED
      BY <2>3, <3>2
  <2>4. QED
    BY <2>2, <2>3
<1> HIDE DEF C
<1> DEFINE D == {i \in 0 .. n : C(i) >= j}
<1>6. PICK m \in D : \A i \in D : m <= i
  <2>1. D \subseteq Nat /\ D # {}
    BY <1>4
  <2>2. IsWellFoundedOn(R, Nat)
    BY NatLessThanWellFounded DEF OpToRel
  <2>3. PICK m \in D : \A i \in D : ~ (<<i, m>> \in R)
    BY <2>1, <2>2, WFMin
  <2>4. \A i \in D : i \in Nat /\ m \in Nat /\ ~ (i < m)
    BY <2>1, <2>3
  <2>5. \A i \in D : m <= i
    BY <2>4
  <2>6. QED
    BY <2>5
<1>7. m \in 1 .. n /\ C(m) >= j
  BY <1>3, <1>6
<1>8. C(m - 1) < j
  <2>1. m - 1 \in 0 .. n /\ ~ (m <= m - 1)
    BY <1>7
  <2>2. m - 1 \notin D
    BY <1>6, <2>1
  <2>3. m - 1 \in Nat
    BY <2>1
  <2>4. C(m - 1) \in Nat
    BY <1>2, <2>3
  <2>5. QED
    BY <1>1, <2>1, <2>2, <2>4
<1>9. m \in T /\ C(m) = j
  <2>1. m \in Nat /\ m - 1 \in Nat
    BY <1>7
  <2>2. C(m) \in Nat /\ C(m - 1) \in Nat
    BY <1>2, <2>1
  <2>3. QED
    BY <1>1, <1>5, <1>7, <1>8, <2>2
<1>10. QED
  BY <1>9 DEF C

\* Select returns a sequence of elements of s at indices of T, empty only for
\* an empty T.
LEMMA SelectType ==
    ASSUME NEW S, NEW s \in Seq(S), NEW T \in SUBSET DOMAIN s
    PROVE  /\ Select(s, T) \in Seq(S)
           /\ \A j \in DOMAIN Select(s, T) : \E i \in T : Select(s, T)[j] = s[i]
           /\ T # {} => Select(s, T) # <<>>
<1> DEFINE Rank(i) == Cardinality({k \in T : k <= i})
           At(j)   == CHOOSE i \in T : Rank(i) = j
<1>1. Len(s) \in Nat /\ DOMAIN s = 1 .. Len(s) /\ T \in SUBSET (1 .. Len(s))
  OBVIOUS
<1>2. IsFiniteSet(T) /\ Cardinality(T) \in Nat
  <2>1. IsFiniteSet(1 .. Len(s))
    BY FS_Interval
  <2>2. IsFiniteSet(T)
    BY <1>1, <2>1, FS_Subset
  <2>3. QED
    BY <2>2, FS_CardinalityType
<1>3. \A j \in 1 .. Cardinality(T) : At(j) \in T
  <2>1. TAKE j \in 1 .. Cardinality(T)
  <2>2. \E i \in T : Rank(i) = j
    BY <1>1, SelectIndex
  <2>3. QED
    BY <2>2
<1>4. Select(s, T) = [j \in 1 .. Cardinality(T) |-> s[At(j)]]
  BY DEF Select
<1> HIDE DEF At
<1>5. \A j \in 1 .. Cardinality(T) : s[At(j)] \in S
  BY <1>3
<1>6. Select(s, T) \in Seq(S)
  BY <1>2, <1>4, <1>5
<1>7. \A j \in DOMAIN Select(s, T) : \E i \in T : Select(s, T)[j] = s[i]
  BY <1>3, <1>4
<1>8. T # {} => Select(s, T) # <<>>
  <2>1. T # {} => Cardinality(T) # 0
    BY <1>2, FS_EmptySet
  <2>2. Len(Select(s, T)) = Cardinality(T)
    BY <1>2, <1>4, <1>6
  <2>3. QED
    BY <2>1, <2>2
<1>9. QED
  BY <1>6, <1>7, <1>8

-----------------------------------------------------------------------------
(* The client record.  Sound is what every function of KeyRefreshClient    *)
(* preserves on its own; Matches, its relation to the phase of the network *)
(* key, is broken and restored inside mesh_key_refresh_continue.           *)

\* The operations that may be pending while the nodes of B are blocked.
SafeOps(B) == {o \in Op : o.kind \in {"KEY_UPDATE", "KR_PHASE_SET"} => o.dst \notin B}

Sound(c) ==
    /\ c \in Client
    /\ Local \in c.nodes /\ Local \notin c.blocked
    /\ c.queue \in Seq(SafeOps(c.blocked))
    /\ c.netPhase # NORMAL => c.gen > 0

Matches(c) ==
    /\ c.state = "KR1" => c.netPhase = FIRST
    /\ c.state = "KR2" => c.netPhase = SECOND
    /\ c.state = "KR3" => c.netPhase = THIRD

\* d differs from c in no more than the queue and the timer.
SameButQueue(d, c) ==
    /\ d.state = c.state /\ d.netPhase = c.netPhase /\ d.gen = c.gen
    /\ d.phase = c.phase /\ d.nodes = c.nodes /\ d.blocked = c.blocked

USE DEF NORMAL, FIRST, SECOND, THIRD, Phases

\* A sequence of elements of T is one over T.
LEMMA SeqOver ==
    ASSUME NEW S, NEW T, NEW s \in Seq(S), \A i \in DOMAIN s : s[i] \in T
    PROVE  s \in Seq(T)
OBVIOUS

LEMMA TailOver ==
    ASSUME NEW S, NEW s \in Seq(S), s # <<>>
    PROVE  Tail(s) \in Seq(S)
OBVIOUS

LEMMA SafeOpsShrink ==
    ASSUME NEW B, NEW C, C \subseteq B, NEW s \in Seq(SafeOps(B))
    PROVE  s \in Seq(SafeOps(C))
<1>1. \A o \in SafeOps(B) : o \in SafeOps(C)
  BY DEF SafeOps
<1>2. \A i \in DOMAIN s : s[i] \in SafeOps(C)
  BY <1>1
<1>3. QED
  BY <1>2, SeqOver

LEMMA RetriesRange ==
    0 \in 0 .. UINT8 - 1 /\ \A r \in 0 .. UINT8 - 1 : (r + 1) % UINT8 \in 0 .. UINT8 - 1
BY DEF UINT8

\* The local node has a slot for the network key.
LEMMA LocalSlot == Local \in Nodes /\ <<NetKey, Local>> \in Slots
BY ClientAssumption

LEMMA SoundInit == Sound(ClientInit) /\ Matches(ClientInit)
BY ClientAssumption DEF ClientInit, Sound, Matches, Client, ClientStates, UINT8

LEMMA SoundExecute ==
    ASSUME NEW c, Sound(c)
    PROVE  Sound(Execute(c)) /\ SameButQueue(Execute(c), c) /\ Execute(c).queue = c.queue
BY DEF Sound, Execute, Client, SameButQueue

LEMMA SoundEnqueue ==
    ASSUME NEW c, Sound(c), NEW ops \in Seq(SafeOps(c.blocked))
    PROVE  Sound(Enqueue(c, ops)) /\ SameButQueue(Enqueue(c, ops), c)
<1>1. c.queue \o ops \in Seq(SafeOps(c.blocked))
  BY DEF Sound
<1>2. c.queue \o ops \in Seq(Op)
  <2>1. \A o \in SafeOps(c.blocked) : o \in Op
    BY DEF SafeOps
  <2>2. QED
    BY <1>1, <2>1, SeqOver
<1>3. QED
  BY <1>1, <1>2 DEF Sound, Enqueue, Client, SameButQueue

LEMMA SoundClean ==
    ASSUME NEW c, Sound(c), NEW n
    PROVE  /\ Sound(Clean(c, n)) /\ SameButQueue(Clean(c, n), c)
           /\ Clean(c, n).queue \in Seq(SafeOps(c.blocked \cup {n}))
           /\ Clean(c, n).retries = c.retries
<1> DEFINE T == {i \in DOMAIN c.queue : c.queue[i].dst # n}
           q == Select(c.queue, T)
<1>1. c.queue \in Seq(SafeOps(c.blocked)) /\ c \in Client
  BY DEF Sound
<1>2. q \in Seq(SafeOps(c.blocked)) /\ \A j \in DOMAIN q : \E i \in T : q[j] = c.queue[i]
  <2>1. T \in SUBSET DOMAIN c.queue
    OBVIOUS
  <2> HIDE DEF T
  <2>2. QED
    BY <1>1, <2>1, SelectType
<1>3. \A i \in T : c.queue[i] \in SafeOps(c.blocked \cup {n})
  BY <1>1 DEF SafeOps
<1>4. \A o \in SafeOps(c.blocked) : o \in Op
  BY DEF SafeOps
<1> HIDE DEF q
<1>5. q \in Seq(SafeOps(c.blocked \cup {n}))
  BY <1>2, <1>3, SeqOver
<1>6. q \in Seq(Op)
  BY <1>2, <1>4, SeqOver
<1>7. Clean(c, n) = [c EXCEPT !.queue = q]
  BY DEF Clean, q
<1>8. QED
  BY <1>1, <1>2, <1>5, <1>6, <1>7 DEF Sound, Client, SameButQueue

LEMMA SoundStartNextOp ==
    ASSUME NEW c, Sound(c)
    PROVE  /\ Sound(StartNextOp(c))
           /\ StartNextOp(c).netPhase = c.netPhase
           /\ StartNextOp(c).state \in {c.state, "IDLE"}
           /\ c.state \in {"KR1", "KR2"} => StartNextOp(c).state = c.state
<1> DEFINE rest == IF c.queue = <<>> THEN <<>> ELSE Tail(c.queue)
           d    == [c EXCEPT !.queue = rest,
                        !.state = IF rest = <<>> /\ @ \notin {"KR1", "KR2"} THEN "IDLE" ELSE @]
<1>1. c.queue \in Seq(SafeOps(c.blocked)) /\ c \in Client
  BY DEF Sound
<1>2. rest \in Seq(SafeOps(c.blocked)) /\ rest \in Seq(Op)
  BY <1>1 DEF Client
<1> HIDE DEF rest
<1>3. /\ Sound(d) /\ d.netPhase = c.netPhase /\ d.state \in {c.state, "IDLE"}
      /\ c.state \in {"KR1", "KR2"} => d.state = c.state
  BY <1>1, <1>2 DEF Sound, Client, ClientStates
<1>4. StartNextOp(c) = Execute(d)
  BY DEF StartNextOp, rest
<1> HIDE DEF d
<1>5. QED
  BY <1>3, <1>4, SoundExecute DEF SameButQueue

LEMMA SoundAddFilter ==
    ASSUME NEW c, Sound(c)
    PROVE  Sound(AddFilter(c)) /\ SameButQueue(AddFilter(c), c)
<1>1. <<FilterAdd>> \in Seq(SafeOps(c.blocked))
  BY ClientAssumption DEF FilterAdd, SafeOps, Op, OpKinds, Keys
<1>2. Sound(Enqueue(c, <<FilterAdd>>)) /\ SameButQueue(Enqueue(c, <<FilterAdd>>), c)
  BY <1>1, SoundEnqueue
<1>3. QED
  BY <1>2, SoundExecute DEF AddFilter, SameButQueue

-----------------------------------------------------------------------------
(* Scheduling.  Nothing is scheduled for a blocked node. *)

LEMMA SafeUpdates ==
    ASSUME NEW c, Sound(c)
    PROVE  Phase1Ops(c) \in Seq(SafeOps(c.blocked))
<1> DEFINE due  == {i \in DOMAIN KeyOrder :
                       /\ KeyOrder[i][2] \in c.nodes \ c.blocked
                       /\ c.phase[KeyOrder[i]] = NORMAL}
           keys == Select(KeyOrder, due)
<1>1. keys \in Seq(Keys \X Nodes) /\ \A j \in DOMAIN keys : \E i \in due : keys[j] = KeyOrder[i]
  <2>1. due \in SUBSET DOMAIN KeyOrder
    OBVIOUS
  <2> HIDE DEF due
  <2>2. QED
    BY <2>1, SelectType, ClientAssumption
<1>2. \A i \in due : KeyOrder[i][2] \notin c.blocked
  OBVIOUS
<1>3. Phase1Ops(c) = [j \in DOMAIN keys |-> KeyUpdate(keys[j], c.gen)]
  BY DEF Phase1Ops
<1> HIDE DEF keys, due
<1>4. \A j \in DOMAIN keys : KeyUpdate(keys[j], c.gen) \in SafeOps(c.blocked)
  <2>1. TAKE j \in DOMAIN keys
  <2>2. keys[j] \in Keys \X Nodes /\ keys[j][2] \notin c.blocked
    BY <1>1, <1>2
  <2>3. c.gen \in Nat
    BY DEF Sound, Client
  <2>4. QED
    BY <2>2, <2>3, ClientAssumption DEF KeyUpdate, SafeOps, Op, OpKinds
<1>5. DOMAIN keys = 1 .. Len(keys) /\ Len(keys) \in Nat
  BY <1>1
<1>6. QED
  BY <1>3, <1>4, <1>5

LEMMA SafePhaseSets ==
    ASSUME NEW c, Sound(c), NEW t \in {SECOND, THIRD}
    PROVE  /\ TransitionOps(c, t) \in Seq(SafeOps(c.blocked))
           /\ t = SECOND /\ c.phase[<<NetKey, Local>>] # SECOND => TransitionOps(c, t) # <<>>
<1> DEFINE due == {i \in DOMAIN NodeOrder :
                    /\ NodeOrder[i] \in c.nodes \ c.blocked
                    /\ c.phase[<<NetKey, NodeOrder[i]>>] # t
                    /\ ~ (t = THIRD /\ c.phase[<<NetKey, NodeOrder[i]>>] = NORMAL)}
           to  == Select(NodeOrder, due)
<1>1. /\ to \in Seq(Nodes)
      /\ \A j \in DOMAIN to : \E i \in due : to[j] = NodeOrder[i]
      /\ due # {} => to # <<>>
  <2>1. due \in SUBSET DOMAIN NodeOrder
    OBVIOUS
  <2> HIDE DEF due
  <2>2. QED
    BY <2>1, SelectType, ClientAssumption
<1>2. \A i \in due : NodeOrder[i] \notin c.blocked
  OBVIOUS
<1>3. TransitionOps(c, t) = [j \in DOMAIN to |-> PhaseSet(to[j], t)]
  BY DEF TransitionOps
<1>4. t = SECOND /\ c.phase[<<NetKey, Local>>] # SECOND => due # {}
  <2>1. PICK i \in DOMAIN NodeOrder : NodeOrder[i] = Local
    BY LocalSlot, ClientAssumption
  <2>2. Local \in c.nodes \ c.blocked
    BY DEF Sound
  <2>3. t = SECOND /\ c.phase[<<NetKey, Local>>] # SECOND => i \in due
    BY <2>1, <2>2
  <2>4. QED
    BY <2>3
<1> HIDE DEF to, due
<1>5. \A j \in DOMAIN to : PhaseSet(to[j], t) \in SafeOps(c.blocked)
  <2>1. TAKE j \in DOMAIN to
  <2>2. to[j] \in Nodes /\ to[j] \notin c.blocked
    BY <1>1, <1>2
  <2>3. QED
    BY <2>2, ClientAssumption DEF PhaseSet, SafeOps, Op, OpKinds, Keys
<1>6. DOMAIN to = 1 .. Len(to) /\ Len(to) \in Nat
  BY <1>1
<1>7. TransitionOps(c, t) \in Seq(SafeOps(c.blocked))
  BY <1>3, <1>5, <1>6
<1>8. to # <<>> => TransitionOps(c, t) # <<>>
  <2>1. to # <<>> => Len(to) > 0
    BY <1>1
  <2>2. Len(TransitionOps(c, t)) = Len(to)
    BY <1>3, <1>6, <1>7
  <2>3. QED
    BY <1>6, <2>1, <2>2
<1>9. QED
  BY <1>1, <1>4, <1>7, <1>8

LEMMA SoundTransition ==
    ASSUME NEW c, Sound(c), NEW t \in {SECOND, THIRD}, c.gen > 0
    PROVE  /\ Sound(Transition(c, t)) /\ Matches(Transition(c, t))
           /\ Transition(c, t).netPhase = t /\ Transition(c, t).gen = c.gen
           /\ Transition(c, t).state = IF t = SECOND THEN "KR2" ELSE "KR3"
<1> DEFINE q == c.queue \o TransitionOps(c, t)
<1>1. c \in Client /\ c.queue \in Seq(SafeOps(c.blocked))
  BY DEF Sound
<1>2. q \in Seq(SafeOps(c.blocked))
  BY <1>1, SafePhaseSets
<1>3. q \in Seq(Op)
  <2>1. \A o \in SafeOps(c.blocked) : o \in Op
    BY DEF SafeOps
  <2> HIDE DEF q
  <2>2. QED
    BY <1>2, <2>1, SeqOver
<1>4. Transition(c, t) = [c EXCEPT !.netPhase = t, !.queue = q,
                                   !.state = IF t = SECOND THEN "KR2" ELSE "KR3"]
  BY <1>1 DEF Transition, Client
<1> HIDE DEF q
<1>5. QED
  BY <1>1, <1>2, <1>3, <1>4 DEF Sound, Matches, Client, ClientStates

-----------------------------------------------------------------------------
(* Completing a phase and taking the refresh up again. *)

LEMMA SoundState ==
    ASSUME NEW c, Sound(c), NEW s \in ClientStates
    PROVE  LET d == [c EXCEPT !.state = s]
           IN  /\ Sound(d) /\ d.state = s /\ d.netPhase = c.netPhase /\ d.gen = c.gen
               /\ d.phase = c.phase
BY DEF Sound, Client

LEMMA SoundUpdateKeys ==
    ASSUME NEW c, Sound(c)
    PROVE  /\ Sound(UpdateKeys(c)) /\ UpdateKeys(c).netPhase = FIRST
           /\ UpdateKeys(c).state = c.state /\ UpdateKeys(c).phase = c.phase
<1> DEFINE g == c.gen + 1
<1>1. c \in Client /\ g \in Nat /\ g > 0
  BY DEF Sound, Client
<1>2. UpdateKeys(c) = [c EXCEPT !.netPhase = FIRST, !.gen = g]
  BY <1>1 DEF UpdateKeys, Client
<1> HIDE DEF g
<1>3. QED
  BY <1>1, <1>2 DEF Sound, Client

LEMMA SoundContinueFirst ==
    ASSUME NEW c, Sound(c)
    PROVE  /\ Sound(ContinueFirst(c)) /\ ContinueFirst(c).phase = c.phase
           /\ c.netPhase # FIRST => ContinueFirst(c) = c
           /\ c.netPhase = FIRST => /\ ContinueFirst(c).state = "KR1"
                                    /\ ContinueFirst(c).netPhase \in {FIRST, SECOND}
<1>1. CASE c.netPhase # FIRST
  BY <1>1 DEF ContinueFirst
<1>2. CASE c.netPhase = FIRST
  <2> DEFINE ops == Phase1Ops(c)
             np  == IF Len(ops) % UINT8 = 0 THEN SECOND ELSE c.netPhase
             q   == c.queue \o ops
  <2>1. c \in Client /\ c.queue \in Seq(SafeOps(c.blocked)) /\ ops \in Seq(SafeOps(c.blocked))
    BY SafeUpdates DEF Sound
  <2>2. q \in Seq(SafeOps(c.blocked))
    BY <2>1
  <2>3. q \in Seq(Op)
    <3>1. \A o \in SafeOps(c.blocked) : o \in Op
      BY DEF SafeOps
    <3> HIDE DEF q
    <3>2. QED
      BY <2>2, <3>1, SeqOver
  <2>4. np \in {FIRST, SECOND}
    BY <1>2
  <2>5. ContinueFirst(c) = [c EXCEPT !.state = "KR1", !.queue = q, !.netPhase = np]
    BY <1>2, <2>1 DEF ContinueFirst, Client
  <2> HIDE DEF q, np
  <2>6. QED
    BY <1>2, <2>1, <2>2, <2>3, <2>4, <2>5 DEF Sound, Client, ClientStates
<1>3. QED
  BY <1>1, <1>2

LEMMA SoundContinueSecond ==
    ASSUME NEW c, Sound(c)
    PROVE  /\ Sound(ContinueSecond(c))
           /\ c.netPhase # SECOND => ContinueSecond(c) = c
           /\ c.netPhase = SECOND =>
                /\ ContinueSecond(c).state = "KR2"
                /\ ContinueSecond(c).netPhase \in {SECOND, THIRD}
                /\ c.phase[<<NetKey, Local>>] # SECOND => ContinueSecond(c).netPhase = SECOND
<1>1. CASE c.netPhase # SECOND
  BY <1>1 DEF ContinueSecond
<1>2. CASE c.netPhase = SECOND
  <2> DEFINE d  == Transition(c, SECOND)
             np == IF TransitionOps(c, SECOND) = <<>> THEN THIRD ELSE d.netPhase
  <2>1. c.gen > 0
    BY <1>2 DEF Sound
  <2>2. Sound(d) /\ d.netPhase = SECOND /\ d.state = "KR2" /\ d.gen = c.gen
    BY <2>1, SoundTransition
  <2>3. np \in {SECOND, THIRD} /\ (c.phase[<<NetKey, Local>>] # SECOND => np = SECOND)
    BY <2>2, SafePhaseSets
  <2> HIDE DEF d
  <2>4. ContinueSecond(c) = [d EXCEPT !.netPhase = np]
    BY <1>2, <2>2 DEF ContinueSecond, Sound, Client, d
  <2> HIDE DEF np
  <2>5. QED
    BY <1>2, <2>1, <2>2, <2>3, <2>4 DEF Sound, Client
<1>3. QED
  BY <1>1, <1>2

LEMMA SoundFinish ==
    ASSUME NEW c, Sound(c)
    PROVE  /\ Sound(Finish(c)) /\ Finish(c).netPhase = NORMAL /\ Finish(c).state = c.state
           /\ Finish(c).phase[<<NetKey, Local>>] = NORMAL
<1> DEFINE gone == (c.nodes \cap c.blocked) \ Suspects(c)
           ph   == [s \in Slots |-> IF s[2] \in c.blocked \ gone /\ s[1] # NetKey
                                    THEN c.phase[s] ELSE NORMAL]
           B    == c.blocked \ gone
<1>1. c \in Client /\ c.queue \in Seq(SafeOps(c.blocked)) /\ Local \in c.nodes \ c.blocked
  BY DEF Sound
<1>2. Finish(c) = [c EXCEPT !.netPhase = NORMAL, !.phase = ph, !.nodes = c.nodes \ gone,
                            !.blocked = B]
  BY <1>1 DEF Finish, Client
<1>3. ph \in [Slots -> Phases] /\ ph[<<NetKey, Local>>] = NORMAL
  BY <1>1, LocalSlot DEF Client
<1>4. gone \subseteq c.blocked /\ B \subseteq c.blocked
  OBVIOUS
<1>5. c.queue \in Seq(SafeOps(B))
  BY <1>1, <1>4, SafeOpsShrink
<1> HIDE DEF ph, gone, B
<1>6. B \in SUBSET Nodes /\ Local \notin B /\ Local \in c.nodes \ gone
      /\ c.nodes \ gone \in SUBSET Nodes
  BY <1>1, <1>4 DEF Client
<1>7. QED
  BY <1>1, <1>2, <1>3, <1>5, <1>6 DEF Sound, Client

LEMMA SoundRestart ==
    ASSUME NEW c, Sound(c), c.phase[<<NetKey, Local>>] = NORMAL
    PROVE  Sound(Restart(c)) /\ Matches(Restart(c))
<1> DEFINE a == [c EXCEPT !.state = "KR1"]
           b == UpdateKeys(a)
           d == ContinueFirst(b)
<1>1. Sound(a) /\ a.state = "KR1" /\ a.phase = c.phase
  BY SoundState DEF ClientStates
<1> HIDE DEF a
<1>2. Sound(b) /\ b.state = "KR1" /\ b.netPhase = FIRST /\ b.phase = c.phase
  BY <1>1, SoundUpdateKeys
<1> HIDE DEF b
<1>3. Sound(d) /\ d.state = "KR1" /\ d.netPhase \in {FIRST, SECOND} /\ d.phase = c.phase
  BY <1>2, SoundContinueFirst
<1> HIDE DEF d
<1>4. Sound(ContinueSecond(d)) /\ Matches(ContinueSecond(d))
  BY <1>3, SoundContinueSecond DEF Matches
<1>5. Restart(c) = ContinueSecond(d)
  BY DEF Restart, d, b, a
<1>6. QED
  BY <1>4, <1>5

\* What the completion of a phase gives back, whatever the state it was called in.
LEMMA SoundPhase3Completed ==
    ASSUME NEW c, Sound(c)
    PROVE  Sound(Phase3Completed(c)) /\ Matches(Phase3Completed(c))
<1> DEFINE idle == [c EXCEPT !.state = "IDLE"]
           fin  == Finish(idle)
<1>1. Sound(idle) /\ idle.state = "IDLE"
  BY SoundState DEF ClientStates
<1> HIDE DEF idle
<1>2. /\ Sound(fin) /\ fin.netPhase = NORMAL /\ fin.state = "IDLE"
      /\ fin.phase[<<NetKey, Local>>] = NORMAL
  BY <1>1, SoundFinish
<1> HIDE DEF fin
<1>3. Sound(Restart(fin)) /\ Matches(Restart(fin))
  BY <1>2, SoundRestart
<1>4. /\ Sound(Execute(fin)) /\ Matches(Execute(fin))
      /\ Sound(Execute(Restart(fin))) /\ Matches(Execute(Restart(fin)))
  BY <1>2, <1>3, SoundExecute DEF Matches, SameButQueue
<1>5. Matches(idle)
  BY <1>1 DEF Matches
<1>6. Phase3Completed(c) \in {idle, Execute(fin), Execute(Restart(fin))}
  BY DEF Phase3Completed, idle, fin
<1>7. QED
  BY <1>1, <1>4, <1>5, <1>6

LEMMA SoundPhase2Completed ==
    ASSUME NEW c, Sound(c), c.netPhase # NORMAL
    PROVE  Sound(Phase2Completed(c)) /\ Matches(Phase2Completed(c))
<1> DEFINE idle == [c EXCEPT !.state = "IDLE"]
           on   == Transition(c, THIRD)
<1>1. Sound(idle) /\ Matches(idle)
  BY SoundState DEF ClientStates, Matches
<1>2. Sound(on) /\ Matches(on)
  BY SoundTransition DEF Sound
<1> HIDE DEF on, idle
<1>3. Sound(Execute(on)) /\ Matches(Execute(on))
  BY <1>2, SoundExecute DEF Matches, SameButQueue
<1>4. Phase2Completed(c) \in {idle, Execute(on)}
  BY DEF Phase2Completed, idle, on
<1>5. QED
  BY <1>1, <1>3, <1>4

LEMMA SoundPhase1Completed ==
    ASSUME NEW c, Sound(c), Matches(c)
    PROVE  Sound(Phase1Completed(c)) /\ Matches(Phase1Completed(c))
<1> DEFINE idle == [c EXCEPT !.state = "IDLE"]
           on   == Transition(c, SECOND)
<1>1. Sound(idle) /\ Matches(idle)
  BY SoundState DEF ClientStates, Matches
<1>2. c.netPhase = FIRST => Sound(on) /\ Matches(on)
  BY SoundTransition DEF Sound
<1> HIDE DEF on, idle
<1>3. c.netPhase = FIRST => Sound(Execute(on)) /\ Matches(Execute(on))
  BY <1>2, SoundExecute DEF Matches, SameButQueue
<1>4. \/ Phase1Completed(c) \in {c, idle}
      \/ c.netPhase = FIRST /\ Phase1Completed(c) = Execute(on)
  BY DEF Phase1Completed, idle, on
<1>5. QED
  BY <1>1, <1>3, <1>4

LEMMA SoundContinue ==
    ASSUME NEW c, Sound(c), Matches(c)
    PROVE  Sound(Continue(c)) /\ Matches(Continue(c))
<1> DEFINE c1 == ContinueFirst(c)
           c2 == ContinueSecond(c1)
           on == Transition(c2, THIRD)
<1>1. /\ Sound(c1)
      /\ c.netPhase # FIRST => c1 = c
      /\ c.netPhase = FIRST => c1.state = "KR1" /\ c1.netPhase \in {FIRST, SECOND}
  BY SoundContinueFirst
<1> HIDE DEF c1
<1>2. Sound(c2) /\ (c2.netPhase # THIRD => Matches(c2))
  BY <1>1, SoundContinueSecond DEF Matches
<1> HIDE DEF c2
<1>3. c2.netPhase = THIRD => Sound(on) /\ Matches(on)
  BY <1>2, SoundTransition DEF Sound
<1> HIDE DEF on
<1>4. c2.netPhase = THIRD => Sound(Phase3Completed(on)) /\ Matches(Phase3Completed(on))
  BY <1>3, SoundPhase3Completed
<1>5. \/ c2.netPhase # THIRD /\ Continue(c) = c2
      \/ c2.netPhase = THIRD /\ Continue(c) \in {on, Phase3Completed(on)}
  BY DEF Continue, c1, c2, on
<1>6. QED
  BY <1>2, <1>3, <1>4, <1>5

LEMMA SoundResetNode ==
    ASSUME NEW c, Sound(c), Matches(c), NEW n \in Nodes \ {Local}
    PROVE  Sound(ResetNode(c, n)) /\ Matches(ResetNode(c, n))
<1> DEFINE a  == Clean(c, n)
           b  == [a EXCEPT !.retries = 0, !.blocked = @ \cup {n}]
           c1 == Enqueue(b, <<NodeReset(n)>>)
           k  == [c1 EXCEPT !.state = "KR1"]
           c2 == IF c1.netPhase = NORMAL THEN UpdateKeys(k) ELSE c1
<1>1. Sound(a) /\ SameButQueue(a, c) /\ a.queue \in Seq(SafeOps(c.blocked \cup {n}))
  BY SoundClean
<1> HIDE DEF a
<1>2. Sound(b) /\ b.state = c.state /\ b.netPhase = c.netPhase
  <2> DEFINE B == a.blocked \cup {n}
  <2>1. a \in Client /\ Local \in a.nodes /\ (a.netPhase # NORMAL => a.gen > 0)
    BY <1>1 DEF Sound
  <2>2. B \in SUBSET Nodes /\ Local \notin B
    BY <1>1 DEF Sound, Client
  <2>3. a.queue \in Seq(SafeOps(B))
    BY <1>1 DEF SameButQueue
  <2>4. b = [a EXCEPT !.retries = 0, !.blocked = B]
    BY <2>1 DEF Client
  <2> HIDE DEF B
  <2>5. b \in Client
    BY <2>1, <2>2, <2>4, RetriesRange DEF Client
  <2>6. /\ b.nodes = a.nodes /\ b.blocked = B /\ b.queue = a.queue
        /\ b.netPhase = a.netPhase /\ b.gen = a.gen /\ b.state = a.state
    BY <2>1, <2>4 DEF Client
  <2> HIDE DEF b
  <2>7. QED
    BY <1>1, <2>1, <2>2, <2>3, <2>5, <2>6 DEF Sound, SameButQueue
<1> HIDE DEF b
<1>3. <<NodeReset(n)>> \in Seq(SafeOps(b.blocked))
  BY ClientAssumption DEF NodeReset, SafeOps, Op, OpKinds, Keys
<1>4. Sound(c1) /\ c1.state = c.state /\ c1.netPhase = c.netPhase
  BY <1>2, <1>3, SoundEnqueue DEF SameButQueue
<1> HIDE DEF c1
<1>5. Sound(k) /\ k.state = "KR1"
  BY <1>4, SoundState DEF ClientStates
<1> HIDE DEF k
<1>6. /\ Sound(UpdateKeys(k)) /\ UpdateKeys(k).netPhase = FIRST
      /\ UpdateKeys(k).state = "KR1"
  BY <1>5, SoundUpdateKeys
<1>7. Sound(c2) /\ Matches(c2)
  BY <1>4, <1>6 DEF Matches
<1> HIDE DEF c2
<1>8. Sound(Execute(Continue(c2))) /\ Matches(Execute(Continue(c2)))
  <2>1. Sound(Continue(c2)) /\ Matches(Continue(c2))
    BY <1>7, SoundContinue
  <2>2. QED
    BY <2>1, SoundExecute DEF Matches, SameButQueue
<1>9. ResetNode(c, n) = Execute(Continue(c2))
  BY DEF ResetNode, c2, k, c1, b, a
<1>10. QED
  BY <1>8, <1>9

-----------------------------------------------------------------------------
(* The events. *)

\* kr is the phase whose handler runs; KEY_REFRESH_2 is left only for a key in use.
LEMMA SoundPhaseCompleted ==
    ASSUME NEW c, Sound(c), Matches(c), NEW kr \in KrStates,
           kr = "KR2" => c.netPhase # NORMAL
    PROVE  Sound(IfDone(c, kr)) /\ Matches(IfDone(c, kr))
<1>1. Sound(PhaseCompleted(c, kr)) /\ Matches(PhaseCompleted(c, kr))
  <2>1. CASE kr = "KR1"
    BY <2>1, SoundPhase1Completed DEF PhaseCompleted
  <2>2. CASE kr = "KR2"
    BY <2>2, SoundPhase2Completed DEF PhaseCompleted
  <2>3. CASE kr = "KR3"
    BY <2>3, SoundPhase3Completed DEF PhaseCompleted
  <2>4. QED
    BY <2>1, <2>2, <2>3 DEF KrStates
<1>2. QED
  BY <1>1 DEF IfDone

\* Dropping the head and, if it was the last, completing the phase.
LEMMA SoundNextOrDone ==
    ASSUME NEW c, Sound(c), Matches(c), c.state \in KrStates
    PROVE  /\ Sound(IfDone(StartNextOp(c), c.state))
           /\ Matches(IfDone(StartNextOp(c), c.state))
<1> DEFINE d == StartNextOp(c)
<1>1. /\ Sound(d) /\ d.netPhase = c.netPhase /\ d.state \in {c.state, "IDLE"}
  BY SoundStartNextOp
<1> HIDE DEF d
<1>2. Matches(d) /\ (c.state = "KR2" => d.netPhase # NORMAL)
  BY <1>1 DEF Matches
<1>3. Sound(IfDone(d, c.state)) /\ Matches(IfDone(d, c.state))
  BY <1>1, <1>2, SoundPhaseCompleted
<1>4. QED
  BY <1>3 DEF d

LEMMA SoundSetPhase ==
    ASSUME NEW c, Sound(c), NEW k, NEW n, NEW p \in Phases
    PROVE  /\ Sound(SetPhase(c, k, n, p)) /\ SetPhase(c, k, n, p).state = c.state
           /\ SetPhase(c, k, n, p).netPhase = c.netPhase
<1> DEFINE ph == [s \in Slots |-> IF s = <<k, n>> /\ n \in c.nodes THEN p ELSE c.phase[s]]
<1>1. c \in Client /\ ph \in [Slots -> Phases]
  BY DEF Sound, Client
<1>2. SetPhase(c, k, n, p) = [c EXCEPT !.phase = ph]
  BY <1>1 DEF SetPhase, Client
<1> HIDE DEF ph
<1>3. QED
  BY <1>1, <1>2 DEF Sound, Client

LEMMA SoundAddKey ==
    ASSUME NEW c, Sound(c), NEW k, NEW n
    PROVE  /\ Sound(AddKey(c, k, n)) /\ AddKey(c, k, n).state = c.state
           /\ AddKey(c, k, n).netPhase = c.netPhase
<1> DEFINE ph == [s \in Slots |-> IF s = <<k, n>> /\ n \in c.nodes /\ c.phase[s] = NORMAL
                                  THEN FIRST ELSE c.phase[s]]
<1>1. c \in Client /\ ph \in [Slots -> Phases]
  BY DEF Sound, Client
<1>2. AddKey(c, k, n) = [c EXCEPT !.phase = ph]
  BY <1>1 DEF AddKey, Client
<1> HIDE DEF ph
<1>3. QED
  BY <1>1, <1>2 DEF Sound, Client

LEMMA SoundKrStatus ==
    ASSUME NEW c, Sound(c), Matches(c), c.state \in KrStates, NEW st \in Status
    PROVE  Sound(KrStatus(c, st)) /\ Matches(KrStatus(c, st))
<1> DEFINE p  == CASE c.state = "KR1" -> FIRST
                   [] c.state = "KR2" -> SECOND
                   [] c.state = "KR3" -> THIRD
           c1 == IF st.ok THEN SetPhase(c, st.key, st.src, p) ELSE c
<1>1. p \in Phases
  BY DEF KrStates
<1> HIDE DEF p
<1>2. Sound(c1) /\ c1.state = c.state /\ c1.netPhase = c.netPhase
  BY <1>1, SoundSetPhase
<1> HIDE DEF c1
<1>3. Matches(c1)
  BY <1>2 DEF Matches
<1>4. /\ Sound(IfDone(StartNextOp(c1), c.state))
      /\ Matches(IfDone(StartNextOp(c1), c.state))
  BY <1>2, <1>3, SoundNextOrDone
<1>5. KrStatus(c, st) \in {c1, IfDone(StartNextOp(c1), c.state)}
  BY DEF KrStatus, c1, p
<1>6. QED
  BY <1>2, <1>3, <1>4, <1>5

LEMMA SoundKrResetStatus ==
    ASSUME NEW c, Sound(c), Matches(c), c.state \in KrStates, NEW st
    PROVE  Sound(KrResetStatus(c, st)) /\ Matches(KrResetStatus(c, st))
<1> DEFINE z == [c EXCEPT !.nullDeref = @ \/ c.state # "KR1"]
<1>1. Sound(z) /\ Matches(z)
  BY DEF Sound, Matches, Client
<1>2. KrResetStatus(c, st) \in {z, c, IfDone(StartNextOp(c), c.state)}
  BY DEF KrResetStatus
<1> HIDE DEF z
<1>3. QED
  BY <1>1, <1>2, SoundNextOrDone

LEMMA SoundKrFilterStatus ==
    ASSUME NEW c, Sound(c), Matches(c), c.state \in KrStates
    PROVE  Sound(KrFilterStatus(c)) /\ Matches(KrFilterStatus(c))
<1> DEFINE z  == [c EXCEPT !.nullDeref = TRUE]
           a  == IF HeadIs(c, "FILTER_ADD") THEN StartNextOp(c) ELSE c
           c1 == Execute(a)
<1>1. Sound(z) /\ Matches(z)
  BY DEF Sound, Matches, Client
<1>2. Sound(a) /\ a.netPhase = c.netPhase /\ a.state \in {c.state, "IDLE"}
  BY SoundStartNextOp
<1> HIDE DEF a
<1>3. Sound(c1) /\ Matches(c1)
  BY <1>2, SoundExecute DEF Matches, SameButQueue
<1> HIDE DEF c1
<1>4. Sound(IfDone(c1, "KR1")) /\ Matches(IfDone(c1, "KR1"))
  BY <1>3, SoundPhaseCompleted DEF KrStates
<1>5. KrFilterStatus(c) \in {z, c1, IfDone(c1, "KR1")}
  BY DEF KrFilterStatus, c1, a
<1>6. QED
  BY <1>1, <1>3, <1>4, <1>5

LEMMA SoundKrTxFailed ==
    ASSUME NEW c, Sound(c), Matches(c), c.state \in KrStates, NEW dst
    PROVE  Sound(KrTxFailed(c, dst)) /\ Matches(KrTxFailed(c, dst))
<1> DEFINE c1 == Clean(c, dst)
           z  == [c1 EXCEPT !.state = "IDLE"]
<1>1. Sound(c1) /\ SameButQueue(c1, c)
  BY SoundClean
<1> HIDE DEF c1
<1>2. Sound(Execute(c1)) /\ Matches(Execute(c1))
  BY <1>1, SoundExecute DEF Matches, SameButQueue
<1>3. Sound(z) /\ Matches(z)
  BY <1>1, SoundState DEF ClientStates, Matches
<1> HIDE DEF z
<1>4. Sound(Phase1Completed(z)) /\ Matches(Phase1Completed(z))
  BY <1>3, SoundPhase1Completed
<1>5. KrTxFailed(c, dst) \in {c, Execute(c1), Phase1Completed(z),
                              IfDone(StartNextOp(c), c.state)}
  BY DEF KrTxFailed, c1, z
<1>6. QED
  BY <1>2, <1>4, <1>5, SoundNextOrDone

\* While a refresh is under way an unexpected status drops the head.
LEMMA SoundUnexpected ==
    ASSUME NEW c, Sound(c), Matches(c)
    PROVE  Sound(Unexpected(c)) /\ Matches(Unexpected(c))
<1> DEFINE c1 == StartNextOp(c)
           d  == IF c1.queue = <<>> THEN Continue(c1) ELSE c1
<1>1. Sound(c1) /\ c1.netPhase = c.netPhase /\ c1.state \in {c.state, "IDLE"}
  BY SoundStartNextOp
<1> HIDE DEF c1
<1>2. Matches(c1)
  BY <1>1 DEF Matches
<1>3. Sound(d) /\ Matches(d)
  BY <1>1, <1>2, SoundContinue
<1> HIDE DEF d
<1>4. Sound(Execute(d)) /\ Matches(Execute(d))
  BY <1>3, SoundExecute DEF Matches, SameButQueue
<1>5. Unexpected(c) = Execute(d)
  BY DEF Unexpected, c1, d
<1>6. QED
  BY <1>4, <1>5

LEMMA SoundIdleKeyStatus ==
    ASSUME NEW c, Sound(c), Matches(c), NEW st
    PROVE  Sound(IdleKeyStatus(c, st)) /\ Matches(IdleKeyStatus(c, st))
<1> DEFINE c1 == IF st.ok THEN AddKey(c, st.key, st.src) ELSE c
<1>1. Sound(c1) /\ c1.state = c.state /\ c1.netPhase = c.netPhase
  BY SoundAddKey
<1> HIDE DEF c1
<1>2. Matches(c1)
  BY <1>1 DEF Matches
<1>3. Sound(StartNextOp(c1)) /\ Matches(StartNextOp(c1))
  BY <1>1, <1>2, SoundStartNextOp DEF Matches
<1>4. IdleKeyStatus(c, st) \in {StartNextOp(c1), Unexpected(c1), c1}
  BY DEF IdleKeyStatus, c1
<1>5. QED
  BY <1>1, <1>2, <1>3, <1>4, SoundUnexpected

LEMMA SoundIdlePhaseStatus ==
    ASSUME NEW c, Sound(c), Matches(c), NEW st \in Status, NEW u
    PROVE  Sound(IdlePhaseStatus(c, st, u)) /\ Matches(IdlePhaseStatus(c, st, u))
<1> DEFINE c1 == IF st.ok THEN SetPhase(c, NetKey, st.src, st.phase) ELSE c
           c2 == Unexpected(c1)
<1>1. st.phase \in Phases
  BY DEF Status
<1>2. Sound(c1) /\ c1.state = c.state /\ c1.netPhase = c.netPhase
  BY <1>1, SoundSetPhase
<1> HIDE DEF c1
<1>3. Matches(c1)
  BY <1>2 DEF Matches
<1>4. Sound(StartNextOp(c1)) /\ Matches(StartNextOp(c1))
  BY <1>2, <1>3, SoundStartNextOp DEF Matches
<1>5. Sound(c2) /\ Matches(c2)
  BY <1>2, <1>3, SoundUnexpected
<1> HIDE DEF c2
<1>6. Sound(Phase3Completed(c2)) /\ Matches(Phase3Completed(c2))
  BY <1>5, SoundPhase3Completed
<1>7. IdlePhaseStatus(c, st, u) \in {StartNextOp(c1), Phase3Completed(c2), c2, c1}
  BY DEF IdlePhaseStatus, c1, c2
<1>8. QED
  BY <1>2, <1>3, <1>4, <1>5, <1>6, <1>7

LEMMA SoundConnectFilterStatus ==
    ASSUME NEW c, Sound(c), NEW p
    PROVE  Sound(ConnectFilterStatus(c, p)) /\ Matches(ConnectFilterStatus(c, p))
<1> DEFINE q  == IF HeadIs(c, "FILTER_ADD") THEN Tail(c.queue) ELSE c.queue
           c1 == [c EXCEPT !.state = "IDLE", !.queue = q]
           c2 == IF p \in c1.nodes \cap c1.blocked THEN Enqueue(c1, <<NodeReset(p)>>) ELSE c1
           d  == IF c2.netPhase # NORMAL THEN Continue(c2) ELSE c2
<1>1. c \in Client /\ c.queue \in Seq(SafeOps(c.blocked)) /\ c.queue \in Seq(Op)
  BY DEF Sound, Client
<1>2. q \in Seq(SafeOps(c.blocked)) /\ q \in Seq(Op)
  <2>1. HeadIs(c, "FILTER_ADD") => c.queue # <<>>
    BY DEF HeadIs
  <2>2. c.queue # <<>> => Tail(c.queue) \in Seq(SafeOps(c.blocked))
    BY <1>1, TailOver
  <2>3. c.queue # <<>> => Tail(c.queue) \in Seq(Op)
    BY <1>1, TailOver
  <2>4. QED
    BY <1>1, <2>1, <2>2, <2>3
<1>3. ConnectFilterStatus(c, p) = Execute(d)
  BY <1>1 DEF ConnectFilterStatus, Client
<1> HIDE DEF q
<1>4. Sound(c1) /\ c1.state = "IDLE"
  BY <1>1, <1>2 DEF Sound, Client, ClientStates
<1> HIDE DEF c1
<1>5. p \in c1.nodes \cap c1.blocked => <<NodeReset(p)>> \in Seq(SafeOps(c1.blocked))
  <2>1. p \in c1.nodes \cap c1.blocked => p \in Nodes
    BY <1>4 DEF Sound, Client
  <2>2. QED
    BY <2>1, ClientAssumption DEF NodeReset, SafeOps, Op, OpKinds, Keys
<1>6. Sound(c2) /\ c2.state = "IDLE"
  BY <1>4, <1>5, SoundEnqueue DEF SameButQueue
<1> HIDE DEF c2
<1>7. Matches(c2)
  BY <1>6 DEF Matches
<1>8. Sound(d) /\ Matches(d)
  BY <1>6, <1>7, SoundContinue
<1> HIDE DEF d
<1>9. QED
  BY <1>3, <1>8, SoundExecute DEF Matches, SameButQueue

LEMMA SoundOnStatus ==
    ASSUME NEW c, Sound(c), Matches(c), NEW st \in Status, NEW u
    PROVE  Sound(OnStatus(c, st, u)) /\ Matches(OnStatus(c, st, u))
<1>1. c.state \in KrStates =>
         /\ Sound(KrFilterStatus(c)) /\ Matches(KrFilterStatus(c))
         /\ Sound(KrResetStatus(c, st)) /\ Matches(KrResetStatus(c, st))
         /\ Sound(KrStatus(c, st)) /\ Matches(KrStatus(c, st))
  BY SoundKrFilterStatus, SoundKrResetStatus, SoundKrStatus
<1>2. /\ Sound(IdleKeyStatus(c, st)) /\ Matches(IdleKeyStatus(c, st))
      /\ Sound(IdlePhaseStatus(c, st, u)) /\ Matches(IdlePhaseStatus(c, st, u))
      /\ Sound(ConnectFilterStatus(c, st.src)) /\ Matches(ConnectFilterStatus(c, st.src))
  BY SoundIdleKeyStatus, SoundIdlePhaseStatus, SoundConnectFilterStatus
<1>3. \/ c.state \in KrStates
         /\ OnStatus(c, st, u) \in {KrFilterStatus(c), KrResetStatus(c, st), KrStatus(c, st)}
      \/ OnStatus(c, st, u) \in {IdleKeyStatus(c, st), IdlePhaseStatus(c, st, u),
                                 ConnectFilterStatus(c, st.src), c}
  BY DEF OnStatus, KrStates
<1>4. QED
  BY <1>1, <1>2, <1>3

LEMMA SoundOnTxFailed ==
    ASSUME NEW c, Sound(c), Matches(c), NEW dst
    PROVE  Sound(OnTxFailed(c, dst)) /\ Matches(OnTxFailed(c, dst))
BY SoundKrTxFailed DEF OnTxFailed

LEMMA SoundOnLinkUp ==
    ASSUME NEW c, Sound(c), Matches(c)
    PROVE  Sound(OnLinkUp(c)) /\ Matches(OnLinkUp(c))
BY SoundAddFilter DEF OnLinkUp, Matches, SameButQueue

LEMMA SoundOnLinkDown ==
    ASSUME NEW c, Sound(c), Matches(c)
    PROVE  Sound(OnLinkDown(c)) /\ Matches(OnLinkDown(c))
<1> DEFINE idle == [c EXCEPT !.state = "IDLE"]
           r    == (c.retries + 1) % UINT8
           s    == IF Reconnects(c) THEN c.state ELSE "IDLE"
           d    == [c EXCEPT !.retries = r, !.state = s]
<1>1. c \in Client
  BY DEF Sound
<1>2. r \in 0 .. UINT8 - 1 /\ s \in {c.state, "IDLE"}
  BY <1>1, RetriesRange DEF Client
<1>3. OnLinkDown(c) \in {d, idle}
  BY <1>1 DEF OnLinkDown, Client
<1>4. Sound(idle) /\ Matches(idle)
  BY SoundState DEF ClientStates, Matches
<1> HIDE DEF idle, r, s
<1>5. Sound(d) /\ Matches(d)
  BY <1>1, <1>2 DEF Sound, Matches, Client, ClientStates
<1>6. QED
  BY <1>3, <1>4, <1>5

LEMMA SoundReopened ==
    ASSUME NEW c, Sound(c)
    PROVE  Sound(Reopened(c)) /\ Matches(Reopened(c))
<1>1. <<>> \in Seq(SafeOps(c.blocked)) /\ <<>> \in Seq(Op)
  OBVIOUS
<1>2. QED
  BY <1>1, RetriesRange DEF Sound, Matches, Reopened, Client, ClientStates

-----------------------------------------------------------------------------
(* The environment: the nodes and what is on its way. *)

LEMMA OutstandingSubset ==
    ASSUME NEW c, NEW ops
    PROVE  Outstanding(c, ops) \subseteq ops
BY DEF Outstanding

LEMMA FreshDeviceType ==
    ASSUME NEW g \in Nat
    PROVE  FreshDevice(g) \in Device
BY DEF FreshDevice, Device

LEMMA AfterType ==
    ASSUME NEW d \in Device, NEW o \in Op
    PROVE  After(d, o) \in Device
<1>1. o.val \in Nat /\ (o.key # NetKey => o.key \in AppKeys)
  BY DEF Op, Keys
<1>2. /\ [d EXCEPT !.phase = FIRST, !.old = d.cur, !.cur = o.val] \in Device
      /\ [d EXCEPT !.phase = IF o.val = SECOND THEN SECOND ELSE NORMAL] \in Device
      /\ [d EXCEPT !.member = FALSE] \in Device
  BY <1>1 DEF Device
<1>3. o.key # NetKey => [d EXCEPT !.app[o.key] = o.val] \in Device
  <2>1. d.app \in [AppKeys -> Nat]
    BY DEF Device
  <2>2. o.key # NetKey => [d.app EXCEPT ![o.key] = o.val] \in [AppKeys -> Nat]
    BY <1>1, <2>1
  <2>3. QED
    BY <2>2 DEF Device
<1>4. \/ After(d, o) \in {d, [d EXCEPT !.phase = FIRST, !.old = d.cur, !.cur = o.val],
                          [d EXCEPT !.phase = IF o.val = SECOND THEN SECOND ELSE NORMAL],
                          [d EXCEPT !.member = FALSE]}
      \/ o.key # NetKey /\ After(d, o) = [d EXCEPT !.app[o.key] = o.val]
  BY DEF After
<1>5. QED
  BY <1>2, <1>3, <1>4

LEMMA LocalDeviceType ==
    ASSUME NEW c, Sound(c)
    PROVE  LocalDevice(c) \in Device
<1> DEFINE old == c.gen - 1
           f   == FreshDevice(c.gen)
<1>1. c.gen \in Nat /\ c.netPhase \in Phases /\ (c.netPhase # NORMAL => old \in Nat)
  BY DEF Sound, Client
<1>2. f \in Device
  BY <1>1, FreshDeviceType
<1> HIDE DEF old, f
<1>3. old \in Nat => /\ [f EXCEPT !.phase = FIRST, !.old = old] \in Device
                     /\ [f EXCEPT !.phase = SECOND, !.old = old,
                                  !.app = [k \in AppKeys |-> old]] \in Device
                     /\ [f EXCEPT !.app = [k \in AppKeys |-> old]] \in Device
  BY <1>2 DEF Device
<1>4. \/ LocalDevice(c) = f
      \/ /\ c.netPhase # NORMAL
         /\ LocalDevice(c) \in {[f EXCEPT !.phase = FIRST, !.old = old],
                                [f EXCEPT !.phase = SECOND, !.old = old,
                                          !.app = [k \in AppKeys |-> old]],
                                [f EXCEPT !.app = [k \in AppKeys |-> old]]}
  BY <1>1 DEF LocalDevice, old, f
<1>5. QED
  BY <1>1, <1>2, <1>3, <1>4

-----------------------------------------------------------------------------
(* The inductive invariant: the types, and the client sound and matching.  *)

Environment ==
    /\ dev \in [Nodes -> Device]
    /\ inflight \subseteq Op
    /\ replies \in [Nodes -> Seq(Status)]
    /\ link \in {"down", "connecting", "up"}
    /\ proxy \in Nodes
    /\ used \in [DOMAIN Bounds -> Nat]

IInv == Sound(cl) /\ Matches(cl) /\ Environment

\* A network just created satisfies the invariant.
LEMMA InitInvariant == Init => IInv
<1> SUFFICES ASSUME Init PROVE IInv
  OBVIOUS
<1>1. Sound(cl) /\ Matches(cl)
  BY SoundInit DEF Init
<1>2. dev \in [Nodes -> Device] /\ replies \in [Nodes -> Seq(Status)]
  BY FreshDeviceType DEF Init
<1>3. inflight \subseteq Op /\ link \in {"down", "connecting", "up"} /\ proxy \in Nodes
      /\ used \in [DOMAIN Bounds -> Nat]
  BY LocalSlot DEF Init
<1>4. QED
  BY <1>1, <1>2, <1>3 DEF IInv, Environment

\* Counting the use of a bound.
LEMMA CountType ==
    ASSUME used \in [DOMAIN Bounds -> Nat], NEW b \in DOMAIN Bounds, Count(b)
    PROVE  used' \in [DOMAIN Bounds -> Nat]
BY DEF Count

LEMMA OpTimerStep ==
    ASSUME IInv, OpTimer
    PROVE  IInv'
<1>1. Sound(cl') /\ Matches(cl')
  BY DEF IInv, OpTimer, Sound, Matches, Client
<1>2. cl.queue # <<>> => Head(cl.queue) \in Op
  BY DEF IInv, Sound, Client
<1>3. inflight' \subseteq Op
  BY <1>2 DEF IInv, Environment, OpTimer
<1>4. QED
  BY <1>1, <1>3 DEF IInv, Environment, OpTimer

LEMMA DeliverStatusStep ==
    ASSUME IInv, NEW n \in Nodes, DeliverStatus(n)
    PROVE  IInv'
<1> DEFINE st == Head(replies[n])
<1>1. replies[n] \in Seq(Status) /\ replies[n] # <<>>
  BY DEF IInv, Environment, DeliverStatus
<1>2. st \in Status
  BY <1>1
<1>3. PICK u \in BOOLEAN : cl' = OnStatus(cl, st, u)
  BY DEF DeliverStatus
<1>4. inflight' \subseteq inflight
  BY OutstandingSubset DEF DeliverStatus
<1> HIDE DEF st
<1>5. Sound(cl') /\ Matches(cl')
  BY <1>2, <1>3, SoundOnStatus DEF IInv
<1>6. Tail(replies[n]) \in Seq(Status)
  BY <1>1
<1>7. replies' \in [Nodes -> Seq(Status)]
  BY <1>6 DEF IInv, Environment, DeliverStatus, Arrives
<1>8. used' \in [DOMAIN Bounds -> Nat]
  <2>1. used' = used \/ Count("dups")
    BY DEF DeliverStatus
  <2>2. "dups" \in DOMAIN Bounds
    BY DEF Bounds
  <2>3. QED
    BY <2>1, <2>2, CountType DEF IInv, Environment
<1>9. QED
  BY <1>4, <1>5, <1>7, <1>8 DEF IInv, Environment, DeliverStatus

LEMMA TxFailedStep ==
    ASSUME IInv, NEW o \in inflight, TxFailed(o)
    PROVE  IInv'
<1>1. Sound(cl') /\ Matches(cl')
  BY SoundOnTxFailed DEF IInv, TxFailed
<1>2. inflight' \subseteq inflight
  BY OutstandingSubset DEF TxFailed
<1>3. QED
  BY <1>1, <1>2 DEF IInv, Environment, TxFailed, GivesUp

LEMMA LinkUpStep ==
    ASSUME IInv, NEW p \in Proxies, LinkUp(p)
    PROVE  IInv'
<1>1. Sound(cl') /\ Matches(cl')
  BY SoundOnLinkUp DEF IInv, LinkUp
<1>2. QED
  BY <1>1, MeshAssumption DEF IInv, Environment, LinkUp

\* What every loss of the connection keeps.
LEMMA LinkDownStep ==
    ASSUME IInv, LinkDown
    PROVE  /\ Sound(cl') /\ Matches(cl') /\ inflight' \subseteq Op
           /\ link' \in {"down", "connecting", "up"} /\ proxy' \in Nodes
           /\ dev' \in [Nodes -> Device]
<1>1. Sound(cl') /\ Matches(cl')
  BY SoundOnLinkDown DEF IInv, LinkDown
<1>2. inflight' \subseteq inflight
  BY OutstandingSubset DEF LinkDown
<1>3. QED
  BY <1>1, <1>2, LocalSlot DEF IInv, Environment, LinkDown

LEMMA ConnectFailedStep ==
    ASSUME IInv, ConnectFailed
    PROVE  IInv'
<1>1. LinkDown /\ replies' = replies /\ used' = used
  BY DEF ConnectFailed
<1>2. QED
  BY <1>1, LinkDownStep DEF IInv, Environment

LEMMA LocalRepliesType ==
    ASSUME replies \in [Nodes -> Seq(Status)]
    PROVE  LocalRepliesOnly \in [Nodes -> Seq(Status)]
BY DEF LocalRepliesOnly

LEMMA LinkLostStep ==
    ASSUME IInv, LinkLost
    PROVE  IInv'
<1>1. replies' \in [Nodes -> Seq(Status)]
  BY LocalRepliesType DEF IInv, Environment, LinkLost
<1>2. used' \in [DOMAIN Bounds -> Nat]
  <2>1. used' = used \/ Count("drops")
    BY DEF LinkLost
  <2>2. "drops" \in DOMAIN Bounds
    BY DEF Bounds
  <2>3. QED
    BY <2>1, <2>2, CountType DEF IInv, Environment
<1>3. LinkDown
  BY DEF LinkLost
<1>4. QED
  BY <1>1, <1>2, <1>3, LinkDownStep DEF IInv, Environment

\* The node an operation goes to answers it, and is a device afterwards.
LEMMA NodeHandlesStep ==
    ASSUME IInv, NEW o \in inflight, NodeHandles(o)
    PROVE  IInv'
<1> DEFINE n == IF o.kind = "FILTER_ADD" THEN proxy ELSE o.dst
<1>1. o \in Op /\ dev \in [Nodes -> Device] /\ proxy \in Nodes
      /\ replies \in [Nodes -> Seq(Status)]
  BY DEF IInv, Environment
<1>2. n \in Nodes
  BY <1>1 DEF Op
<1> HIDE DEF n
<1>3. dev[n] \in Device /\ After(dev[n], o) \in Device
  BY <1>1, <1>2, AfterType
<1>4. dev' \in [Nodes -> Device]
  <2>1. dev' = dev \/ (n = o.dst /\ dev' = [dev EXCEPT ![o.dst] = After(@, o)])
    BY DEF NodeHandles, n
  <2>2. QED
    BY <1>1, <1>2, <1>3, <2>1
<1>5. Answer(o) \in Status
  <2>1. Accepts(dev[n], o) \in BOOLEAN
    BY DEF Accepts
  <2>2. After(dev[n], o).phase \in Phases
    BY <1>3 DEF Device
  <2>3. o.kind \in OpKinds /\ o.key \in Keys
    BY <1>1 DEF Op
  <2>4. Answer(o) = [kind |-> o.kind, src |-> n, key |-> o.key, ok |-> Accepts(dev[n], o),
                     phase |-> IF o.kind = "KR_PHASE_SET"
                               THEN After(dev[n], o).phase ELSE NORMAL]
    BY DEF Answer, n
  <2>5. QED
    BY <1>2, <2>1, <2>2, <2>3, <2>4 DEF Status
<1>6. Append(replies[Answer(o).src], Answer(o)) \in Seq(Status)
  <2>1. Answer(o).src \in Nodes
    BY <1>5 DEF Status
  <2>2. QED
    BY <1>1, <1>5, <2>1
<1>7. replies' \in [Nodes -> Seq(Status)]
  BY <1>1, <1>6 DEF NodeHandles
<1>8. QED
  BY <1>4, <1>7 DEF IInv, Environment, NodeHandles

LEMMA LoseStatusStep ==
    ASSUME IInv, NEW n \in Nodes, LoseStatus(n)
    PROVE  IInv'
<1>1. Tail(replies[n]) \in Seq(Status)
  BY TailOver DEF IInv, Environment, LoseStatus
<1>2. replies' \in [Nodes -> Seq(Status)]
  BY <1>1 DEF IInv, Environment, LoseStatus
<1>3. QED
  BY <1>2 DEF IInv, Environment, LoseStatus

LEMMA ConnectNetworkStep ==
    ASSUME IInv, ConnectNetwork
    PROVE  IInv'
<1>1. Sound(cl') /\ Matches(cl')
  BY SoundState DEF IInv, ConnectNetwork, ClientStates, Matches
<1>2. "connects" \in DOMAIN Bounds
  BY DEF Bounds
<1>3. used' \in [DOMAIN Bounds -> Nat]
  BY <1>2, CountType DEF IInv, Environment, ConnectNetwork
<1>4. QED
  BY <1>1, <1>3 DEF IInv, Environment, ConnectNetwork

LEMMA DisconnectNetworkStep ==
    ASSUME IInv, DisconnectNetwork
    PROVE  IInv'
<1>1. Sound(cl') /\ Matches(cl')
  BY SoundState DEF IInv, DisconnectNetwork, ClientStates, Matches
<1>2. "disconnects" \in DOMAIN Bounds
  BY DEF Bounds
<1>3. used' \in [DOMAIN Bounds -> Nat]
  BY <1>2, CountType DEF IInv, Environment, DisconnectNetwork
<1>4. replies' \in [Nodes -> Seq(Status)]
  BY LocalRepliesType DEF IInv, Environment, DisconnectNetwork
<1>5. QED
  BY <1>1, <1>3, <1>4, LocalSlot DEF IInv, Environment, DisconnectNetwork

LEMMA ResetDeviceStep ==
    ASSUME IInv, NEW n \in Removable, ResetDevice(n)
    PROVE  IInv'
<1>1. n \in Nodes \ {Local}
  BY MeshAssumption
<1>2. Sound(cl') /\ Matches(cl')
  BY <1>1, SoundResetNode DEF IInv, ResetDevice
<1>3. inflight' \subseteq inflight
  BY OutstandingSubset DEF ResetDevice
<1>4. QED
  BY <1>2, <1>3 DEF IInv, Environment, ResetDevice

\* A new session over a sound database.
LEMMA RestartedStep ==
    ASSUME IInv, NEW c, Sound(c), Restarted(c), used' \in [DOMAIN Bounds -> Nat]
    PROVE  IInv'
<1>1. Sound(cl') /\ Matches(cl')
  BY SoundReopened DEF Restarted
<1>2. LocalDevice(c) \in Device
  BY LocalDeviceType
<1>3. dev' \in [Nodes -> Device]
  BY <1>2 DEF IInv, Environment, Restarted
<1>4. replies' \in [Nodes -> Seq(Status)]
  BY DEF Restarted
<1>5. QED
  BY <1>1, <1>3, <1>4, LocalSlot DEF IInv, Environment, Restarted

LEMMA ReopenStep ==
    ASSUME IInv, Reopen
    PROVE  IInv'
<1>1. "reopens" \in DOMAIN Bounds
  BY DEF Bounds
<1>2. used' \in [DOMAIN Bounds -> Nat]
  BY <1>1, CountType DEF IInv, Environment, Reopen
<1>3. QED
  BY <1>2, RestartedStep DEF IInv, Reopen

\* The queue of the session that ends may hold operations for the node just
\* blocked; the new session starts without it.
LEMMA CrashStep ==
    ASSUME IInv, NEW n \in Removable, CrashInResetNode(n)
    PROVE  IInv'
<1> DEFINE B == cl.blocked \cup {n}
           c == [cl EXCEPT !.blocked = B]
           d == [c EXCEPT !.queue = <<>>]
<1>1. cl \in Client /\ B \in SUBSET Nodes /\ Local \notin B /\ Local \in cl.nodes
      /\ (cl.netPhase # NORMAL => cl.gen > 0)
  BY MeshAssumption DEF IInv, Sound, Client
<1>2. Restarted(c)
  BY DEF CrashInResetNode
<1>3. <<>> \in Seq(SafeOps(B)) /\ <<>> \in Seq(Op)
  OBVIOUS
<1> HIDE DEF B
<1>4. d \in Client /\ d.blocked = B /\ d.queue = <<>> /\ d.nodes = cl.nodes
      /\ d.netPhase = cl.netPhase /\ d.gen = cl.gen
  BY <1>1, <1>3 DEF Client
<1>5. Reopened(d) = Reopened(c)
  BY <1>1 DEF Reopened, Client
<1>6. c.gen = d.gen /\ c.netPhase = d.netPhase
  BY <1>1 DEF Client
<1> HIDE DEF c, d
<1>7. Sound(d)
  BY <1>1, <1>3, <1>4 DEF Sound
<1>8. LocalDevice(d) = LocalDevice(c)
  BY <1>6 DEF LocalDevice
<1>9. Restarted(d)
  BY <1>2, <1>5, <1>8 DEF Restarted
<1>10. "crashes" \in DOMAIN Bounds
  BY DEF Bounds
<1>11. used' \in [DOMAIN Bounds -> Nat]
  BY <1>10, CountType DEF IInv, Environment, CrashInResetNode
<1>12. QED
  BY <1>7, <1>9, <1>11, RestartedStep

-----------------------------------------------------------------------------
(* The theorems. *)

\* The invariant is inductive: it holds of a network just created, and every
\* event, user command, loss, crash and restart preserves it.
THEOREM Invariance == Spec => []IInv
<1>1. Init => IInv
  BY InitInvariant
<1>2. IInv /\ [Next]_vars => IInv'
  <2> SUFFICES ASSUME IInv, [Next]_vars PROVE IInv'
    OBVIOUS
  <2>1. CASE OpTimer
    BY <2>1, OpTimerStep
  <2>2. CASE \E n \in Nodes : DeliverStatus(n) \/ LoseStatus(n)
    BY <2>2, DeliverStatusStep, LoseStatusStep
  <2>3. CASE \E o \in inflight : NodeHandles(o) \/ TxFailed(o)
    BY <2>3, NodeHandlesStep, TxFailedStep
  <2>4. CASE \E p \in Proxies : LinkUp(p)
    BY <2>4, LinkUpStep
  <2>5. CASE ConnectFailed
    BY <2>5, ConnectFailedStep
  <2>6. CASE LinkLost
    BY <2>6, LinkLostStep
  <2>7. CASE ConnectNetwork
    BY <2>7, ConnectNetworkStep
  <2>8. CASE DisconnectNetwork
    BY <2>8, DisconnectNetworkStep
  <2>9. CASE \E n \in Removable : ResetDevice(n) \/ CrashInResetNode(n)
    BY <2>9, ResetDeviceStep, CrashStep
  <2>10. CASE Reopen
    BY <2>10, ReopenStep
  <2>11. CASE UNCHANGED vars
    BY <2>11 DEF vars, IInv, Environment, Sound, Matches
  <2>12. QED
    BY <2>1, <2>2, <2>3, <2>4, <2>5, <2>6, <2>7, <2>8, <2>9, <2>10, <2>11 DEF Next
<1>3. QED
  BY <1>1, <1>2, PTL DEF Spec

\* The variables keep their types: in particular the retry count stays in its
\* byte and every pending operation has a node or the proxy filter to go to.
THEOREM TypeCorrect == Spec => []TypeOK
<1>1. IInv => TypeOK
  BY DEF IInv, Environment, Sound, TypeOK
<1>2. QED
  BY <1>1, Invariance, PTL

\* The handlers of a phase run only while the network key is in that phase.
THEOREM StateAndPhaseAgree == Spec => []StateMatchesPhase
<1>1. IInv => StateMatchesPhase
  BY DEF IInv, Matches, StateMatchesPhase
<1>2. QED
  BY <1>1, Invariance, PTL

\* No key update and no phase change is ever pending for a blocked node.
THEOREM NothingForBlocked == Spec => []NoKeyToBlocked
<1>1. IInv => NoKeyToBlocked
  <2> SUFFICES ASSUME IInv, NEW i \in DOMAIN cl.queue,
                      cl.queue[i].kind \in {"KEY_UPDATE", "KR_PHASE_SET"}
               PROVE  cl.queue[i].dst \notin cl.blocked
    BY DEF NoKeyToBlocked
  <2>1. cl.queue[i] \in SafeOps(cl.blocked)
    BY DEF IInv, Sound
  <2>2. QED
    BY <2>1 DEF SafeOps
<1>2. QED
  BY <1>1, Invariance, PTL
=============================================================================
