---------------------------- MODULE GroupsProofs ----------------------------
(***************************************************************************)
(* What module Groups keeps for every network of models, any number of      *)
(* groups and commands, and however often a message is lost or rejected.    *)
(***************************************************************************)
EXTENDS Groups, NaturalsInduction, WellFoundedInduction, FiniteSetTheorems,
    SequenceTheorems, TLAPS

-----------------------------------------------------------------------------
\* Every set of natural numbers with an element has a least one.
LEMMA LeastElement ==
    ASSUME NEW S, S \subseteq Nat, S # {}
    PROVE  \E m \in S : \A i \in S : m <= i
<1> DEFINE R == {ss \in Nat \X Nat : ss[1] < ss[2]}
<1>1. IsWellFoundedOn(R, Nat)
  BY NatLessThanWellFounded DEF OpToRel
<1>2. PICK m \in S : \A i \in S : ~ (<<i, m>> \in R)
  BY <1>1, WFMin
<1>3. \A i \in S : i \in Nat /\ m \in Nat /\ ~ (i < m)
  BY <1>2
<1>4. QED
  BY <1>3

-----------------------------------------------------------------------------
(***************************************************************************)
(* Types.  A subscription that is added is one to the address of a group.   *)
(***************************************************************************)
SentOps == {o \in Ops : o.kind = "ADD" => o.addr \in Address}

Answered ==
    {r \in [kind : OpKinds, model : Models, addr : 0..AllNodes, ok : BOOLEAN, again : BOOLEAN] :
        r.kind = "ADD" => r.addr \in Address}

Group == [name : GroupNames, addr : Address, parent : {None} \cup Address]

Client ==
    [state : {"IDLE", "RECONFIGURATION"}, queue : Seq(SentOps), timer : BOOLEAN,
     groups : SUBSET Group, sub : [Models -> SUBSET Address], pub : [Models -> 0..AllNodes]]

Config == [sub : [Models -> SUBSET Address], pub : [Models -> 0..AllNodes]]

\* Only models of the tables are subscribed.
OnlyNeeded(queue) == \A o \in Range(queue) : o.kind = "ADD" => NeedsSub(o.model)

\* The client is idle exactly when there is nothing to send, no two groups have one
\* address, and no group is its own parent.
Good(c) ==
    /\ c \in Client /\ IsFiniteSet(c.groups)
    /\ c.state = "IDLE" <=> c.queue = <<>>
    /\ OnlyNeeded(c.queue) /\ \A m \in Models : ~ NeedsSub(m) => c.sub[m] = {}
    /\ \A g, h \in c.groups : g.addr = h.addr => g = h
    /\ \A g \in c.groups : g.parent # g.addr

-----------------------------------------------------------------------------
(***************************************************************************)
(* Sequences.                                                              *)
(***************************************************************************)
LEMMA RangeOfNone == Range(<<>>) = {} /\ \A T : <<>> \in Seq(T)
<1>1. <<>> \in Seq({}) /\ Len(<<>>) = 0
  BY EmptySeq
<1>2. Range(<<>>) = {<<>>[i] : i \in 1 .. Len(<<>>)}
  BY <1>1, RangeEquality
<1>3. 1 .. 0 = {}
  OBVIOUS
<1>4. QED
  BY <1>1, <1>2, <1>3, EmptySeq

LEMMA RangeOfOne ==
    ASSUME NEW T, NEW o \in T
    PROVE  <<o>> \in Seq(T) /\ Range(<<o>>) = {o}
<1>1. <<o>> \in Seq(T)
  OBVIOUS
<1>2. Range(<<o>>) = {<<o>>[i] : i \in 1 .. Len(<<o>>)}
  BY <1>1, RangeEquality
<1>3. QED
  BY <1>1, <1>2

LEMMA WhenIs ==
    ASSUME NEW T, NEW o, NEW b \in BOOLEAN, b => o \in T
    PROVE  When(b, o) \in Seq(T) /\ \A x : x \in Range(When(b, o)) <=> b /\ x = o
<1>1. CASE b
  BY <1>1, RangeOfOne DEF When
<1>2. CASE ~ b
  BY <1>2, RangeOfNone DEF When
<1>3. QED
  BY <1>1, <1>2

\* A value that is computed step by step exists.
Steps(g, n, base, step) == g[0] = base /\ \A i \in 1 .. n : g[i] = step[i][g[i - 1]]

LEMMA Recursion ==
    ASSUME NEW T, NEW n \in Nat, NEW base \in T, NEW step, step \in [1 .. n -> [T -> T]]
    PROVE  \E g \in [0 .. n -> T] : Steps(g, n, base, step)
<1> DEFINE Up(k) == \E g \in [0 .. k -> T] :
               g[0] = base /\ \A i \in 1 .. k : g[i] = step[i][g[i - 1]]
           B == {k \in 0 .. n : ~ Up(k)}
<1>1. B = {}
  <2> SUFFICES ASSUME B # {} PROVE FALSE
    OBVIOUS
  <2>1. B \subseteq Nat
    OBVIOUS
  <2> HIDE DEF B
  <2>2. PICK k \in B : \A j \in B : k <= j
    BY <2>1, LeastElement
  <2> USE DEF B
  <2>3. k # 0
    <3> DEFINE g == [i \in 0 .. 0 |-> base]
    <3>1. g \in [0 .. 0 -> T] /\ g[0] = base /\ \A i \in 1 .. 0 : g[i] = step[i][g[i - 1]]
      OBVIOUS
    <3>2. Up(0)
      <4> HIDE DEF g
      <4>1. QED
        BY <3>1
    <3> HIDE DEF Up
    <3>3. QED
      BY <2>2, <3>2
  <2> HIDE DEF Up
  <2>4. k \in 0 .. n /\ k - 1 \in 0 .. n /\ k - 1 \notin B
    <3>1. k \in 0 .. n
      BY <2>2
    <3> HIDE DEF B
    <3>2. QED
      BY <2>2, <2>3, <3>1
  <2> USE DEF Up
  <2>5. PICK f \in [0 .. (k - 1) -> T] :
            f[0] = base /\ \A i \in 1 .. (k - 1) : f[i] = step[i][f[i - 1]]
    BY <2>4
  <2> DEFINE g == [i \in 0 .. k |-> IF i = k THEN step[k][f[k - 1]] ELSE f[i]]
  <2>6. g \in [0 .. k -> T]
    <3>1. k \in 1 .. n /\ k - 1 \in 0 .. (k - 1)
      BY <2>3, <2>4
    <3>2. f[k - 1] \in T
      BY <2>5, <3>1
    <3>3. step[k][f[k - 1]] \in T
      BY <3>1, <3>2
    <3>4. \A i \in 0 .. k : i # k => f[i] \in T
      BY <2>4, <2>5
    <3>5. QED
      BY <3>3, <3>4
  <2>7. g[0] = base /\ \A i \in 1 .. k : g[i] = step[i][g[i - 1]]
    <3>1. g[0] = base
      BY <2>3, <2>4, <2>5
    <3>2. ASSUME NEW i \in 1 .. k PROVE g[i] = step[i][g[i - 1]]
      <4>1. i - 1 \in 0 .. k /\ i - 1 # k /\ i \in 0 .. k
        BY <2>4
      <4>2. g[i - 1] = f[i - 1]
        BY <4>1
      <4>3. CASE i = k
        BY <4>1, <4>2, <4>3
      <4>4. CASE i # k
        <5>1. i \in 1 .. (k - 1)
          BY <2>4, <4>4
        <5>2. g[i] = f[i]
          BY <4>1, <4>4
        <5>3. QED
          BY <2>5, <4>2, <5>1, <5>2
      <4>5. QED
        BY <4>3, <4>4
    <3>3. QED
      BY <3>1, <3>2
  <2>8. Up(k)
    <3> HIDE DEF g
    <3>1. QED
      BY <2>6, <2>7
  <2>9. QED
    <3> HIDE DEF Up
    <3>1. QED
      BY <2>2, <2>8
<1>2. n \in 0 .. n
  OBVIOUS
<1>3. Up(n)
  <2> HIDE DEF Up
  <2>1. QED
    BY <1>1, <1>2
<1>4. QED
  BY <1>3 DEF Steps

\* ForEach is a sequence of what F has, and of nothing else.
LEMMA ForEachIs ==
    ASSUME NEW S, NEW T, NEW s \in Seq(S), NEW F, \A x \in Range(s) : F[x] \in Seq(T)
    PROVE  /\ ForEach(s, F) \in Seq(T)
           /\ \A o : o \in Range(ForEach(s, F)) <=> \E x \in Range(s) : o \in Range(F[x])
<1> DEFINE n == Len(s)
           is(f) == f = [i \in 0 .. n |-> IF i = 0 THEN <<>> ELSE f[i - 1] \o F[s[i]]]
           step == [i \in 1 .. n |-> [t \in Seq(T) |-> t \o F[s[i]]]]
<1>1. n \in Nat /\ Range(s) = {s[i] : i \in 1 .. n}
  BY LenProperties, RangeEquality
<1>2. \A i \in 1 .. n : F[s[i]] \in Seq(T)
  BY <1>1
<1>3. step \in [1 .. n -> [Seq(T) -> Seq(T)]]
  BY <1>2, ConcatProperties
<1>4. <<>> \in Seq(T)
  BY EmptySeq
<1>5. PICK g \in [0 .. n -> Seq(T)] :
          g[0] = <<>> /\ \A i \in 1 .. n : g[i] = step[i][g[i - 1]]
  <2> DEFINE Q == Seq(T)
             none == <<>>
  <2>1. none \in Q /\ step \in [1 .. n -> [Q -> Q]]
    BY <1>3, <1>4
  <2> HIDE DEF n, step, Q, none
  <2>2. \E g \in [0 .. n -> Q] : Steps(g, n, none, step)
    BY <1>1, <2>1, Recursion
  <2>3. QED
    BY <2>2 DEF Q, none, Steps
<1>6. is(g)
  <2>1. \A i \in 0 .. n : g[i] = IF i = 0 THEN <<>> ELSE g[i - 1] \o F[s[i]]
    <3>1. ASSUME NEW i \in 0 .. n, i # 0 PROVE g[i] = g[i - 1] \o F[s[i]]
      <4>1. i \in 1 .. n /\ i - 1 \in 0 .. n
        BY <1>1, <3>1
      <4>2. g[i - 1] \in Seq(T) /\ g[i] = step[i][g[i - 1]]
        BY <1>5, <4>1
      <4>3. QED
        BY <4>1, <4>2
    <3>2. QED
      BY <1>5, <3>1
  <2>2. g = [i \in 0 .. n |-> g[i]]
    BY <1>5
  <2>3. QED
    BY <2>1, <2>2
<1> DEFINE upTo == CHOOSE f : is(f)
<1>7. is(upTo)
  BY <1>6
<1>8. ForEach(s, F) = upTo[n]
  BY DEF ForEach
<1> HIDE DEF upTo
<1>9. upTo[0] = <<>> /\ \A i \in 1 .. n : upTo[i] = upTo[i - 1] \o F[s[i]]
  <2> HIDE DEF n
  <2>1. 0 \in 0 .. n /\ \A i \in 1 .. n : i \in 0 .. n /\ i # 0
    BY <1>1
  <2>2. QED
    BY <1>7, <2>1
<1> HIDE DEF step, is, n
<1> DEFINE good(i) == /\ upTo[i] \in Seq(T)
                      /\ \A o : o \in Range(upTo[i])
                                    <=> \E j \in 1 .. i : o \in Range(F[s[j]])
           C == {i \in 0 .. n : ~ good(i)}
<1>10. C = {}
  <2> SUFFICES ASSUME C # {} PROVE FALSE
    OBVIOUS
  <2>1. C \subseteq Nat
    BY <1>1
  <2> HIDE DEF C
  <2>2. PICK i \in C : \A k \in C : i <= k
    BY <2>1, LeastElement
  <2> USE DEF C
  <2>3. i \in 0 .. n /\ ~ good(i)
    <3> HIDE DEF good
    <3>1. QED
      BY <2>2
  <2>4. CASE i = 0
    <3>1. upTo[i] = <<>> /\ Range(<<>>) = {} /\ 1 .. i = {}
      BY <1>9, <2>4, RangeOfNone
    <3>2. good(i)
      BY <1>4, <3>1
    <3>3. QED
      BY <2>3, <3>2
  <2>5. CASE i # 0
    <3>1. i - 1 \in 0 .. n /\ i \in 1 .. n /\ ~ i <= i - 1
      BY <1>1, <2>3, <2>5
    <3>2. good(i - 1)
      <4> HIDE DEF good
      <4>1. QED
        <5>1. i - 1 \in C => i <= i - 1
          <6> HIDE DEF C
          <6>1. QED
            BY <2>2
        <5>2. QED
          BY <3>1, <5>1
    <3>3. upTo[i] = upTo[i - 1] \o F[s[i]]
      BY <1>9, <3>1
    <3>4. upTo[i - 1] \in Seq(T) /\ F[s[i]] \in Seq(T)
      BY <1>2, <3>1, <3>2
    <3>5. upTo[i] \in Seq(T)
      BY <3>3, <3>4, ConcatProperties
    <3>6. Range(upTo[i]) = Range(upTo[i - 1]) \cup Range(F[s[i]])
      BY <3>3, <3>4, RangeConcatenation
    <3>7. 1 .. i = (1 .. (i - 1)) \cup {i}
      BY <1>1, <3>1
    <3>8. good(i)
      BY <3>2, <3>5, <3>6, <3>7
    <3>9. QED
      BY <2>3, <3>8
  <2>6. QED
    BY <2>4, <2>5
<1>11. good(n)
  <2>1. n \in 0 .. n
    BY <1>1
  <2> HIDE DEF good
  <2>2. QED
    BY <1>10, <2>1
<1>12. ASSUME NEW o
       PROVE  (\E j \in 1 .. n : o \in Range(F[s[j]])) <=> \E x \in Range(s) : o \in Range(F[x])
  BY <1>1
<1>13. QED
  BY <1>8, <1>11, <1>12

LEMMA ForNodeIs ==
    ASSUME NEW T, NEW n, NEW F, \A m \in Models : F[m] \in Seq(T)
    PROVE  /\ ForNode(n, F) \in Seq(T)
           /\ \A o : o \in Range(ForNode(n, F))
                         <=> \E m \in Models : NodeOf[m] = n /\ o \in Range(F[m])
<1> DEFINE G == [m \in Models |-> IF NodeOf[m] = n THEN F[m] ELSE <<>>]
<1>1. ModelSeq \in Seq(Models) /\ Range(ModelSeq) = Models
  BY GroupsAssumption DEF Models
<1>2. <<>> \in Seq(T) /\ Range(<<>>) = {}
  BY RangeOfNone
<1>3. \A m \in Models : G[m] \in Seq(T)
  BY <1>2
<1>4. \A o, m : m \in Models => (o \in Range(G[m]) <=> NodeOf[m] = n /\ o \in Range(F[m]))
  BY <1>2
<1>5. ForNode(n, F) = ForEach(ModelSeq, G)
  BY DEF ForNode
<1> HIDE DEF G
<1>6. QED
  BY <1>1, <1>3, <1>4, <1>5, ForEachIs

LEMMA Ranges ==
    /\ MaxAddress \in Nat /\ Address \subseteq Nat \ {0}
    /\ Address \subseteq 0..AllNodes /\ None \in 0..AllNodes /\ AllNodes \in 0..AllNodes
    /\ None \notin Address /\ AllNodes \notin Address /\ AllNodes # None
    /\ 0..AllNodes \subseteq 0..Publication
    /\ Publication \in 0..Publication /\ Publication \notin 0..AllNodes
    /\ ModelSeq \in Seq(Models) /\ Range(ModelSeq) = Models
<1>1. MaxAddress \in Nat /\ ModelSeq \in Seq(Models)
  BY GroupsAssumption
<1>2. Range(ModelSeq) = Models
  BY DEF Models
<1>3. QED
  BY <1>1, <1>2 DEF Address, AllNodes, Publication, None

LEMMA HeadAndTail ==
    ASSUME NEW T, NEW q \in Seq(T), q # <<>>
    PROVE  /\ Head(q) \in T /\ Head(q) \in Range(q) /\ Tail(q) \in Seq(T)
           /\ Range(q) = {Head(q)} \cup Range(Tail(q))
<1>1. /\ Head(q) \in T /\ Tail(q) \in Seq(T) /\ Len(Tail(q)) = Len(q) - 1
      /\ \A i \in 1 .. Len(Tail(q)) : Tail(q)[i] = q[i + 1]
  BY HeadTailProperties
<1>2. Len(q) \in Nat \ {0}
  BY EmptySeq
<1>3. /\ Range(q) = {q[i] : i \in 1 .. Len(q)}
      /\ Range(Tail(q)) = {Tail(q)[i] : i \in 1 .. Len(Tail(q))}
  BY <1>1, RangeEquality
<1>4. Head(q) = q[1]
  OBVIOUS
<1>5. ASSUME NEW x \in Range(q) PROVE x \in {Head(q)} \cup Range(Tail(q))
  <2>1. PICK i \in 1 .. Len(q) : x = q[i]
    BY <1>3
  <2>2. CASE i = 1
    BY <1>4, <2>1, <2>2
  <2>3. CASE i # 1
    <3>1. i - 1 \in 1 .. Len(Tail(q)) /\ (i - 1) + 1 = i
      BY <1>1, <1>2, <2>3
    <3>2. Tail(q)[i - 1] = q[i]
      BY <1>1, <3>1
    <3>3. QED
      BY <1>3, <2>1, <3>1, <3>2
  <2>4. QED
    BY <2>2, <2>3
<1>6. ASSUME NEW x \in Range(Tail(q)) PROVE x \in Range(q)
  <2>1. PICK i \in 1 .. Len(Tail(q)) : x = Tail(q)[i]
    BY <1>3
  <2>2. i + 1 \in 1 .. Len(q) /\ x = q[i + 1]
    BY <1>1, <1>2, <2>1
  <2>3. QED
    BY <1>3, <2>2
<1>7. Head(q) \in Range(q)
  BY <1>2, <1>3, <1>4
<1>8. QED
  BY <1>1, <1>5, <1>6, <1>7

LEMMA FirstOf ==
    ASSUME NEW T, NEW q \in Seq(T), q # <<>>
    PROVE  q[1] \in T /\ q[1] \in Range(q) /\ Head(q) = q[1]
BY HeadAndTail

-----------------------------------------------------------------------------
(***************************************************************************)
(* The client after each of its functions.                                 *)
(***************************************************************************)
LEMMA NextOpGood ==
    ASSUME NEW c, Good(c), c.queue # <<>>
    PROVE  LET d == StartNextOp(c)
           IN  /\ Good(d) /\ d.queue = Tail(c.queue) /\ d.groups = c.groups
               /\ d.sub = c.sub /\ d.pub = c.pub
               /\ d.queue # <<>> => d.timer
<1> DEFINE d == StartNextOp(c)
           rest == Tail(c.queue)
<1>1. c \in Client /\ rest \in Seq(SentOps) /\ Range(rest) \subseteq Range(c.queue)
  BY HeadAndTail DEF Good, Client
<1>2. d = [c EXCEPT !.queue = rest, !.timer = c.timer \/ rest # <<>>,
                    !.state = IF rest = <<>> THEN "IDLE" ELSE c.state]
  BY DEF StartNextOp
<1>3. /\ d \in Client /\ d.queue = rest /\ d.groups = c.groups
      /\ d.sub = c.sub /\ d.pub = c.pub
      /\ d.timer = (c.timer \/ rest # <<>>)
      /\ d.state = IF rest = <<>> THEN "IDLE" ELSE c.state
  <2> HIDE DEF rest
  <2>1. QED
    BY <1>1, <1>2 DEF Client
<1> HIDE DEF d, rest
<1>4. d.state = "IDLE" <=> d.queue = <<>>
  BY <1>3 DEF Good
<1>5. OnlyNeeded(d.queue)
  BY <1>1, <1>3 DEF Good, OnlyNeeded
<1>6. Good(d)
  BY <1>3, <1>4, <1>5 DEF Good
<1>7. QED
  BY <1>3, <1>6 DEF d, rest

LEMMA SubGood ==
    ASSUME NEW c, Good(c), NEW m \in Models, NEW A \in SUBSET Address,
           NeedsSub(m) \/ A \subseteq c.sub[m]
    PROVE  LET d == [c EXCEPT !.sub[m] = A]
           IN  /\ Good(d) /\ d.queue = c.queue /\ d.groups = c.groups /\ d.timer = c.timer
               /\ d.pub = c.pub /\ d.sub = [c.sub EXCEPT ![m] = A]
<1> DEFINE d == [c EXCEPT !.sub[m] = A]
<1>1. c \in Client /\ c.sub \in [Models -> SUBSET Address]
  BY DEF Good, Client
<1>2. /\ d \in Client /\ d.queue = c.queue /\ d.groups = c.groups /\ d.timer = c.timer
      /\ d.pub = c.pub /\ d.sub = [c.sub EXCEPT ![m] = A] /\ d.state = c.state
  BY <1>1 DEF Client
<1> HIDE DEF d
<1>3. \A x \in Models : ~ NeedsSub(x) => d.sub[x] = {}
  BY <1>1, <1>2 DEF Good
<1>4. Good(d)
  BY <1>2, <1>3 DEF Good
<1>5. QED
  BY <1>2, <1>4 DEF d

LEMMA PubGood ==
    ASSUME NEW c, Good(c), NEW m \in Models, NEW a \in 0..AllNodes
    PROVE  LET d == [c EXCEPT !.pub[m] = a]
           IN  /\ Good(d) /\ d.queue = c.queue /\ d.groups = c.groups /\ d.timer = c.timer
               /\ d.sub = c.sub /\ d.pub = [c.pub EXCEPT ![m] = a]
<1> DEFINE d == [c EXCEPT !.pub[m] = a]
<1>1. c \in Client /\ c.pub \in [Models -> 0..AllNodes]
  BY DEF Good, Client
<1>2. /\ d \in Client /\ d.queue = c.queue /\ d.groups = c.groups /\ d.timer = c.timer
      /\ d.sub = c.sub /\ d.pub = [c.pub EXCEPT ![m] = a] /\ d.state = c.state
  BY <1>1 DEF Client
<1> HIDE DEF d
<1>3. Good(d)
  BY <1>2 DEF Good
<1>4. QED
  BY <1>2, <1>3 DEF d

\* The head of the queue was answered as the node did it.
Advance(c) == StartNextOp(Configured(c, Head(c.queue)))

Applied(c, d, op) ==
    /\ d.sub = IF op.kind = "ADD" THEN [c.sub EXCEPT ![op.model] = @ \cup {op.addr}]
               ELSE IF op.kind = "DELETE" THEN [c.sub EXCEPT ![op.model] = @ \ {op.addr}]
               ELSE c.sub
    /\ d.pub = IF op.kind = "PUB" THEN [c.pub EXCEPT ![op.model] = op.addr] ELSE c.pub

LEMMA AdvanceIs ==
    ASSUME NEW c, Good(c), c.queue # <<>>
    PROVE  LET d == Advance(c)
           IN  /\ Good(d) /\ d.queue = Tail(c.queue) /\ d.groups = c.groups
               /\ Applied(c, d, Head(c.queue))
               /\ d.queue # <<>> => d.timer
<1> DEFINE op == Head(c.queue)
           e == Configured(c, op)
<1>1. /\ op \in SentOps /\ op \in Range(c.queue) /\ c.sub \in [Models -> SUBSET Address]
      /\ c.pub \in [Models -> 0..AllNodes]
  BY HeadAndTail DEF Good, Client
<1>2. /\ op.kind \in OpKinds /\ op.model \in Models /\ op.addr \in 0..AllNodes
      /\ op.kind = "ADD" => op.addr \in Address
  BY <1>1 DEF SentOps, Ops
<1>3. op.kind = "ADD" => NeedsSub(op.model)
  BY <1>1 DEF Good, OnlyNeeded
<1> HIDE DEF op
<1>4. Good(e) /\ e.queue = c.queue /\ e.groups = c.groups /\ Applied(c, e, op)
  <2>1. CASE op.kind = "ADD"
    <3> DEFINE A == c.sub[op.model] \cup {op.addr}
    <3>1. A \in SUBSET Address /\ NeedsSub(op.model)
      BY <1>1, <1>2, <1>3, <2>1
    <3>2. e = [c EXCEPT !.sub[op.model] = A]
      BY <2>1 DEF Configured
    <3>3. [c.sub EXCEPT ![op.model] = A] = [c.sub EXCEPT ![op.model] = @ \cup {op.addr}]
      OBVIOUS
    <3> HIDE DEF A, e
    <3>4. /\ Good(e) /\ e.queue = c.queue /\ e.groups = c.groups
          /\ e.pub = c.pub /\ e.sub = [c.sub EXCEPT ![op.model] = A]
      BY <1>2, <3>1, <3>2, SubGood
    <3>5. QED
      BY <2>1, <3>3, <3>4 DEF Applied
  <2>2. CASE op.kind = "DELETE"
    <3> DEFINE A == c.sub[op.model] \ {op.addr}
    <3>1. /\ A \in SUBSET Address
          /\ NeedsSub(op.model) \/ A \subseteq c.sub[op.model]
      BY <1>1, <1>2
    <3>2. e = [c EXCEPT !.sub[op.model] = A]
      BY <2>2 DEF Configured
    <3>3. [c.sub EXCEPT ![op.model] = A] = [c.sub EXCEPT ![op.model] = @ \ {op.addr}]
      OBVIOUS
    <3> HIDE DEF A, e
    <3>4. /\ Good(e) /\ e.queue = c.queue /\ e.groups = c.groups
          /\ e.pub = c.pub /\ e.sub = [c.sub EXCEPT ![op.model] = A]
      BY <1>2, <3>1, <3>2, SubGood, ZenonT(20)
    <3>5. QED
      BY <2>2, <3>3, <3>4 DEF Applied
  <2>3. CASE op.kind = "PUB"
    <3>1. e = [c EXCEPT !.pub[op.model] = op.addr]
      BY <2>3 DEF Configured
    <3> HIDE DEF e
    <3>2. QED
      BY <1>2, <2>3, <3>1, PubGood DEF Applied
  <2>4. QED
    BY <1>2, <2>1, <2>2, <2>3 DEF OpKinds
<1>5. Advance(c) = StartNextOp(e)
  BY DEF Advance, op
<1> HIDE DEF e
<1>6. QED
  BY <1>4, <1>5, NextOpGood DEF Applied, op

LEMMA SubStatusIs ==
    ASSUME NEW c, Good(c), NEW r \in Answered, r.kind # "PUB"
    PROVE  IF c.queue # <<>> /\ Answers(r, Head(c.queue))
           THEN SubStatus(c, r) = Advance(c) /\ Head(c.queue).kind # "PUB"
           ELSE SubStatus(c, r) = c
<1>1. CASE ~ (c.queue # <<>> /\ Answers(r, Head(c.queue)))
  BY <1>1 DEF SubStatus
<1>2. CASE c.queue # <<>> /\ Answers(r, Head(c.queue))
  <2> DEFINE op == Head(c.queue)
  <2>1. op \in SentOps /\ c \in Client
    BY <1>2, HeadAndTail DEF Good, Client
  <2>2. op.model = r.model /\ op.addr = r.addr /\ op.kind \in {"ADD", "DELETE"}
    BY <1>2, <2>1 DEF Answers, SentOps, Ops, OpKinds
  <2>3. Configured(c, op) = [c EXCEPT !.sub[r.model] =
            IF op.kind = "ADD" THEN @ \cup {r.addr} ELSE @ \ {r.addr}]
    <3> HIDE DEF op
    <3>1. CASE op.kind = "ADD"
      BY <2>2, <3>1 DEF Configured
    <3>2. CASE op.kind = "DELETE"
      BY <2>2, <3>2 DEF Configured
    <3>3. QED
      BY <2>2, <3>1, <3>2
  <2>4. SubStatus(c, r) = StartNextOp([c EXCEPT !.sub[r.model] =
            IF op.kind = "ADD" THEN @ \cup {r.addr} ELSE @ \ {r.addr}])
    BY <1>2 DEF SubStatus
  <2>5. SubStatus(c, r) = Advance(c)
    BY <2>3, <2>4 DEF Advance
  <2>6. QED
    BY <1>2, <2>2, <2>5
<1>3. QED
  BY <1>1, <1>2

\* r is the answer to the operation op.
OfOp(x, op) == x.kind = op.kind /\ x.model = op.model /\ x.addr = op.addr

LEMMA PubStatusIs ==
    ASSUME NEW c, Good(c), NEW r \in Answered, r.kind = "PUB",
           c.queue # <<>>, OfOp(r, Head(c.queue))
    PROVE  PubStatus(c, r) = IF r.ok THEN Advance(c) ELSE StartNextOp(c)
<1> DEFINE op == Head(c.queue)
<1>1. PubMatches(c, r)
  BY DEF PubMatches, OfOp
<1>2. op.kind = "PUB" /\ op.model = r.model /\ op.addr = r.addr
  BY DEF OfOp
<1>3. Configured(c, op) = [c EXCEPT !.pub[r.model] = r.addr]
  <2> HIDE DEF op
  <2>1. QED
    BY <1>2 DEF Configured
<1>4. QED
  BY <1>1, <1>3 DEF PubStatus, Advance

LEMMA StatusGood ==
    ASSUME NEW c, Good(c), NEW r \in Answered
    PROVE  LET d == IF r.kind = "PUB" THEN PubStatus(c, r) ELSE SubStatus(c, r)
           IN  Good(d) /\ d.groups = c.groups
<1>1. CASE r.kind = "PUB"
  <2>1. CASE ~ PubMatches(c, r)
    BY <1>1, <2>1 DEF PubStatus
  <2>2. CASE PubMatches(c, r) /\ r.ok
    <3> DEFINE e == [c EXCEPT !.pub[r.model] = r.addr]
    <3>1. r.model \in Models /\ r.addr \in 0..AllNodes
      BY DEF Answered
    <3>2. Good(e) /\ e.queue # <<>> /\ e.groups = c.groups
      BY <2>2, <3>1, PubGood DEF PubMatches
    <3>3. PubStatus(c, r) = StartNextOp(e)
      BY <2>2 DEF PubStatus
    <3> HIDE DEF e
    <3>4. QED
      BY <1>1, <3>2, <3>3, NextOpGood
  <2>3. CASE PubMatches(c, r) /\ ~ r.ok
    <3>1. PubStatus(c, r) = StartNextOp(c) /\ c.queue # <<>>
      BY <2>3 DEF PubStatus, PubMatches
    <3>2. QED
      BY <1>1, <3>1, NextOpGood
  <2>4. QED
    BY <2>1, <2>2, <2>3
<1>2. CASE r.kind # "PUB"
  <2>1. SubStatus(c, r) = c \/ (SubStatus(c, r) = Advance(c) /\ c.queue # <<>>)
    BY <1>2, SubStatusIs
  <2>2. QED
    BY <1>2, <2>1, AdvanceIs
<1>3. QED
  BY <1>1, <1>2

LEMMA UnreachableGood ==
    ASSUME NEW c, Good(c), c.state = "RECONFIGURATION", NEW n
    PROVE  LET d == Unreachable(c, n)
           IN  Good(d) /\ d.groups = c.groups /\ d.sub = c.sub /\ d.pub = c.pub
<1> DEFINE F == [o \in Range(c.queue) |-> When(NodeOf[o.model] # n, o)]
           q == ForEach(c.queue, F)
           e == Cleaned(c, n)
<1>1. c \in Client /\ c.queue \in Seq(SentOps)
  BY DEF Good, Client
<1>2. \A o \in Range(c.queue) : o \in SentOps
  BY <1>1, RangeOfSeq
<1>3. ASSUME NEW o \in Range(c.queue)
      PROVE  F[o] \in Seq(SentOps) /\ \A x \in Range(F[o]) : x = o
  <2> DEFINE b == NodeOf[o.model] # n
  <2>1. F[o] = When(b, o)
    OBVIOUS
  <2>2. b \in BOOLEAN /\ o \in SentOps
    BY <1>2
  <2> HIDE DEF b, F
  <2>3. QED
    BY <2>1, <2>2, WhenIs
<1>4. e = [c EXCEPT !.queue = q]
  BY DEF Cleaned
<1>5. q \in Seq(SentOps) /\ \A x \in Range(q) : x \in Range(c.queue)
  <2> HIDE DEF F
  <2>1. /\ q \in Seq(SentOps)
        /\ \A x : x \in Range(q) <=> \E o \in Range(c.queue) : x \in Range(F[o])
    BY <1>1, <1>3, ForEachIs
  <2> HIDE DEF q
  <2>2. ASSUME NEW x \in Range(q) PROVE x \in Range(c.queue)
    <3>1. PICK o \in Range(c.queue) : x \in Range(F[o])
      BY <2>1
    <3>2. x = o
      BY <1>3, <3>1
    <3>3. QED
      BY <3>2
  <2>3. QED
    BY <2>1, <2>2
<1>6. OnlyNeeded(q)
  <2> HIDE DEF q
  <2>1. QED
    BY <1>5 DEF Good, OnlyNeeded
<1> HIDE DEF q
<1>7. /\ e \in Client /\ e.queue = q /\ e.groups = c.groups /\ e.sub = c.sub /\ e.pub = c.pub
      /\ e.state = "RECONFIGURATION"
  BY <1>1, <1>4, <1>5 DEF Client
<1> HIDE DEF e
<1> DEFINE d == Unreachable(c, n)
<1>8. d = IF e.queue # <<>> THEN [e EXCEPT !.timer = TRUE] ELSE [e EXCEPT !.state = "IDLE"]
  BY DEF Unreachable, e
<1> HIDE DEF d
<1>9. /\ d \in Client /\ d.queue = q /\ d.groups = c.groups /\ d.sub = c.sub /\ d.pub = c.pub
      /\ d.state = IF q # <<>> THEN "RECONFIGURATION" ELSE "IDLE"
  BY <1>7, <1>8 DEF Client
<1>10. d.state = "IDLE" <=> d.queue = <<>>
  BY <1>9
<1>11. Good(d)
  BY <1>6, <1>9, <1>10 DEF Good
<1>12. QED
  BY <1>9, <1>11 DEF d

LEMMA ReconfigureGood ==
    ASSUME NEW c, Good(c), NEW ops \in Seq(SentOps), OnlyNeeded(ops), c.state = "IDLE"
    PROVE  LET d == Reconfigure(c, ops)
           IN  /\ Good(d) /\ d.queue = ops /\ d.groups = c.groups
               /\ d.sub = c.sub /\ d.pub = c.pub
<1> DEFINE d == Reconfigure(c, ops)
<1>1. c \in Client /\ c.queue = <<>>
  BY DEF Good
<1>2. CASE ops = <<>>
  BY <1>1, <1>2 DEF Reconfigure
<1>3. CASE ops # <<>>
  <2>1. d = [c EXCEPT !.queue = ops, !.state = "RECONFIGURATION", !.timer = TRUE]
    BY <1>3 DEF Reconfigure
  <2>2. /\ d \in Client /\ d.queue = ops /\ d.groups = c.groups /\ d.sub = c.sub /\ d.pub = c.pub
        /\ d.state = "RECONFIGURATION"
    BY <1>1, <2>1 DEF Client
  <2> HIDE DEF d
  <2>3. Good(d)
    BY <1>3, <2>2 DEF Good
  <2>4. QED
    BY <2>2, <2>3 DEF d
<1>4. QED
  BY <1>2, <1>3

-----------------------------------------------------------------------------
(***************************************************************************)
(* What each command queues.                                               *)
(***************************************************************************)
LEMMA OpIs ==
    ASSUME NEW kind \in OpKinds, NEW m \in Models, NEW a \in 0..AllNodes,
           kind = "ADD" => a \in Address
    PROVE  /\ Op(kind, m, a) \in SentOps
           /\ Op(kind, m, a).kind = kind /\ Op(kind, m, a).model = m /\ Op(kind, m, a).addr = a
BY DEF Op, SentOps, Ops

SubMessage(c, m, list, o) ==
    NeedsSub(m) /\ \E a \in Range(list) : a \notin c.sub[m] /\ o = Op("ADD", m, a)

LEMMA SubscribeIs ==
    ASSUME NEW c, NEW m \in Models, NEW list \in Seq(Address)
    PROVE  /\ Subscribe(c, m, list) \in Seq(SentOps)
           /\ \A o : o \in Range(Subscribe(c, m, list)) <=> SubMessage(c, m, list, o)
<1>1. CASE ~ NeedsSub(m)
  BY <1>1, RangeOfNone DEF Subscribe, SubMessage
<1>2. CASE NeedsSub(m)
  <2> DEFINE F == [a \in Address |-> When(~ Subscribed(c, m, a), Op("ADD", m, a))]
  <2>1. \A a \in Range(list) : a \in Address
    BY RangeOfSeq
  <2>2. ASSUME NEW a \in Address
        PROVE  /\ F[a] \in Seq(SentOps)
               /\ \A o : o \in Range(F[a]) <=> a \notin c.sub[m] /\ o = Op("ADD", m, a)
    <3> DEFINE b == ~ Subscribed(c, m, a)
               op == Op("ADD", m, a)
    <3>1. F[a] = When(b, op) /\ b \in BOOLEAN /\ (b <=> a \notin c.sub[m])
      BY DEF Subscribed
    <3>2. op \in SentOps
      BY OpIs, Ranges DEF OpKinds
    <3> HIDE DEF F, b, op
    <3>3. When(b, op) \in Seq(SentOps) /\ \A x : x \in Range(When(b, op)) <=> b /\ x = op
      BY <3>1, <3>2, WhenIs
    <3>4. QED
      BY <3>1, <3>3 DEF op
  <2>3. Subscribe(c, m, list) = ForEach(list, F)
    BY <1>2 DEF Subscribe
  <2> HIDE DEF F
  <2>4. \A a \in Range(list) : F[a] \in Seq(SentOps)
    BY <2>1, <2>2
  <2>5. /\ ForEach(list, F) \in Seq(SentOps)
        /\ \A o : o \in Range(ForEach(list, F)) <=> \E a \in Range(list) : o \in Range(F[a])
    BY <2>4, ForEachIs
  <2>6. ASSUME NEW o
        PROVE  (\E a \in Range(list) : o \in Range(F[a]))
                   <=> \E a \in Range(list) : a \notin c.sub[m] /\ o = Op("ADD", m, a)
    BY <2>1, <2>2
  <2>7. QED
    BY <1>2, <2>3, <2>5, <2>6 DEF SubMessage
<1>3. QED
  BY <1>1, <1>2

\* The messages of a model are those of two lists.
LEMMA TwoLists ==
    ASSUME NEW p \in Seq(SentOps), NEW b \in BOOLEAN, NEW op, b => op \in SentOps
    PROVE  /\ p \o When(b, op) \in Seq(SentOps)
           /\ \A o : o \in Range(p \o When(b, op)) <=> o \in Range(p) \/ (b /\ o = op)
<1>1. /\ When(b, op) \in Seq(SentOps)
      /\ \A x : x \in Range(When(b, op)) <=> b /\ x = op
  BY WhenIs
<1>2. p \o When(b, op) \in Seq(SentOps)
  BY <1>1, ConcatProperties
<1>3. Range(p \o When(b, op)) = Range(p) \cup Range(When(b, op))
  BY <1>1, RangeConcatenation
<1>4. QED
  BY <1>1, <1>2, <1>3

\* The messages of one model.
Republished(c, m, a) == c.pub[m] # None /\ (c.pub[m] = AllNodes \/ c.pub[m] # a)

AddMessage(c, m, a, list, o) ==
    \/ SubMessage(c, m, list, o)
    \/ Republished(c, m, a) /\ o = Op("PUB", m, a)

RemoveMessage(c, m, g, o) ==
    \/ g.addr \in c.sub[m] /\ o = Op("DELETE", m, g.addr)
    \/ c.pub[m] = g.addr /\ o = Op("PUB", m, PubAfter(m, g))

LEMMA AddOpsIs ==
    ASSUME NEW c, NEW n, NEW a \in 0..AllNodes, NEW list \in Seq(Address)
    PROVE  /\ AddOps(c, n, a, list) \in Seq(SentOps)
           /\ \A o : o \in Range(AddOps(c, n, a, list)) <=>
                  \E m \in Models : NodeOf[m] = n /\ AddMessage(c, m, a, list, o)
<1> DEFINE b(m) == Republished(c, m, a)
           op(m) == Op("PUB", m, a)
           F == [m \in Models |-> Subscribe(c, m, list) \o When(b(m), op(m))]
<1>1. ASSUME NEW m \in Models
      PROVE  /\ F[m] \in Seq(SentOps)
             /\ \A o : o \in Range(F[m]) <=> AddMessage(c, m, a, list, o)
  <2> DEFINE p == Subscribe(c, m, list)
             bm == b(m)
             om == op(m)
  <2>1. p \in Seq(SentOps)
    BY SubscribeIs
  <2>2. bm \in BOOLEAN /\ om \in SentOps
    BY OpIs DEF OpKinds, Republished
  <2>3. F[m] = p \o When(bm, om)
    OBVIOUS
  <2>4. \A o : o \in Range(p) <=> SubMessage(c, m, list, o)
    BY SubscribeIs
  <2>5. \A o : AddMessage(c, m, a, list, o) <=> SubMessage(c, m, list, o) \/ (bm /\ o = om)
    BY DEF AddMessage
  <2> HIDE DEF F, p, bm, om, b, op
  <2>6. F[m] \in Seq(SentOps) /\ \A o : o \in Range(F[m]) <=> o \in Range(p) \/ (bm /\ o = om)
    BY <2>1, <2>2, <2>3, TwoLists
  <2>7. QED
    BY <2>4, <2>5, <2>6
<1>2. AddOps(c, n, a, list) = ForNode(n, F)
  BY DEF AddOps, Republish, Republished
<1> HIDE DEF F
<1>3. /\ ForNode(n, F) \in Seq(SentOps)
      /\ \A o : o \in Range(ForNode(n, F))
                    <=> \E m \in Models : NodeOf[m] = n /\ o \in Range(F[m])
  BY <1>1, ForNodeIs
<1>4. QED
  BY <1>1, <1>2, <1>3

LEMMA RemoveOpsIs ==
    ASSUME NEW c, NEW n, NEW g \in Group
    PROVE  /\ RemoveOps(c, n, g) \in Seq(SentOps)
           /\ \A o : o \in Range(RemoveOps(c, n, g)) <=>
                  \E m \in Models : NodeOf[m] = n /\ RemoveMessage(c, m, g, o)
<1> DEFINE b1(m) == Subscribed(c, m, g.addr)
           b2(m) == c.pub[m] = g.addr
           op1(m) == Op("DELETE", m, g.addr)
           op2(m) == Op("PUB", m, PubAfter(m, g))
           F == [m \in Models |-> When(b1(m), op1(m)) \o When(b2(m), op2(m))]
<1>1. ASSUME NEW m \in Models
      PROVE  /\ F[m] \in Seq(SentOps)
             /\ \A o : o \in Range(F[m]) <=> RemoveMessage(c, m, g, o)
  <2> DEFINE B1 == b1(m)
             B2 == b2(m)
             O1 == op1(m)
             O2 == op2(m)
             p == When(B1, O1)
  <2>1. g.addr \in Address /\ g.parent \in {None} \cup Address
    BY DEF Group
  <2>2. PubAfter(m, g) \in 0..AllNodes
    BY <2>1, Ranges DEF PubAfter
  <2>3. O1 \in SentOps /\ O2 \in SentOps
    BY <2>1, <2>2, OpIs, Ranges DEF OpKinds
  <2>4. B1 \in BOOLEAN /\ B2 \in BOOLEAN /\ (B1 <=> g.addr \in c.sub[m])
       /\ (B2 <=> c.pub[m] = g.addr)
    BY DEF Subscribed
  <2>5. F[m] = p \o When(B2, O2)
    OBVIOUS
  <2> HIDE DEF F, B1, B2, O1, O2
  <2>6. p \in Seq(SentOps) /\ \A o : o \in Range(p) <=> B1 /\ o = O1
    BY <2>3, <2>4, WhenIs
  <2> HIDE DEF p
  <2>7. F[m] \in Seq(SentOps) /\ \A o : o \in Range(F[m]) <=> o \in Range(p) \/ (B2 /\ o = O2)
    BY <2>3, <2>4, <2>5, <2>6, TwoLists
  <2>8. QED
    BY <2>4, <2>6, <2>7 DEF O1, O2, RemoveMessage
<1>2. RemoveOps(c, n, g) = ForNode(n, F)
  BY DEF RemoveOps
<1> HIDE DEF F
<1>3. /\ ForNode(n, F) \in Seq(SentOps)
      /\ \A o : o \in Range(ForNode(n, F))
                    <=> \E m \in Models : NodeOf[m] = n /\ o \in Range(F[m])
  BY <1>1, ForNodeIs
<1>4. QED
  BY <1>1, <1>2, <1>3

MoveFirst(c, m, from, to, o) ==
    \/ SubMessage(c, m, <<to>>, o)
    \/ c.pub[m] \in {AllNodes, from} /\ o = Op("PUB", m, to)

MoveLast(c, m, from, o) == InGroup(c, m, from) /\ o = Op("DELETE", m, from)

LEMMA MoveOpsIs ==
    ASSUME NEW c, NEW n, NEW from \in Address, NEW to \in Address
    PROVE  /\ MoveOps(c, n, from, to) \in Seq(SentOps)
           /\ \A o : o \in Range(MoveOps(c, n, from, to)) <=>
                  \E m \in Models :
                      NodeOf[m] = n /\ (MoveFirst(c, m, from, to, o) \/ MoveLast(c, m, from, o))
<1> DEFINE F == [m \in Models |-> Subscribe(c, m, <<to>>)
                     \o When(c.pub[m] \in {AllNodes, from}, Op("PUB", m, to))]
           G == [m \in Models |-> When(InGroup(c, m, from), Op("DELETE", m, from))]
           p == ForNode(n, F)
           q == ForNode(n, G)
<1>1. ASSUME NEW m \in Models
      PROVE  /\ F[m] \in Seq(SentOps)
             /\ \A o : o \in Range(F[m]) <=> MoveFirst(c, m, from, to, o)
  <2> DEFINE s == Subscribe(c, m, <<to>>)
             b == c.pub[m] \in {AllNodes, from}
             op == Op("PUB", m, to)
  <2>1. s \in Seq(SentOps) /\ \A o : o \in Range(s) <=> SubMessage(c, m, <<to>>, o)
    <3>1. <<to>> \in Seq(Address)
      OBVIOUS
    <3>2. QED
      BY <3>1, SubscribeIs
  <2>2. b \in BOOLEAN /\ op \in SentOps
    BY OpIs, Ranges DEF OpKinds
  <2>3. F[m] = s \o When(b, op)
    OBVIOUS
  <2>4. \A o : MoveFirst(c, m, from, to, o) <=> SubMessage(c, m, <<to>>, o) \/ (b /\ o = op)
    BY DEF MoveFirst
  <2> HIDE DEF F, s, b, op
  <2>5. F[m] \in Seq(SentOps) /\ \A o : o \in Range(F[m]) <=> o \in Range(s) \/ (b /\ o = op)
    BY <2>1, <2>2, <2>3, TwoLists
  <2>6. QED
    BY <2>1, <2>4, <2>5
<1>2. ASSUME NEW m \in Models
      PROVE  /\ G[m] \in Seq(SentOps)
             /\ \A o : o \in Range(G[m]) <=> MoveLast(c, m, from, o)
  <2> DEFINE b == InGroup(c, m, from)
             op == Op("DELETE", m, from)
  <2>1. b \in BOOLEAN /\ op \in SentOps
    BY OpIs, Ranges DEF OpKinds, InGroup
  <2>2. G[m] = When(b, op)
    OBVIOUS
  <2>3. \A o : MoveLast(c, m, from, o) <=> b /\ o = op
    BY DEF MoveLast
  <2> HIDE DEF G, b, op
  <2>4. QED
    BY <2>1, <2>2, <2>3, WhenIs
<1>3. MoveOps(c, n, from, to) = p \o q
  BY DEF MoveOps
<1> HIDE DEF F, G
<1>4. /\ p \in Seq(SentOps)
      /\ \A o : o \in Range(p) <=> \E m \in Models : NodeOf[m] = n /\ o \in Range(F[m])
  BY <1>1, ForNodeIs
<1>5. /\ q \in Seq(SentOps)
      /\ \A o : o \in Range(q) <=> \E m \in Models : NodeOf[m] = n /\ o \in Range(G[m])
  BY <1>2, ForNodeIs
<1> HIDE DEF p, q
<1>6. p \o q \in Seq(SentOps) /\ Range(p \o q) = Range(p) \cup Range(q)
  BY <1>4, <1>5, ConcatProperties, RangeConcatenation
<1>7. QED
  BY <1>1, <1>2, <1>3, <1>4, <1>5, <1>6

DeleteMessage(c, m, a, o) ==
    /\ Listed(c, m, a)
    /\ \/ DefaultSub(m) /\ o = Op("DELETE", m, a)
       \/ ~ DefaultSub(m) /\ DefaultPub(m) /\ o = Op("PUB", m, None)

LEMMA DeleteOpsIs ==
    ASSUME NEW c, NEW a \in 0..AllNodes
    PROVE  /\ DeleteOps(c, a) \in Seq(SentOps)
           /\ \A o : o \in Range(DeleteOps(c, a)) <=> \E m \in Models : DeleteMessage(c, m, a, o)
<1> DEFINE F == [m \in Models |->
                     IF ~ Listed(c, m, a) THEN <<>>
                     ELSE IF DefaultSub(m) THEN <<Op("DELETE", m, a)>>
                     ELSE When(DefaultPub(m), Op("PUB", m, None))]
<1>1. ASSUME NEW m \in Models
      PROVE  /\ F[m] \in Seq(SentOps)
             /\ \A o : o \in Range(F[m]) <=> DeleteMessage(c, m, a, o)
  <2> DEFINE o1 == Op("DELETE", m, a)
             o2 == Op("PUB", m, None)
             b == DefaultPub(m)
  <2>1. o1 \in SentOps /\ o2 \in SentOps
    BY OpIs, Ranges DEF OpKinds
  <2>2. CASE ~ Listed(c, m, a)
    BY <2>2, RangeOfNone DEF DeleteMessage
  <2>3. CASE Listed(c, m, a) /\ DefaultSub(m)
    <3>1. F[m] = <<o1>> /\ \A o : DeleteMessage(c, m, a, o) <=> o = o1
      BY <2>3 DEF DeleteMessage
    <3> HIDE DEF F, o1
    <3>2. QED
      BY <2>1, <3>1, RangeOfOne
  <2>4. CASE Listed(c, m, a) /\ ~ DefaultSub(m)
    <3>1. F[m] = When(b, o2) /\ (\A o : DeleteMessage(c, m, a, o) <=> b /\ o = o2)
      BY <2>4 DEF DeleteMessage
    <3>2. b \in BOOLEAN
      BY DEF DefaultPub
    <3> HIDE DEF F, o2, b
    <3>3. QED
      BY <2>1, <3>1, <3>2, WhenIs
  <2>5. QED
    BY <2>2, <2>3, <2>4
<1>2. DeleteOps(c, a) = ForEach(ModelSeq, F)
  BY DEF DeleteOps
<1> HIDE DEF F
<1>3. QED
  BY <1>1, <1>2, ForEachIs, Ranges

\* get_group_list gives addresses, the first of them that of a group.
LEMMA GroupListIs ==
    ASSUME NEW c, Good(c), NEW a \in Address
    PROVE  GroupList(c, a) \in Seq(Address) /\ GroupList(c, a) # <<>>
<1> DEFINE N == Cardinality(c.groups)
           T == {s \in Seq(Address) : s # <<>>}
           grown(s) == LET p == Parent(c, Top(s)) IN IF p = None THEN s ELSE Append(s, p)
           is(f) == f = [n \in 0..N |-> IF n = 0 THEN <<a>> ELSE grown(f[n - 1])]
           step == [n \in 1..N |-> [s \in T |-> grown(s)]]
           base == <<a>>
<1>1. N \in Nat
  BY FS_CardinalityType DEF Good
<1>2. \A b : Parent(c, b) \in Address \cup {None}
  <2>1. ASSUME NEW b PROVE Parent(c, b) \in Address \cup {None}
    <3> DEFINE up == {g.parent : g \in GroupsAt(c, b)}
    <3>1. CASE up # {} /\ \A p \in up : GroupsAt(c, p) # {}
      <4>1. Parent(c, b) \in up
        BY <3>1 DEF Parent
      <4>2. GroupsAt(c, Parent(c, b)) # {}
        BY <3>1, <4>1
      <4>3. \E g \in c.groups : g.addr = Parent(c, b)
        BY <4>2 DEF GroupsAt
      <4>4. \A g \in c.groups : g.addr \in Address
        BY DEF Good, Client, Group
      <4>5. QED
        BY <4>3, <4>4
    <3>2. CASE ~ (up # {} /\ \A p \in up : GroupsAt(c, p) # {})
      BY <3>2 DEF Parent
    <3>3. QED
      BY <3>1, <3>2
  <2>2. QED
    BY <2>1
<1>3. ASSUME NEW s \in T PROVE grown(s) \in T
  <2> DEFINE p == Parent(c, Top(s))
  <2>1. p \in Address \cup {None}
    BY <1>2
  <2> HIDE DEF p
  <2>2. CASE p = None
    BY <2>2 DEF p
  <2>3. CASE p # None
    <3>1. Append(s, p) \in Seq(Address) /\ Append(s, p) # <<>>
      BY <2>1, <2>3, AppendProperties
    <3>2. QED
      BY <2>3, <3>1 DEF p
  <2>4. QED
    BY <2>2, <2>3
<1>4. step \in [1..N -> [T -> T]] /\ base \in T
  BY <1>3
<1>5. PICK g \in [0..N -> T] : Steps(g, N, base, step)
  <2> HIDE DEF N, T, step, base
  <2>1. QED
    BY <1>1, <1>4, Recursion
<1>6. is(g)
  <2> HIDE DEF grown
  <2>1. ASSUME NEW n \in 0..N, n # 0 PROVE g[n] = grown(g[n - 1])
    <3>1. n \in 1..N /\ n - 1 \in 0..N
      BY <1>1, <2>1
    <3> HIDE DEF N
    <3>2. g[n - 1] \in T /\ g[n] = step[n][g[n - 1]]
      BY <1>5, <3>1 DEF Steps
    <3> HIDE DEF T
    <3>3. QED
      BY <3>1, <3>2
  <2>2. g = [n \in 0..N |-> g[n]] /\ g[0] = <<a>>
    BY <1>5 DEF Steps
  <2> HIDE DEF N
  <2>3. QED
    BY <2>1, <2>2
<1> DEFINE list == CHOOSE f : is(f)
<1>7. is(list)
  <2> HIDE DEF is
  <2>1. QED
    BY <1>6
<1>8. GroupList(c, a) = list[N]
  BY DEF GroupList
<1> HIDE DEF list
<1>9. list[0] = <<a>> /\ \A n \in 1..N : list[n] = grown(list[n - 1])
  <2> HIDE DEF N, grown
  <2>1. 0 \in 0..N /\ \A n \in 1..N : n \in 0..N /\ n # 0
    BY <1>1
  <2>2. QED
    BY <1>7, <2>1
<1> HIDE DEF step, is, N, grown
<1> DEFINE C == {n \in 0..N : list[n] \notin T}
<1>10. C = {}
  <2> SUFFICES ASSUME C # {} PROVE FALSE
    OBVIOUS
  <2>1. C \subseteq Nat
    BY <1>1
  <2> HIDE DEF C
  <2>2. PICK n \in C : \A k \in C : n <= k
    BY <2>1, LeastElement
  <2> USE DEF C
  <2>3. n # 0
    BY <1>4, <1>9, <2>2
  <2>4. n - 1 \in 0..N /\ n \in 1..N /\ n - 1 \notin C
    <3>1. n \in 0..N
      BY <2>2
    <3> HIDE DEF C
    <3>2. QED
      BY <1>1, <2>2, <2>3, <3>1
  <2> HIDE DEF T
  <2>5. list[n - 1] \in T
    BY <2>4
  <2>6. list[n] \in T
    BY <1>3, <1>9, <2>4, <2>5
  <2>7. QED
    BY <2>2, <2>6
<1>11. list[N] \in T
  <2>1. N \in 0..N
    BY <1>1
  <2> HIDE DEF T
  <2>2. QED
    BY <1>10, <2>1
<1>12. QED
  BY <1>8, <1>11

LEMMA NewAddressIs ==
    ASSUME NEW c, Free(c) # {}
    PROVE  NewAddress(c) \in Address /\ GroupsAt(c, NewAddress(c)) = {}
<1>1. Free(c) \subseteq Nat
  BY Ranges DEF Free
<1>2. \E a \in Free(c) : \A b \in Free(c) : a <= b
  BY <1>1, LeastElement
<1>3. NewAddress(c) \in Free(c)
  BY <1>2 DEF NewAddress
<1>4. QED
  BY <1>3 DEF Free

-----------------------------------------------------------------------------
(***************************************************************************)
(* The invariants.                                                         *)
(***************************************************************************)
TypeInv ==
    /\ Good(cl) /\ dev \in Config
    /\ requests \in Seq(SentOps) /\ replies \subseteq Answered
    /\ doubt \subseteq Models \X (0..Publication)
    /\ used \in [creates : Nat, commands : Nat, faults : 0..MaxFaults]

Messages == SentOps \cup Answered

\* Of the messages in X at most one is on its way, the head of the queue, and the
\* client waits for its answer.
InFlight(req, rep) == Range(req) \cup rep

Led(c, req, rep, X) ==
    /\ \A x \in InFlight(req, rep) \cap X :
           ~ c.timer /\ c.queue # <<>> /\ OfOp(x, Head(c.queue))
    /\ \A i, j \in DOMAIN req : req[i] \in X /\ req[j] \in X => i = j
    /\ \A i \in DOMAIN req, r \in rep : ~ (req[i] \in X /\ r \in X)
    /\ \A r, s \in rep \cap X : r = s

\* A second answer may have ended an operation whose own messages are still on
\* their way; all others are of the operation at the head.
Owned ==
    {x \in Messages :
        x.kind = "PUB" \/ About(x) \notin doubt \/ DupKinds = {} \/ used.faults # MaxFaults}

\* The database c and the nodes v differ in the subscription of m to a, or, for
\* Publication, in its publication.
Differs(c, v, m, a) ==
    IF a = Publication THEN c.pub[m] # v.pub[m] ELSE (a \in c.sub[m]) # (a \in v.sub[m])

\* v is configured as the message x says.
Valued(v, x) ==
    /\ x.kind = "ADD" => x.addr \in v.sub[x.model]
    /\ x.kind = "DELETE" => x.addr \notin v.sub[x.model]
    /\ x.kind = "PUB" => v.pub[x.model] = x.addr

\* With v the nodes, an answer that is not in doubt says what the node does.
Tells(c, v, r) ==
    IF r.ok THEN Valued(v, r) ELSE r.kind = "PUB" /\ ~ Differs(c, v, r.model, Publication)

\* The database differs from the nodes only in what is in doubt or being answered.
Follows(c, v, rep, D) ==
    /\ \A m \in Models, a \in 0..Publication : Differs(c, v, m, a) =>
           <<m, a>> \in D \/ \E r \in rep : About(r) = <<m, a>>
    /\ \A r \in rep : About(r) \notin D => Tells(c, v, r)

DatabaseInv ==
    Led(cl, requests, replies, Owned) /\ Follows(cl, dev, replies, doubt)

-----------------------------------------------------------------------------
Planned(c, kind, m, a) == Op(kind, m, a) \in Range(c.queue)

\* When the queue is done, m is subscribed to a, or is not, or publishes to one of A.
In(c, m, a)  == (a \in c.sub[m] \/ Planned(c, "ADD", m, a)) /\ ~ Planned(c, "DELETE", m, a)
Out(c, m, a) == (a \notin c.sub[m] \/ Planned(c, "DELETE", m, a)) /\ ~ Planned(c, "ADD", m, a)
PubIn(c, m, A) ==
    /\ c.pub[m] \in A \/ \E a \in 0..AllNodes : Planned(c, "PUB", m, a)
    /\ \A a \in 0..AllNodes : Planned(c, "PUB", m, a) => a \in A

Not(a) == (0..AllNodes) \ {a}

\* What is left in the queue completes the command.
Plan(c, j) ==
    /\ j.what \in {"none", "add", "remove", "move", "publish", "delete"}
    /\ j.what = "add" => \A m \in Models : NodeOf[m] = j.node =>
           /\ NeedsSub(m) => \A a \in Range(j.list) : In(c, m, a)
           /\ PubIn(c, m, {None, j.group})
    /\ j.what = "remove" => \A m \in Models : NodeOf[m] = j.node =>
           Out(c, m, j.group) /\ PubIn(c, m, Not(j.group))
    /\ j.what = "move" => \A m \in Models : NodeOf[m] = j.node =>
           /\ NeedsSub(m) => In(c, m, j.list[1])
           /\ Out(c, m, j.group) /\ PubIn(c, m, Not(j.group))
    /\ j.what = "publish" => j.node \in Models /\ PubIn(c, j.node, {j.list[1]})
    /\ j.what = "delete" => \A m \in Models : Kind[m] \in {"server", "client"} =>
           Out(c, m, j.group) /\ (Kind[m] = "client" => PubIn(c, m, {None} \cup Not(j.group)))

Pubs == {x \in Messages : x.kind = "PUB"}

JobInv ==
    job.ok =>
        /\ Plan(cl, job)
        /\ Led(cl, requests, replies, Pubs)
        /\ \A r \in replies : r.ok

-----------------------------------------------------------------------------
(***************************************************************************)
(* The messages on their way.                                              *)
(***************************************************************************)
LEMMA LedShrinks ==
    ASSUME NEW c, NEW req, NEW rep, NEW X, NEW Y, Y \subseteq X, Led(c, req, rep, X)
    PROVE  Led(c, req, rep, Y)
BY DEF Led

LEMMA LedNone ==
    ASSUME NEW c, NEW req, NEW rep, NEW X, InFlight(req, rep) \cap X = {}
    PROVE  Led(c, req, rep, X)
<1>1. \A i \in DOMAIN req : req[i] \in InFlight(req, rep)
  BY DEF InFlight, Range
<1>2. \A r \in rep : r \in InFlight(req, rep)
  BY DEF InFlight
<1>3. QED
  BY <1>1, <1>2 DEF Led

LEMMA LedSame ==
    ASSUME NEW c, NEW d, NEW req, NEW rep, NEW X, Led(c, req, rep, X),
           d.queue = c.queue, d.timer = c.timer
    PROVE  Led(d, req, rep, X)
BY DEF Led

\* Before the head is sent none is on its way.
LEMMA LedSend ==
    ASSUME NEW d, NEW req \in Seq(SentOps), NEW rep, NEW X, InFlight(req, rep) \cap X = {},
           NEW x \in SentOps, ~ d.timer, d.queue # <<>>, x = Head(d.queue)
    PROVE  Led(d, Append(req, x), rep, X)
<1> DEFINE new == Append(req, x)
           n == Len(req)
<1>1. /\ new \in Seq(SentOps) /\ n \in Nat /\ Len(new) = n + 1
      /\ \A i \in 1 .. n : new[i] = req[i]
      /\ new[n + 1] = x
  BY AppendProperties, LenProperties
<1>2. /\ DOMAIN new = 1 .. (n + 1) /\ Range(new) = {new[i] : i \in 1 .. (n + 1)}
      /\ Range(req) = {req[i] : i \in 1 .. n}
  <2> HIDE DEF new
  <2>1. DOMAIN new = 1 .. Len(new) /\ Range(new) = {new[i] : i \in 1 .. Len(new)}
    BY <1>1, LenProperties, RangeEquality
  <2>2. Range(req) = {req[i] : i \in 1 .. n}
    BY RangeEquality
  <2>3. QED
    BY <1>1, <2>1, <2>2
<1> HIDE DEF new, n
<1>3. \A i \in 1 .. (n + 1) : new[i] \in X => i = n + 1
  <2>1. ASSUME NEW i \in 1 .. (n + 1), i # n + 1 PROVE new[i] \notin X
    <3>1. i \in 1 .. n
      BY <1>1, <2>1
    <3>2. new[i] \in Range(req)
      BY <1>1, <1>2, <3>1
    <3>3. QED
      BY <3>2 DEF InFlight
  <2>2. QED
    BY <2>1
<1>4. \A r \in rep : r \notin X
  BY DEF InFlight
<1>5. \A y \in InFlight(new, rep) \cap X : y = x
  BY <1>1, <1>2, <1>3, <1>4 DEF InFlight
<1>6. OfOp(x, x)
  BY DEF OfOp
<1>7. QED
  BY <1>2, <1>3, <1>4, <1>5, <1>6 DEF Led, new

\* The first request is taken away.
LEMMA LedTail ==
    ASSUME NEW c, NEW req \in Seq(SentOps), NEW rep, NEW X, Led(c, req, rep, X), req # <<>>
    PROVE  /\ Led(c, Tail(req), rep, X)
           /\ Head(req) \in X => InFlight(Tail(req), rep) \cap X = {}
<1> DEFINE t == Tail(req)
<1>1. /\ t \in Seq(SentOps) /\ Len(t) = Len(req) - 1 /\ Len(req) \in Nat \ {0}
      /\ \A i \in 1 .. Len(t) : t[i] = req[i + 1]
  BY HeadTailProperties, EmptySeq
<1>2. /\ DOMAIN t = 1 .. Len(t) /\ DOMAIN req = 1 .. Len(req)
      /\ Range(t) = {t[i] : i \in 1 .. Len(t)}
  BY <1>1, LenProperties, RangeEquality
<1>3. Range(t) \subseteq Range(req) /\ Head(req) = req[1] /\ 1 \in DOMAIN req
  BY <1>1, <1>2, HeadAndTail
<1> HIDE DEF t
<1>4. \A i \in DOMAIN t : i + 1 \in DOMAIN req /\ i + 1 # 1 /\ t[i] = req[i + 1]
  BY <1>1, <1>2
<1>5. InFlight(t, rep) \subseteq InFlight(req, rep)
  BY <1>3 DEF InFlight
<1>6. Led(c, t, rep, X)
  <2>1. \A i, j \in DOMAIN t : t[i] \in X /\ t[j] \in X => i = j
    <3>1. ASSUME NEW i \in DOMAIN t, NEW j \in DOMAIN t, t[i] \in X, t[j] \in X PROVE i = j
      <4>1. i + 1 = j + 1
        BY <1>4, <3>1 DEF Led
      <4>2. i \in Nat /\ j \in Nat
        BY <1>2
      <4>3. QED
        BY <4>1, <4>2
    <3>2. QED
      BY <3>1
  <2>2. \A i \in DOMAIN t, r \in rep : ~ (t[i] \in X /\ r \in X)
    BY <1>4 DEF Led
  <2>3. QED
    BY <1>5, <2>1, <2>2 DEF Led
<1>7. ASSUME Head(req) \in X, NEW x \in InFlight(t, rep), x \in X PROVE FALSE
  <2>1. CASE x \in rep
    BY <1>3, <1>7, <2>1 DEF Led
  <2>2. CASE x \in Range(t)
    <3>1. PICK i \in DOMAIN t : x = t[i]
      BY <1>2, <2>2
    <3>2. QED
      BY <1>3, <1>4, <1>7, <3>1 DEF Led
  <2>3. QED
    BY <1>7, <2>1, <2>2 DEF InFlight
<1>8. QED
  BY <1>6, <1>7 DEF t

LEMMA LedAnswered ==
    ASSUME NEW c, NEW req \in Seq(SentOps), NEW rep, NEW X, Led(c, req, rep, X), req # <<>>,
           NEW r, OfOp(r, Head(req)), r \in X <=> Head(req) \in X
    PROVE  Led(c, Tail(req), rep \cup {r}, X)
<1> DEFINE t == Tail(req)
<1>1. /\ Led(c, t, rep, X)
      /\ Head(req) \in X => InFlight(t, rep) \cap X = {}
  BY LedTail
<1>2. InFlight(t, rep \cup {r}) = InFlight(t, rep) \cup {r}
  BY DEF InFlight
<1>3. Head(req) \in InFlight(req, rep)
  BY HeadAndTail DEF InFlight
<1>4. \A i \in DOMAIN t : t[i] \in InFlight(t, rep)
  BY DEF InFlight, Range
<1>5. \A s \in rep : s \in InFlight(t, rep)
  BY DEF InFlight
<1> HIDE DEF t
<1>6. CASE r \in X
  <2>1. InFlight(t, rep) \cap X = {}
    BY <1>1, <1>6
  <2>2. ~ c.timer /\ c.queue # <<>> /\ OfOp(Head(req), Head(c.queue))
    BY <1>3, <1>6 DEF Led
  <2>3. OfOp(r, Head(c.queue))
    BY <2>2 DEF OfOp
  <2>4. QED
    BY <1>2, <1>4, <1>5, <2>1, <2>2, <2>3 DEF Led, t
<1>7. CASE r \notin X
  <2>1. InFlight(t, rep \cup {r}) \cap X = InFlight(t, rep) \cap X
    BY <1>2, <1>7
  <2>2. (rep \cup {r}) \cap X = rep \cap X
    BY <1>7
  <2>3. QED
    BY <1>1, <1>7, <2>1, <2>2 DEF Led, t
<1>8. QED
  BY <1>6, <1>7

LEMMA LedTaken ==
    ASSUME NEW c, NEW req, NEW rep, NEW X, Led(c, req, rep, X), NEW r \in rep
    PROVE  /\ Led(c, req, rep \ {r}, X)
           /\ r \in X => InFlight(req, rep \ {r}) \cap X = {}
<1>1. InFlight(req, rep \ {r}) \subseteq InFlight(req, rep)
  BY DEF InFlight
<1>2. Led(c, req, rep \ {r}, X)
  BY <1>1 DEF Led
<1>3. ASSUME r \in X, NEW x \in InFlight(req, rep \ {r}), x \in X PROVE FALSE
  <2>1. CASE x \in rep \ {r}
    BY <1>3, <2>1 DEF Led
  <2>2. CASE x \in Range(req)
    <3>1. PICK i \in DOMAIN req : x = req[i]
      BY <2>2 DEF Range
    <3>2. QED
      BY <1>3, <3>1 DEF Led
  <2>3. QED
    BY <1>3, <2>1, <2>2 DEF InFlight
<1>4. QED
  BY <1>2, <1>3

\* While the timer runs, or nothing is queued, none is on its way.
LEMMA LedQuiet ==
    ASSUME NEW c, NEW req, NEW rep, NEW X, Led(c, req, rep, X), c.timer \/ c.queue = <<>>
    PROVE  InFlight(req, rep) \cap X = {}
BY DEF Led

-----------------------------------------------------------------------------
(***************************************************************************)
(* What the head of the queue does.                                        *)
(***************************************************************************)
LEMMA HeadOp ==
    ASSUME NEW c, Good(c), c.queue # <<>>
    PROVE  /\ Head(c.queue) \in SentOps
           /\ \A k, m, a : Op(k, m, a) = Head(c.queue) <=>
                  k = Head(c.queue).kind /\ m = Head(c.queue).model /\ a = Head(c.queue).addr
<1>1. Head(c.queue) \in SentOps
  BY HeadAndTail DEF Good, Client
<1>2. ASSUME NEW op \in SentOps, NEW k, NEW m, NEW a
      PROVE  Op(k, m, a) = op <=> k = op.kind /\ m = op.model /\ a = op.addr
  <2>1. op = [kind |-> op.kind, model |-> op.model, addr |-> op.addr]
    BY DEF SentOps, Ops
  <2>2. QED
    BY <2>1 DEF Op
<1>3. QED
  BY <1>1, <1>2

LEMMA PlannedAfter ==
    ASSUME NEW c, Good(c), c.queue # <<>>, NEW d, d.queue = Tail(c.queue)
    PROVE  \A k, m, a : Planned(c, k, m, a) <=>
               \/ (k = Head(c.queue).kind /\ m = Head(c.queue).model /\ a = Head(c.queue).addr)
               \/ Planned(d, k, m, a)
<1>1. Range(c.queue) = {Head(c.queue)} \cup Range(d.queue)
  BY HeadAndTail DEF Good, Client
<1>2. QED
  BY <1>1, HeadOp DEF Planned

LEMMA AppliedThere ==
    ASSUME NEW c, NEW d, NEW op, Applied(c, d, op), NEW m \in Models,
           c.sub \in [Models -> SUBSET Address], c.pub \in [Models -> 0..AllNodes],
           op.kind \in OpKinds, op.model \in Models
    PROVE  /\ \A a : a \in d.sub[m] <=>
                  \/ op.kind = "ADD" /\ op.model = m /\ op.addr = a
                  \/ a \in c.sub[m] /\ ~ (op.kind = "DELETE" /\ op.model = m /\ op.addr = a)
           /\ d.pub[m] = IF op.kind = "PUB" /\ op.model = m THEN op.addr ELSE c.pub[m]
<1>1. CASE op.kind = "ADD"
  <2>1. d.sub = [c.sub EXCEPT ![op.model] = @ \cup {op.addr}] /\ d.pub = c.pub
    BY <1>1 DEF Applied
  <2>2. QED
    BY <1>1, <2>1
<1>2. CASE op.kind = "DELETE"
  <2>1. d.sub = [c.sub EXCEPT ![op.model] = @ \ {op.addr}] /\ d.pub = c.pub
    BY <1>2 DEF Applied
  <2>2. QED
    BY <1>2, <2>1
<1>3. CASE op.kind = "PUB"
  <2>1. d.sub = c.sub /\ d.pub = [c.pub EXCEPT ![op.model] = op.addr]
    BY <1>3 DEF Applied
  <2>2. QED
    BY <1>3, <2>1
<1>4. QED
  BY <1>1, <1>2, <1>3 DEF OpKinds

LEMMA AdvancePlan ==
    ASSUME NEW c, Good(c), c.queue # <<>>, NEW d, d.queue = Tail(c.queue),
           Applied(c, d, Head(c.queue)), NEW j, Plan(c, j)
    PROVE  Plan(d, j)
<1> DEFINE op == Head(c.queue)
<1>1. /\ c.sub \in [Models -> SUBSET Address] /\ c.pub \in [Models -> 0..AllNodes]
      /\ op.kind \in OpKinds /\ op.model \in Models /\ op.addr \in 0..AllNodes
  BY HeadOp DEF Good, Client, SentOps, Ops
<1>2. \A k, m, a : Planned(c, k, m, a) <=>
          (k = op.kind /\ m = op.model /\ a = op.addr) \/ Planned(d, k, m, a)
  BY PlannedAfter
<1>3. Applied(c, d, op)
  OBVIOUS
<1> HIDE DEF op
<1>4. ASSUME NEW m \in Models, NEW a, In(c, m, a) PROVE In(d, m, a)
  <2>1. /\ a \in d.sub[m] <=>
            \/ op.kind = "ADD" /\ op.model = m /\ op.addr = a
            \/ a \in c.sub[m] /\ ~ (op.kind = "DELETE" /\ op.model = m /\ op.addr = a)
    BY <1>1, <1>3, AppliedThere
  <2>2. QED
    BY <1>2, <1>4, <2>1 DEF In
<1>5. ASSUME NEW m \in Models, NEW a, Out(c, m, a) PROVE Out(d, m, a)
  <2>1. /\ a \in d.sub[m] <=>
            \/ op.kind = "ADD" /\ op.model = m /\ op.addr = a
            \/ a \in c.sub[m] /\ ~ (op.kind = "DELETE" /\ op.model = m /\ op.addr = a)
    BY <1>1, <1>3, AppliedThere
  <2>2. QED
    BY <1>2, <1>5, <2>1 DEF Out
<1>6. ASSUME NEW m \in Models, NEW A, PubIn(c, m, A) PROVE PubIn(d, m, A)
  <2>1. d.pub[m] = IF op.kind = "PUB" /\ op.model = m THEN op.addr ELSE c.pub[m]
    BY <1>1, <1>3, AppliedThere
  <2>2. QED
    BY <1>1, <1>2, <1>6, <2>1 DEF PubIn
<1>7. QED
  BY <1>4, <1>5, <1>6 DEF Plan

LEMMA PlanSame ==
    ASSUME NEW c, NEW d, d.queue = c.queue, d.sub = c.sub, d.pub = c.pub, NEW j, Plan(c, j)
    PROVE  Plan(d, j)
BY DEF Plan, In, Out, PubIn, Planned

LEMMA AppliedValues ==
    ASSUME NEW c, NEW d, NEW op, Applied(c, d, op),
           c.sub \in [Models -> SUBSET Address], c.pub \in [Models -> 0..AllNodes],
           op.kind \in OpKinds, op.model \in Models
    PROVE  /\ Valued(d, op)
           /\ \A m \in Models, a \in 0..Publication : <<m, a>> # About(op) =>
                  \A v : Differs(d, v, m, a) <=> Differs(c, v, m, a)
<1>1. ASSUME NEW m \in Models, NEW a \in 0..Publication, <<m, a>> # About(op), NEW v
      PROVE  Differs(d, v, m, a) <=> Differs(c, v, m, a)
  <2>1. /\ a \in d.sub[m] <=>
            \/ op.kind = "ADD" /\ op.model = m /\ op.addr = a
            \/ a \in c.sub[m] /\ ~ (op.kind = "DELETE" /\ op.model = m /\ op.addr = a)
        /\ d.pub[m] = IF op.kind = "PUB" /\ op.model = m THEN op.addr ELSE c.pub[m]
    BY AppliedThere
  <2>2. CASE a = Publication
    <3>1. ~ (op.kind = "PUB" /\ op.model = m)
      BY <1>1, <2>2 DEF About
    <3>2. QED
      BY <2>1, <2>2, <3>1 DEF Differs
  <2>3. CASE a # Publication
    <3>1. op.kind # "PUB" => ~ (op.model = m /\ op.addr = a)
      BY <1>1 DEF About
    <3>2. a \in d.sub[m] <=> a \in c.sub[m]
      BY <2>1, <3>1
    <3>3. QED
      BY <2>3, <3>2 DEF Differs
  <2>4. QED
    BY <2>2, <2>3
<1>2. Valued(d, op)
  BY AppliedThere DEF Valued
<1>3. QED
  BY <1>1, <1>2

\* Two that are configured as a message says do not differ in what it is about.
LEMMA ValuedAgree ==
    ASSUME NEW c, NEW v, NEW x, Valued(c, x), Valued(v, x), x.kind \in OpKinds,
           x.addr \in 0..AllNodes, NEW m, NEW a, About(x) = <<m, a>>
    PROVE  ~ Differs(c, v, m, a)
<1>1. Publication \notin 0..AllNodes
  BY Ranges
<1>2. CASE x.kind = "PUB"
  BY <1>2 DEF Valued, About, Differs
<1>3. CASE x.kind \in {"ADD", "DELETE"}
  <2>1. x.model = m /\ x.addr = a /\ a # Publication
    BY <1>1, <1>3 DEF About
  <2>2. QED
    BY <1>3, <2>1 DEF Valued, Differs
<1>4. QED
  BY <1>2, <1>3 DEF OpKinds

-----------------------------------------------------------------------------
(***************************************************************************)
(* The calls of the application.                                           *)
(***************************************************************************)
LEMMA OpSame ==
    \A k, m, a, k2, m2, a2 : Op(k, m, a) = Op(k2, m2, a2) <=> k = k2 /\ m = m2 /\ a = a2
BY DEF Op

UsedOK == used \in [creates : Nat, commands : Nat, faults : 0..MaxFaults]

LEMMA SpendCall ==
    ASSUME UsedOK, NEW what \in {"creates", "commands"}, NEW max, Spend(what, max)
    PROVE  UsedOK' /\ used'.faults = used.faults
BY DEF UsedOK, Spend

LEMMA SpendFault ==
    ASSUME UsedOK, Spend("faults", MaxFaults)
    PROVE  UsedOK' /\ used.faults # MaxFaults /\ used'.faults = used.faults + 1
           /\ used.faults \in 0..MaxFaults /\ MaxFaults \in Nat
<1>1. MaxFaults \in Nat
  BY GroupsAssumption
<1>2. QED
  BY <1>1 DEF UsedOK, Spend

\* A call leaves the queue as it is, or queues what completes a command.
Called ==
    /\ Good(cl') /\ cl'.sub = cl.sub /\ cl'.pub = cl.pub
    /\ UNCHANGED <<dev, requests, replies, doubt>>
    /\ UsedOK' /\ used'.faults = used.faults
    /\ \/ cl'.queue = cl.queue /\ cl'.timer = cl.timer /\ job' = job
       \/ cl.queue = <<>> /\ job'.ok = Quiet /\ Plan(cl', job')

LEMMA GroupCreateStep ==
    ASSUME TypeInv, NEW name \in GroupNames, NEW parent \in {None} \cup Address,
           GroupCreate(name, parent)
    PROVE  Called
<1> DEFINE g == [name |-> name, addr |-> NewAddress(cl), parent |-> parent]
<1>1. Good(cl) /\ UsedOK /\ Spend("creates", MaxCreates)
  BY DEF TypeInv, UsedOK, GroupCreate
<1>2. NewAddress(cl) \in Address /\ GroupsAt(cl, NewAddress(cl)) = {}
  BY NewAddressIs DEF GroupCreate
<1>3. g \in Group
  BY <1>2 DEF Group
<1>4. /\ \A h \in cl.groups : h.addr # g.addr
      /\ g.parent # g.addr
  <2>1. \A h \in cl.groups : h.addr # NewAddress(cl)
    BY <1>2 DEF GroupsAt
  <2>2. parent = None \/ \E h \in cl.groups : h.addr = parent
    BY DEF GroupCreate, GroupsAt
  <2>3. None \notin Address
    BY Ranges
  <2>4. QED
    BY <1>2, <2>1, <2>2, <2>3
<1> HIDE DEF g
<1>5. cl' = [cl EXCEPT !.groups = cl.groups \cup {g}] /\ UNCHANGED <<Channel, job>>
  BY DEF GroupCreate, g
<1>6. /\ cl' \in Client /\ cl'.groups = cl.groups \cup {g} /\ cl'.state = cl.state
      /\ cl'.queue = cl.queue /\ cl'.timer = cl.timer /\ cl'.sub = cl.sub /\ cl'.pub = cl.pub
  BY <1>1, <1>3, <1>5 DEF Good, Client
<1>7. IsFiniteSet(cl.groups \cup {g})
  BY <1>1, FS_AddElement DEF Good
<1>8. /\ \A h1, h2 \in cl'.groups : h1.addr = h2.addr => h1 = h2
      /\ \A h \in cl'.groups : h.parent # h.addr
  BY <1>1, <1>4, <1>6 DEF Good
<1>9. Good(cl')
  BY <1>1, <1>6, <1>7, <1>8 DEF Good
<1>10. UsedOK' /\ used'.faults = used.faults
  BY <1>1, SpendCall
<1>11. QED
  BY <1>5, <1>6, <1>9, <1>10 DEF Called, Channel

LEMMA CommandStep ==
    ASSUME Good(cl), UsedOK, cl.state = "IDLE", NEW what, NEW n, NEW list, NEW group,
           NEW ops \in Seq(SentOps), OnlyNeeded(ops), Command(what, n, list, group, ops),
           NEW j, j = [what |-> what, node |-> n, list |-> list, group |-> group, ok |-> Quiet],
           \A d : d.queue = ops /\ d.sub = cl.sub /\ d.pub = cl.pub => Plan(d, j)
    PROVE  Called
<1>1. /\ Spend("commands", MaxCommands) /\ cl' = Reconfigure(cl, ops) /\ UNCHANGED Channel
      /\ job' = j
  BY DEF Command
<1>2. Good(cl') /\ cl'.queue = ops /\ cl'.sub = cl.sub /\ cl'.pub = cl.pub
  BY <1>1, ReconfigureGood
<1>3. UsedOK' /\ used'.faults = used.faults
  BY <1>1, SpendCall
<1>4. cl.queue = <<>> /\ j.ok = Quiet
  BY DEF Good
<1>5. Plan(cl', j)
  BY <1>2
<1>6. QED
  BY <1>1, <1>2, <1>3, <1>4, <1>5 DEF Called, Channel

LEMMA AddStep ==
    ASSUME TypeInv, NEW n \in Nodes, NEW a \in NamedAddresses(cl), AddComponentToGroup(n, a)
    PROVE  Called
<1> DEFINE list == IF a = AllNodes THEN <<>> ELSE GroupList(cl, a)
           ops == AddOps(cl, n, a, list)
           j == [what |-> "add", node |-> n, list |-> list, group |-> a, ok |-> Quiet]
<1>1. Good(cl) /\ UsedOK /\ cl.state = "IDLE" /\ a # None /\ Command("add", n, list, a, ops)
  BY DEF TypeInv, UsedOK, AddComponentToGroup
<1>2. a = AllNodes \/ a \in Address
  BY <1>1 DEF NamedAddresses, Good, Client, Group
<1>3. list \in Seq(Address)
  BY <1>1, <1>2, GroupListIs, RangeOfNone
<1> HIDE DEF list
<1>4. a \in 0..AllNodes /\ None \in 0..AllNodes
  BY <1>2, Ranges
<1>5. /\ ops \in Seq(SentOps)
      /\ \A o : o \in Range(ops) <=>
             \E m \in Models : NodeOf[m] = n /\ AddMessage(cl, m, a, list, o)
  BY <1>3, <1>4, AddOpsIs
<1> HIDE DEF ops
<1>6. \A m \in Models : \A o : AddMessage(cl, m, a, list, o) =>
          \/ NeedsSub(m) /\ \E b : o = Op("ADD", m, b)
          \/ o = Op("PUB", m, a)
  BY DEF AddMessage, SubMessage
<1>7. OnlyNeeded(ops)
  <2>1. ASSUME NEW o \in Range(ops), o.kind = "ADD" PROVE NeedsSub(o.model)
    <3>1. PICK m \in Models : AddMessage(cl, m, a, list, o)
      BY <1>5, <2>1
    <3>2. o # Op("PUB", m, a)
      BY <2>1 DEF Op
    <3>3. QED
      BY <1>6, <3>1, <3>2 DEF Op
  <2>2. QED
    BY <2>1 DEF OnlyNeeded
<1>8. ASSUME NEW d, d.queue = ops, d.sub = cl.sub, d.pub = cl.pub PROVE Plan(d, j)
  <2>1. \A k, m, b : Planned(d, k, m, b) => k = "ADD" \/ (k = "PUB" /\ b = a)
    BY <1>5, <1>6, <1>8, OpSame DEF Planned
  <2>2. ASSUME NEW m \in Models, NodeOf[m] = n
        PROVE  /\ NeedsSub(m) => \A b \in Range(list) : In(d, m, b)
               /\ PubIn(d, m, {None, a})
    <3>1. ASSUME NeedsSub(m), NEW b \in Range(list) PROVE In(d, m, b)
      <4>1. b \notin cl.sub[m] => AddMessage(cl, m, a, list, Op("ADD", m, b))
        BY <3>1 DEF AddMessage, SubMessage
      <4>2. b \notin cl.sub[m] => Planned(d, "ADD", m, b)
        BY <1>5, <1>8, <2>2, <4>1 DEF Planned
      <4>3. QED
        BY <1>8, <2>1, <4>2 DEF In
    <3>2. PubIn(d, m, {None, a})
      <4>1. cl.pub[m] \notin {None, a} => AddMessage(cl, m, a, list, Op("PUB", m, a))
        BY DEF AddMessage, Republished
      <4>2. cl.pub[m] \notin {None, a} => Planned(d, "PUB", m, a)
        BY <1>5, <1>8, <2>2, <4>1 DEF Planned
      <4>3. QED
        BY <1>4, <1>8, <2>1, <4>2 DEF PubIn
    <3>3. QED
      BY <3>1, <3>2
  <2>3. /\ j.what = "add" /\ j.node = n /\ j.list = list /\ j.group = a
    OBVIOUS
  <2> HIDE DEF j
  <2>4. QED
    BY <2>2, <2>3 DEF Plan
<1> HIDE DEF j
<1>9. QED
  BY <1>1, <1>5, <1>7, <1>8, CommandStep DEF j

LEMMA RemoveStep ==
    ASSUME TypeInv, NEW n \in Nodes, NEW g \in cl.groups, RemoveComponentFromGroup(n, g)
    PROVE  Called
<1> DEFINE ops == RemoveOps(cl, n, g)
           j == [what |-> "remove", node |-> n, list |-> <<>>, group |-> g.addr, ok |-> Quiet]
<1>1. Good(cl) /\ UsedOK /\ cl.state = "IDLE" /\ Command("remove", n, <<>>, g.addr, ops)
  BY DEF TypeInv, UsedOK, RemoveComponentFromGroup
<1>2. g \in Group /\ g.addr \in Address /\ g.parent \in {None} \cup Address /\ g.parent # g.addr
  BY <1>1 DEF Good, Client, Group
<1>3. /\ ops \in Seq(SentOps)
      /\ \A o : o \in Range(ops) <=> \E m \in Models : NodeOf[m] = n /\ RemoveMessage(cl, m, g, o)
  BY <1>2, RemoveOpsIs
<1> HIDE DEF ops
<1>4. \A m \in Models : \A o : RemoveMessage(cl, m, g, o) =>
          o = Op("DELETE", m, g.addr) \/ o = Op("PUB", m, PubAfter(m, g))
  BY DEF RemoveMessage
<1>5. OnlyNeeded(ops)
  <2>1. ASSUME NEW o \in Range(ops) PROVE o.kind # "ADD"
    BY <1>3, <1>4 DEF Op
  <2>2. QED
    BY <2>1 DEF OnlyNeeded
<1>6. \A m \in Models : PubAfter(m, g) \in 0..AllNodes /\ PubAfter(m, g) # g.addr
  BY <1>2, Ranges DEF PubAfter
<1>7. ASSUME NEW d, d.queue = ops, d.sub = cl.sub, d.pub = cl.pub PROVE Plan(d, j)
  <2>1. \A k, m, a : Planned(d, k, m, a) =>
            k = "DELETE" \/ (k = "PUB" /\ m \in Models /\ a = PubAfter(m, g))
    BY <1>3, <1>4, <1>7, OpSame DEF Planned
  <2>2. ASSUME NEW m \in Models, NodeOf[m] = n
        PROVE  Out(d, m, g.addr) /\ PubIn(d, m, Not(g.addr))
    <3>1. g.addr \in cl.sub[m] => Planned(d, "DELETE", m, g.addr)
      <4>1. g.addr \in cl.sub[m] => RemoveMessage(cl, m, g, Op("DELETE", m, g.addr))
        BY DEF RemoveMessage
      <4>2. QED
        BY <1>3, <1>7, <2>2, <4>1 DEF Planned
    <3>2. cl.pub[m] = g.addr => Planned(d, "PUB", m, PubAfter(m, g))
      <4>1. cl.pub[m] = g.addr => RemoveMessage(cl, m, g, Op("PUB", m, PubAfter(m, g)))
        BY DEF RemoveMessage
      <4>2. QED
        BY <1>3, <1>7, <2>2, <4>1 DEF Planned
    <3>3. cl.pub[m] \in 0..AllNodes
      BY <1>1 DEF Good, Client
    <3>4. Out(d, m, g.addr)
      BY <1>7, <2>1, <3>1 DEF Out
    <3>5. PubIn(d, m, Not(g.addr))
      BY <1>6, <1>7, <2>1, <3>2, <3>3 DEF PubIn, Not
    <3>6. QED
      BY <3>4, <3>5
  <2>3. j.what = "remove" /\ j.node = n /\ j.group = g.addr
    OBVIOUS
  <2> HIDE DEF j
  <2>4. QED
    BY <2>2, <2>3 DEF Plan
<1> HIDE DEF j
<1>8. QED
  BY <1>1, <1>3, <1>5, <1>7, CommandStep DEF j

LEMMA MoveStep ==
    ASSUME TypeInv, NEW n \in Nodes, NEW from \in cl.groups, NEW to \in cl.groups,
           MoveComponentToGroup(n, from, to)
    PROVE  Called
<1> DEFINE f == from.addr
           t == to.addr
           ops == MoveOps(cl, n, f, t)
           j == [what |-> "move", node |-> n, list |-> <<t>>, group |-> f, ok |-> Quiet]
<1>1. /\ Good(cl) /\ UsedOK /\ cl.state = "IDLE" /\ from # to
      /\ Command("move", n, <<t>>, f, ops)
  BY DEF TypeInv, UsedOK, MoveComponentToGroup
<1>2. f \in Address /\ t \in Address /\ f # t /\ t \in 0..AllNodes
  BY <1>1, Ranges DEF Good, Client, Group
<1> HIDE DEF f, t
<1>3. /\ ops \in Seq(SentOps)
      /\ \A o : o \in Range(ops) <=>
             \E m \in Models : NodeOf[m] = n /\ (MoveFirst(cl, m, f, t, o) \/ MoveLast(cl, m, f, o))
  BY <1>2, MoveOpsIs
<1> HIDE DEF ops
<1>4. <<t>> \in Seq(Address) /\ Range(<<t>>) = {t} /\ <<t>>[1] = t
  BY <1>2, RangeOfOne
<1>5. /\ \A m, o : MoveFirst(cl, m, f, t, o) =>
             (NeedsSub(m) /\ o = Op("ADD", m, t)) \/ o = Op("PUB", m, t)
      /\ \A m, o : MoveLast(cl, m, f, o) => o = Op("DELETE", m, f)
  BY <1>4 DEF MoveFirst, MoveLast, SubMessage
<1>6. OnlyNeeded(ops)
  <2>1. ASSUME NEW o \in Range(ops), o.kind = "ADD" PROVE NeedsSub(o.model)
    <3>1. PICK m \in Models : MoveFirst(cl, m, f, t, o) \/ MoveLast(cl, m, f, o)
      BY <1>3, <2>1
    <3>2. o # Op("PUB", m, t) /\ o # Op("DELETE", m, f)
      BY <2>1 DEF Op
    <3>3. QED
      BY <1>5, <3>1, <3>2 DEF Op
  <2>2. QED
    BY <2>1 DEF OnlyNeeded
<1>7. ASSUME NEW d, d.queue = ops, d.sub = cl.sub, d.pub = cl.pub PROVE Plan(d, j)
  <2>1. \A k, m, a : Planned(d, k, m, a) =>
            (k = "DELETE" /\ a = f) \/ (k \in {"ADD", "PUB"} /\ a = t)
    BY <1>3, <1>5, <1>7, OpSame DEF Planned
  <2>2. ASSUME NEW m \in Models, NodeOf[m] = n
        PROVE  (NeedsSub(m) => In(d, m, t)) /\ Out(d, m, f) /\ PubIn(d, m, Not(f))
    <3>1. ASSUME NeedsSub(m) PROVE In(d, m, t)
      <4>1. t \notin cl.sub[m] => MoveFirst(cl, m, f, t, Op("ADD", m, t))
        BY <1>4, <3>1 DEF MoveFirst, SubMessage
      <4>2. t \notin cl.sub[m] => Planned(d, "ADD", m, t)
        BY <1>3, <1>7, <2>2, <4>1 DEF Planned
      <4>3. QED
        BY <1>2, <1>7, <2>1, <4>2 DEF In
    <3>2. Out(d, m, f)
      <4>1. f \in cl.sub[m] => MoveLast(cl, m, f, Op("DELETE", m, f))
        BY DEF MoveLast, InGroup, Subscribed
      <4>2. f \in cl.sub[m] => Planned(d, "DELETE", m, f)
        BY <1>3, <1>7, <2>2, <4>1 DEF Planned
      <4>3. QED
        BY <1>2, <1>7, <2>1, <4>2 DEF Out
    <3>3. PubIn(d, m, Not(f))
      <4>1. cl.pub[m] = f => MoveFirst(cl, m, f, t, Op("PUB", m, t))
        BY DEF MoveFirst
      <4>2. cl.pub[m] = f => Planned(d, "PUB", m, t)
        BY <1>3, <1>7, <2>2, <4>1 DEF Planned
      <4>3. cl.pub[m] \in 0..AllNodes
        BY <1>1 DEF Good, Client
      <4>4. QED
        BY <1>2, <1>7, <2>1, <4>2, <4>3 DEF PubIn, Not
    <3>4. QED
      BY <3>1, <3>2, <3>3
  <2>3. j.what = "move" /\ j.node = n /\ j.group = f /\ j.list[1] = t
    BY <1>4
  <2> HIDE DEF j
  <2>4. QED
    BY <2>2, <2>3 DEF Plan
<1> HIDE DEF j
<1>8. QED
  BY <1>1, <1>3, <1>6, <1>7, CommandStep DEF j

LEMMA PublishStep ==
    ASSUME TypeInv, NEW m \in Models, NEW a \in 0..AllNodes, ConfigurePublication(m, a)
    PROVE  Called
<1> DEFINE op == Op("PUB", m, a)
           ops == <<op>>
           j == [what |-> "publish", node |-> m, list |-> <<a>>, group |-> None, ok |-> Quiet]
<1>1. Good(cl) /\ UsedOK /\ cl.state = "IDLE" /\ Command("publish", m, <<a>>, None, ops)
  BY DEF TypeInv, UsedOK, ConfigurePublication
<1>2. op \in SentOps /\ op.kind = "PUB"
  BY OpIs DEF OpKinds
<1> HIDE DEF op
<1>3. ops \in Seq(SentOps) /\ Range(ops) = {op}
  BY <1>2, RangeOfOne
<1> HIDE DEF ops
<1>4. OnlyNeeded(ops)
  BY <1>2, <1>3 DEF OnlyNeeded
<1>5. ASSUME NEW d, d.queue = ops, d.sub = cl.sub, d.pub = cl.pub PROVE Plan(d, j)
  <2>1. \A k, x, b : Planned(d, k, x, b) <=> k = "PUB" /\ x = m /\ b = a
    BY <1>3, <1>5, OpSame DEF Planned, op
  <2>2. PubIn(d, m, {a})
    BY <2>1 DEF PubIn
  <2>3. j.what = "publish" /\ j.node = m /\ j.list[1] = a
    OBVIOUS
  <2> HIDE DEF j
  <2>4. QED
    BY <2>2, <2>3 DEF Plan
<1> HIDE DEF j
<1>6. QED
  BY <1>1, <1>3, <1>4, <1>5, CommandStep DEF j

LEMMA WithoutGroup ==
    ASSUME NEW c, Good(c), NEW G
    PROVE  LET e == [c EXCEPT !.groups = c.groups \ G]
           IN  /\ Good(e) /\ e.state = c.state /\ e.queue = c.queue /\ e.timer = c.timer
               /\ e.sub = c.sub /\ e.pub = c.pub
<1> DEFINE e == [c EXCEPT !.groups = c.groups \ G]
<1>1. /\ e \in Client /\ e.groups = c.groups \ G /\ e.state = c.state
      /\ e.queue = c.queue /\ e.timer = c.timer /\ e.sub = c.sub /\ e.pub = c.pub
  BY DEF Good, Client
<1>2. IsFiniteSet(c.groups \ G)
  BY FS_Subset DEF Good
<1> HIDE DEF e
<1>3. Good(e)
  BY <1>1, <1>2 DEF Good
<1>4. QED
  BY <1>1, <1>3 DEF e

LEMMA GroupDeleteStep ==
    ASSUME TypeInv, NEW a \in NamedAddresses(cl), GroupDelete(a)
    PROVE  Called
<1> DEFINE ops == DeleteOps(cl, a)
           e == [cl EXCEPT !.groups = cl.groups \ GroupsAt(cl, a)]
           j == [Idle EXCEPT !.what = "delete", !.group = a, !.ok = Quiet]
<1>1. /\ Good(cl) /\ UsedOK /\ cl.state = "IDLE" /\ Spend("commands", MaxCommands)
      /\ cl' = Reconfigure(e, ops) /\ job' = j /\ UNCHANGED Channel
  BY DEF TypeInv, UsedOK, GroupDelete
<1>2. a \in {None, AllNodes} \cup Address
  BY <1>1 DEF NamedAddresses, Good, Client, Group
<1>3. a \in 0..AllNodes /\ None \in 0..AllNodes
  BY <1>2, Ranges
<1>4. /\ ops \in Seq(SentOps)
      /\ \A o : o \in Range(ops) <=> \E m \in Models : DeleteMessage(cl, m, a, o)
  BY <1>3, DeleteOpsIs
<1> HIDE DEF ops
<1>5. \A m, o : DeleteMessage(cl, m, a, o) => o = Op("DELETE", m, a) \/ o = Op("PUB", m, None)
  BY DEF DeleteMessage
<1>6. OnlyNeeded(ops)
  <2>1. ASSUME NEW o \in Range(ops) PROVE o.kind # "ADD"
    BY <1>4, <1>5 DEF Op
  <2>2. QED
    BY <2>1 DEF OnlyNeeded
<1>7. Good(e) /\ e.state = "IDLE" /\ e.sub = cl.sub /\ e.pub = cl.pub
  BY <1>1, WithoutGroup
<1> HIDE DEF e
<1>8. Good(cl') /\ cl'.queue = ops /\ cl'.sub = cl.sub /\ cl'.pub = cl.pub
  BY <1>1, <1>4, <1>6, <1>7, ReconfigureGood
<1>9. UsedOK' /\ used'.faults = used.faults
  BY <1>1, SpendCall
<1>10. cl.queue = <<>> /\ j.ok = Quiet /\ j.what = "delete" /\ j.group = a
  BY <1>1 DEF Good, Idle
<1>11. \A k, m, b : Planned(cl', k, m, b) =>
           (k = "DELETE" /\ b = a) \/ (k = "PUB" /\ b = None)
  BY <1>4, <1>5, <1>8, OpSame DEF Planned
<1>12. ASSUME NEW m \in Models, Kind[m] \in {"server", "client"}
       PROVE  Out(cl', m, a) /\ (Kind[m] = "client" => PubIn(cl', m, {None} \cup Not(a)))
  <2>1. CASE Kind[m] = "server"
    <3>1. a \in cl.sub[m] => DeleteMessage(cl, m, a, Op("DELETE", m, a))
      BY <2>1 DEF DeleteMessage, Listed, InGroup, Subscribed, DefaultSub
    <3>2. a \in cl.sub[m] => Planned(cl', "DELETE", m, a)
      BY <1>4, <1>8, <3>1 DEF Planned
    <3>3. QED
      BY <1>8, <1>11, <2>1, <3>2 DEF Out
  <2>2. CASE Kind[m] = "client"
    <3>1. cl.sub[m] = {}
      BY <1>1, <2>2 DEF Good, NeedsSub
    <3>2. cl.pub[m] = a => DeleteMessage(cl, m, a, Op("PUB", m, None))
      BY <2>2 DEF DeleteMessage, Listed, InGroup, DefaultSub, DefaultPub
    <3>3. cl.pub[m] = a => Planned(cl', "PUB", m, None)
      BY <1>4, <1>8, <3>2 DEF Planned
    <3>4. cl.pub[m] \in 0..AllNodes
      BY <1>1 DEF Good, Client
    <3>5. PubIn(cl', m, {None} \cup Not(a))
      BY <1>3, <1>8, <1>11, <3>3, <3>4 DEF PubIn, Not
    <3>6. QED
      BY <1>8, <1>11, <3>1, <3>5 DEF Out
  <2>3. QED
    BY <1>12, <2>1, <2>2
<1> HIDE DEF j
<1>13. Plan(cl', j)
  BY <1>10, <1>12 DEF Plan
<1>14. QED
  BY <1>1, <1>8, <1>9, <1>10, <1>13 DEF Called, Channel

LEMMA GroupDeleteBusyStep ==
    ASSUME TypeInv, NEW a \in NamedAddresses(cl), GroupDeleteBusy(a)
    PROVE  Called
<1>1. /\ Good(cl) /\ UsedOK /\ Spend("commands", MaxCommands)
      /\ cl' = [cl EXCEPT !.groups = cl.groups \ GroupsAt(cl, a)] /\ UNCHANGED <<Channel, job>>
  BY DEF TypeInv, UsedOK, GroupDeleteBusy
<1>2. /\ Good(cl') /\ cl'.queue = cl.queue /\ cl'.timer = cl.timer
      /\ cl'.sub = cl.sub /\ cl'.pub = cl.pub
  BY <1>1, WithoutGroup
<1>3. UsedOK' /\ used'.faults = used.faults
  BY <1>1, SpendCall
<1>4. QED
  BY <1>1, <1>2, <1>3 DEF Called, Channel

LEMMA CallStep == ASSUME TypeInv, Call PROVE Called
BY GroupCreateStep, AddStep, RemoveStep, MoveStep, PublishStep, GroupDeleteStep,
   GroupDeleteBusyStep DEF Call

-----------------------------------------------------------------------------
(***************************************************************************)
(* Types.                                                                  *)
(***************************************************************************)
LEMMA DevConfigured ==
    ASSUME NEW v \in Config, NEW op \in SentOps
    PROVE  LET w == Configured(v, op) IN w \in Config /\ Applied(v, w, op)
<1> DEFINE w == Configured(v, op)
<1>1. /\ op.kind \in OpKinds /\ op.model \in Models /\ op.addr \in 0..AllNodes
      /\ op.kind = "ADD" => op.addr \in Address
  BY DEF SentOps, Ops
<1>2. /\ v = [sub |-> v.sub, pub |-> v.pub] /\ v.sub \in [Models -> SUBSET Address]
      /\ v.pub \in [Models -> 0..AllNodes]
  BY DEF Config
<1>3. CASE op.kind = "ADD"
  <2> DEFINE s == [v.sub EXCEPT ![op.model] = @ \cup {op.addr}]
  <2>1. s \in [Models -> SUBSET Address]
    BY <1>1, <1>2, <1>3
  <2>2. w = [v EXCEPT !.sub = s]
    BY <1>2, <1>3 DEF Configured
  <2> HIDE DEF s
  <2>3. w \in Config /\ w.sub = s /\ w.pub = v.pub
    BY <1>2, <2>1, <2>2 DEF Config
  <2>4. QED
    BY <1>3, <2>3 DEF Applied, s
<1>4. CASE op.kind = "DELETE"
  <2> DEFINE s == [v.sub EXCEPT ![op.model] = @ \ {op.addr}]
  <2>1. s \in [Models -> SUBSET Address]
    BY <1>1, <1>2, <1>4
  <2>2. w = [v EXCEPT !.sub = s]
    BY <1>2, <1>4 DEF Configured
  <2> HIDE DEF s
  <2>3. w \in Config /\ w.sub = s /\ w.pub = v.pub
    BY <1>2, <2>1, <2>2 DEF Config
  <2>4. QED
    BY <1>4, <2>3 DEF Applied, s
<1>5. CASE op.kind = "PUB"
  <2> DEFINE s == [v.pub EXCEPT ![op.model] = op.addr]
  <2>1. s \in [Models -> 0..AllNodes]
    BY <1>1, <1>2, <1>5
  <2>2. w = [v EXCEPT !.pub = s]
    BY <1>2, <1>5 DEF Configured
  <2> HIDE DEF s
  <2>3. w \in Config /\ w.pub = s /\ w.sub = v.sub
    BY <1>2, <2>1, <2>2 DEF Config
  <2>4. QED
    BY <1>5, <2>3 DEF Applied, s
<1>6. QED
  BY <1>1, <1>3, <1>4, <1>5 DEF OpKinds

LEMMA ReplyIs ==
    ASSUME NEW op \in SentOps, NEW ok \in BOOLEAN
    PROVE  /\ Reply(op, ok) \in Answered /\ OfOp(Reply(op, ok), op)
           /\ Reply(op, ok).ok = ok /\ About(Reply(op, ok)) = About(op)
<1>1. /\ Reply(op, ok).kind = op.kind /\ Reply(op, ok).model = op.model
      /\ Reply(op, ok).addr = op.addr /\ Reply(op, ok).ok = ok
  BY DEF Reply
<1>2. Reply(op, ok) \in Answered
  BY DEF Reply, Answered, SentOps, Ops
<1>3. QED
  BY <1>1, <1>2 DEF OfOp, About

LEMMA AboutIs ==
    ASSUME NEW x \in Messages
    PROVE  About(x) \in Models \X (0..Publication)
<1>1. /\ x.kind \in OpKinds /\ x.model \in Models
      /\ x.addr \in 0..AllNodes
  BY DEF Messages, SentOps, Ops, Answered
<1>2. QED
  BY <1>1, Ranges DEF About

LEMMA AgainIs ==
    ASSUME NEW r \in Answered
    PROVE  LET s == [r EXCEPT !.again = TRUE]
           IN  /\ s \in Answered /\ s.kind = r.kind /\ s.model = r.model /\ s.addr = r.addr
               /\ s.ok = r.ok /\ About(s) = About(r)
<1> DEFINE s == [r EXCEPT !.again = TRUE]
<1>1. /\ s \in Answered /\ s.kind = r.kind /\ s.model = r.model /\ s.addr = r.addr
      /\ s.ok = r.ok
  BY DEF Answered
<1> HIDE DEF s
<1>2. QED
  BY <1>1 DEF About, s

LEMMA GiveUpTypes ==
    ASSUME TypeInv, NEW op \in Messages, GiveUp(op)
    PROVE  /\ Good(cl') /\ cl'.sub = cl.sub /\ cl'.pub = cl.pub /\ UsedOK'
           /\ doubt' \subseteq Models \X (0..Publication) /\ dev' = dev
<1>1. Good(cl) /\ UsedOK /\ requests \in Seq(SentOps) /\ replies \subseteq Answered
  BY DEF TypeInv, UsedOK
<1>2. Good(cl') /\ cl'.sub = cl.sub /\ cl'.pub = cl.pub
  <2>1. CASE cl.state = "RECONFIGURATION"
    <3>1. cl' = Unreachable(cl, NodeOf[op.model])
      BY <2>1 DEF GiveUp
    <3>2. QED
      BY <1>1, <2>1, <3>1, UnreachableGood
  <2>2. CASE cl.state # "RECONFIGURATION"
    BY <1>1, <2>2 DEF GiveUp
  <2>3. QED
    BY <2>1, <2>2
<1>3. UsedOK'
  BY <1>1, SpendFault DEF GiveUp
<1>4. doubt' \subseteq Models \X (0..Publication)
  <2>1. Range(requests) \subseteq SentOps
    BY <1>1, RangeOfSeq
  <2>2. \A o \in Range(requests) \cup replies : About(o) \in Models \X (0..Publication)
    BY <1>1, <2>1, AboutIs DEF Messages
  <2>3. QED
    BY <2>2 DEF GiveUp, TypeInv
<1>5. QED
  BY <1>2, <1>3, <1>4 DEF GiveUp

LEMMA TypeStep == ASSUME TypeInv, [Next]_vars PROVE TypeInv'
<1> USE DEF TypeInv
<1>1. Good(cl) /\ cl \in Client /\ UsedOK
  BY DEF UsedOK, Good
<1>2. CASE Call
  BY <1>2, CallStep DEF Called, UsedOK
<1>3. CASE Send
  <2>1. /\ cl' = [cl EXCEPT !.timer = FALSE] /\ UNCHANGED <<dev, replies, job, doubt, used>>
        /\ requests' = IF cl.queue = <<>> THEN requests ELSE Append(requests, Head(cl.queue))
    BY <1>3 DEF Send
  <2>2. /\ cl' \in Client /\ cl'.state = cl.state /\ cl'.queue = cl.queue
        /\ cl'.groups = cl.groups /\ cl'.sub = cl.sub /\ cl'.pub = cl.pub
    BY <1>1, <2>1 DEF Client
  <2>3. Good(cl')
    BY <1>1, <2>2 DEF Good
  <2>4. requests' \in Seq(SentOps)
    BY <1>1, <2>1, HeadOp, AppendProperties
  <2>5. QED
    BY <2>1, <2>3, <2>4
<1>4. CASE Carry
  <2> DEFINE op == Head(requests)
  <2>1. op \in SentOps /\ Tail(requests) \in Seq(SentOps)
    BY <1>4, HeadAndTail DEF Carry
  <2>2. dev' = Configured(dev, op) /\ replies' = replies \cup {Reply(op, TRUE)}
    BY <1>4 DEF Carry
  <2> HIDE DEF op
  <2>3. dev' \in Config /\ replies' \subseteq Answered
    BY <2>1, <2>2, DevConfigured, ReplyIs
  <2>4. QED
    BY <1>4, <2>1, <2>3 DEF Carry
<1>5. CASE Reject
  <2> DEFINE op == Head(requests)
  <2>1. op \in SentOps /\ Tail(requests) \in Seq(SentOps)
    BY <1>5, HeadAndTail DEF Reject
  <2>2. /\ replies' = replies \cup {Reply(op, FALSE)} /\ Spend("faults", MaxFaults)
        /\ doubt' = IF op.kind = "ADD" THEN doubt \cup {About(op)} ELSE doubt
    BY <1>5 DEF Reject
  <2> HIDE DEF op
  <2>3. replies' \subseteq Answered
    BY <2>1, <2>2, ReplyIs
  <2>4. doubt' \subseteq Models \X (0..Publication)
    BY <2>1, <2>2, AboutIs DEF Messages
  <2>5. UsedOK'
    BY <1>1, <2>2, SpendFault
  <2>6. QED
    BY <1>5, <2>1, <2>3, <2>4, <2>5 DEF Reject, UsedOK
<1>6. CASE Receive
  <2>1. PICK r \in replies : /\ cl' = Status(r) /\ replies' = replies \ {r}
                             /\ UNCHANGED <<dev, requests, job, doubt, used>>
    BY <1>6 DEF Receive
  <2>2. r \in Answered
    OBVIOUS
  <2>3. Good(cl')
    BY <1>1, <2>1, <2>2, StatusGood DEF Status
  <2>4. QED
    BY <2>1, <2>3
<1>7. CASE ReceiveFirst
  <2>1. PICK r \in replies :
            /\ Spend("faults", MaxFaults) /\ cl' = Status(r)
            /\ replies' = (replies \ {r}) \cup {[r EXCEPT !.again = TRUE]}
            /\ doubt' = doubt \cup {About(r)}
            /\ UNCHANGED <<dev, requests, job>>
    BY <1>7 DEF ReceiveFirst
  <2>2. r \in Answered
    OBVIOUS
  <2>3. Good(cl')
    BY <1>1, <2>1, <2>2, StatusGood DEF Status
  <2>4. replies' \subseteq Answered
    BY <2>1, <2>2, AgainIs
  <2>5. doubt' \subseteq Models \X (0..Publication)
    BY <2>1, <2>2, AboutIs DEF Messages
  <2>6. UsedOK'
    BY <1>1, <2>1, SpendFault
  <2>7. QED
    BY <2>1, <2>3, <2>4, <2>5, <2>6 DEF UsedOK
<1>8. CASE LoseRequest
  <2>1. /\ GiveUp(Head(requests)) /\ requests' = Tail(requests) /\ replies' = replies
        /\ requests # <<>>
    BY <1>8 DEF LoseRequest
  <2>2. Head(requests) \in SentOps /\ Tail(requests) \in Seq(SentOps)
    BY <2>1, HeadAndTail
  <2>3. QED
    BY <2>1, <2>2, GiveUpTypes DEF Messages, UsedOK
<1>9. CASE LoseReply
  <2>1. PICK r \in replies : GiveUp(r) /\ replies' = replies \ {r} /\ requests' = requests
    BY <1>9 DEF LoseReply
  <2>2. QED
    BY <2>1, GiveUpTypes DEF Messages, UsedOK
<1>10. CASE UNCHANGED vars
  BY <1>10 DEF vars, Good, Client, Group
<1>11. QED
  BY <1>2, <1>3, <1>4, <1>5, <1>6, <1>7, <1>8, <1>9, <1>10 DEF Next, Progress

LEMMA InitTypes == ASSUME Init PROVE TypeInv
<1>1. /\ cl = [state |-> "IDLE", queue |-> <<>>, timer |-> FALSE, groups |-> {},
               sub |-> [m \in Models |-> {}], pub |-> [m \in Models |-> Published(m)]]
      /\ dev = [sub |-> cl.sub, pub |-> cl.pub] /\ requests = <<>> /\ replies = {}
      /\ doubt = {} /\ used = [creates |-> 0, commands |-> 0, faults |-> 0]
  BY DEF Init
<1>2. \A m \in Models : Published(m) \in 0..AllNodes
  BY Ranges DEF Published
<1>3. <<>> \in Seq(SentOps) /\ Range(<<>>) = {}
  BY RangeOfNone
<1>4. cl \in Client
  BY <1>1, <1>2, <1>3 DEF Client
<1>5. IsFiniteSet(cl.groups)
  BY <1>1, FS_EmptySet
<1>6. Good(cl)
  BY <1>1, <1>3, <1>4, <1>5 DEF Good, OnlyNeeded
<1>7. dev \in Config
  BY <1>1, <1>4 DEF Client, Config
<1>8. used \in [creates : Nat, commands : Nat, faults : 0..MaxFaults]
  BY <1>1, GroupsAssumption
<1>9. QED
  BY <1>1, <1>3, <1>6, <1>7, <1>8 DEF TypeInv

LEMMA TypesImply == ASSUME TypeInv PROVE TypeOK
<1>1. cl \in Client /\ dev \in Config
  BY DEF TypeInv, Good
<1>2. cl.queue \in Seq(Ops) /\ requests \in Seq(Ops)
  BY <1>1, SeqMonotonic DEF TypeInv, SentOps, Client
<1>3. QED
  BY <1>1, <1>2 DEF TypeInv, TypeOK, Client, Config, Group, Answered

\* The types are right for all bounds: a subscription that is added is to the address of
\* a group, those of the groups around one included, whatever name the command was given;
\* what deletes or publishes may carry 0 or 0xFFFF as well (mesh_client_*_group).
THEOREM TypesCorrect == Spec => []TypeOK
<1>1. Init => TypeInv
  BY InitTypes
<1>2. TypeInv /\ [Next]_vars => TypeInv'
  BY TypeStep
<1>3. TypeInv => TypeOK
  BY TypesImply
<1>4. QED
  BY <1>1, <1>2, <1>3, PTL DEF Spec

-----------------------------------------------------------------------------
(***************************************************************************)
(* A command that met with no fault does what it says.                     *)
(***************************************************************************)
LEMMA LedMore ==
    ASSUME NEW c, NEW req, NEW rep, NEW X, Led(c, req, rep, X), NEW r, r \notin X
    PROVE  Led(c, req, rep \cup {r}, X)
<1>1. InFlight(req, rep \cup {r}) \cap X = InFlight(req, rep) \cap X
  BY DEF InFlight
<1>2. (rep \cup {r}) \cap X = rep \cap X
  OBVIOUS
<1>3. QED
  BY <1>1, <1>2 DEF Led

LEMMA PubsIs == \A x \in Messages : x \in Pubs <=> x.kind = "PUB"
BY DEF Pubs

\* An answer to a subscription, whosever it is, ends the head only as it says.
LEMMA SubReceived ==
    ASSUME Good(cl), NEW r \in replies, r \in Answered, r.kind # "PUB", NEW d,
           d = SubStatus(cl, r), Plan(cl, job), Led(cl, requests, replies, Pubs)
    PROVE  Plan(d, job) /\ Led(d, requests, replies \ {r}, Pubs)
<1>1. Led(cl, requests, replies \ {r}, Pubs)
  BY LedTaken
<1>2. CASE cl.queue # <<>> /\ Answers(r, Head(cl.queue))
  <2>1. d = Advance(cl) /\ Head(cl.queue).kind # "PUB"
    BY <1>2, SubStatusIs
  <2>2. d.queue = Tail(cl.queue) /\ Applied(cl, d, Head(cl.queue))
    BY <1>2, <2>1, AdvanceIs
  <2>3. Plan(d, job)
    BY <1>2, <2>2, AdvancePlan
  <2>4. InFlight(requests, replies \ {r}) \cap Pubs = {}
    <3>1. \A x \in InFlight(requests, replies \ {r}) \cap Pubs : x.kind = Head(cl.queue).kind
      BY <1>1 DEF Led, OfOp
    <3>2. QED
      BY <2>1, <3>1 DEF Pubs
  <2>5. QED
    BY <2>3, <2>4, LedNone
<1>3. CASE ~ (cl.queue # <<>> /\ Answers(r, Head(cl.queue)))
  BY <1>1, <1>3, SubStatusIs
<1>4. QED
  BY <1>2, <1>3

LEMMA JobStep ==
    ASSUME "PUB" \notin DupKinds, TypeInv, JobInv, [Next]_vars
    PROVE  JobInv'
<1> SUFFICES ASSUME job'.ok
             PROVE  /\ Plan(cl', job')
                    /\ Led(cl', requests', replies', Pubs)
                    /\ \A r \in replies' : r.ok
  BY DEF JobInv, Pubs, Messages, SentOps, Answered, Ops, Models, Address, AllNodes, OpKinds
<1>1. /\ Good(cl) /\ requests \in Seq(SentOps) /\ replies \subseteq Answered
  BY DEF TypeInv
<1>2. CASE Call
  <2>1. Called
    BY <1>2, CallStep
  <2>2. requests' = requests /\ replies' = replies
    BY <2>1 DEF Called
  <2>3. CASE cl'.queue = cl.queue /\ cl'.timer = cl.timer /\ job' = job
    <3>1. job.ok /\ cl'.sub = cl.sub /\ cl'.pub = cl.pub
      BY <2>1, <2>3 DEF Called
    <3>2. Plan(cl, job) /\ Led(cl, requests, replies, Pubs) /\ \A r \in replies : r.ok
      BY <3>1 DEF JobInv
    <3>3. Plan(cl', job)
      BY <2>3, <3>1, <3>2, PlanSame
    <3>4. Led(cl', requests, replies, Pubs)
      BY <2>3, <3>2, LedSame
    <3>5. QED
      BY <2>2, <2>3, <3>2, <3>3, <3>4
  <2>4. CASE cl.queue = <<>> /\ job'.ok = Quiet /\ Plan(cl', job')
    <3>1. requests = <<>> /\ replies = {}
      BY <2>4 DEF Quiet
    <3>2. InFlight(requests, replies) \cap Pubs = {}
      BY <3>1, RangeOfNone DEF InFlight
    <3>3. QED
      BY <2>2, <2>4, <3>1, <3>2, LedNone
  <2>5. QED
    BY <2>1, <2>3, <2>4 DEF Called
<1>3. CASE Send
  <2>1. /\ cl' = [cl EXCEPT !.timer = FALSE] /\ UNCHANGED <<dev, replies, job, doubt, used>>
        /\ requests' = IF cl.queue = <<>> THEN requests ELSE Append(requests, Head(cl.queue))
        /\ cl.timer
    BY <1>3 DEF Send
  <2>2. Plan(cl, job) /\ Led(cl, requests, replies, Pubs) /\ \A r \in replies : r.ok
    BY <2>1 DEF JobInv
  <2>3. /\ cl'.queue = cl.queue /\ cl'.sub = cl.sub /\ cl'.pub = cl.pub /\ cl'.timer = FALSE
    BY <1>1, <2>1 DEF Good, Client
  <2>4. Plan(cl', job)
    BY <2>2, <2>3, PlanSame
  <2>5. InFlight(requests, replies) \cap Pubs = {}
    BY <2>1, <2>2, LedQuiet
  <2>6. Led(cl', requests', replies, Pubs)
    <3>1. CASE cl.queue = <<>>
      BY <2>1, <2>5, <3>1, LedNone
    <3>2. CASE cl.queue # <<>>
      <4>1. Head(cl.queue) \in SentOps
        BY <1>1, <3>2, HeadOp
      <4>2. QED
        BY <1>1, <2>1, <2>3, <2>5, <3>2, <4>1, LedSend
    <3>3. QED
      BY <3>1, <3>2
  <2>7. QED
    BY <2>1, <2>2, <2>4, <2>6
<1>4. CASE Carry
  <2> DEFINE op == Head(requests)
             r == Reply(op, TRUE)
  <2>1. /\ requests # <<>> /\ requests' = Tail(requests) /\ replies' = replies \cup {r}
        /\ cl' = cl /\ job' = job
    BY <1>4 DEF Carry
  <2>2. Plan(cl, job) /\ Led(cl, requests, replies, Pubs) /\ \A s \in replies : s.ok
    BY <2>1 DEF JobInv
  <2>3. op \in SentOps
    BY <1>1, <2>1, HeadAndTail
  <2>4. r \in Answered /\ OfOp(r, op) /\ r.ok
    BY <2>3, ReplyIs
  <2>5. r \in Pubs <=> op \in Pubs
    BY <2>3, <2>4, PubsIs DEF Messages, OfOp
  <2> HIDE DEF r
  <2>6. Led(cl, Tail(requests), replies \cup {r}, Pubs)
    BY <1>1, <2>1, <2>2, <2>4, <2>5, LedAnswered
  <2>7. QED
    BY <2>1, <2>2, <2>4, <2>6
<1>5. CASE Reject
  <2>1. job' = [job EXCEPT !.ok = FALSE]
    BY <1>5 DEF Reject
  <2>2. QED
    BY <2>1
<1>6. CASE Receive
  <2>1. PICK r \in replies : /\ cl' = Status(r) /\ replies' = replies \ {r}
                             /\ requests' = requests /\ job' = job
    BY <1>6 DEF Receive
  <2>2. Plan(cl, job) /\ Led(cl, requests, replies, Pubs) /\ \A s \in replies : s.ok
    BY <2>1 DEF JobInv
  <2>3. r \in Answered
    BY <1>1
  <2>4. CASE r.kind = "PUB"
    <3>1. r \in Pubs /\ r \in InFlight(requests, replies)
      BY <2>3, <2>4, PubsIs DEF Messages, InFlight
    <3>2. cl.queue # <<>> /\ OfOp(r, Head(cl.queue)) /\ r.ok
      BY <2>2, <3>1 DEF Led
    <3>3. cl' = Advance(cl)
      BY <1>1, <2>1, <2>3, <2>4, <3>2, PubStatusIs DEF Status
    <3>4. cl'.queue = Tail(cl.queue) /\ Applied(cl, cl', Head(cl.queue))
      BY <1>1, <3>2, <3>3, AdvanceIs
    <3>5. Plan(cl', job)
      BY <1>1, <2>2, <3>2, <3>4, AdvancePlan
    <3>6. InFlight(requests, replies \ {r}) \cap Pubs = {}
      BY <2>2, <3>1, LedTaken
    <3>7. QED
      BY <2>1, <2>2, <3>5, <3>6, LedNone
  <2>5. CASE r.kind # "PUB"
    <3>1. cl' = SubStatus(cl, r)
      BY <2>1, <2>5 DEF Status
    <3>2. Plan(cl', job) /\ Led(cl', requests, replies \ {r}, Pubs)
      BY <1>1, <2>2, <2>3, <2>5, <3>1, SubReceived
    <3>3. QED
      BY <2>1, <2>2, <3>2
  <2>6. QED
    BY <2>4, <2>5
<1>7. CASE ReceiveFirst
  <2>1. PICK r \in replies :
            /\ r.kind \in DupKinds /\ cl' = Status(r)
            /\ replies' = (replies \ {r}) \cup {[r EXCEPT !.again = TRUE]}
            /\ requests' = requests /\ job' = job
    BY <1>7 DEF ReceiveFirst
  <2> DEFINE s == [r EXCEPT !.again = TRUE]
  <2>2. Plan(cl, job) /\ Led(cl, requests, replies, Pubs) /\ \A x \in replies : x.ok
    BY <2>1 DEF JobInv
  <2>3. r \in Answered /\ r.kind # "PUB"
    BY <1>1, <2>1
  <2>4. s \in Answered /\ s.kind # "PUB" /\ s.ok = r.ok
    BY <2>3, AgainIs
  <2>5. s \notin Pubs
    BY <2>4, PubsIs DEF Messages
  <2> HIDE DEF s
  <2>6. cl' = SubStatus(cl, r)
    BY <2>1, <2>3 DEF Status
  <2>7. Plan(cl', job) /\ Led(cl', requests, replies \ {r}, Pubs)
    BY <1>1, <2>2, <2>3, <2>6, SubReceived
  <2>8. Led(cl', requests, (replies \ {r}) \cup {s}, Pubs)
    BY <2>5, <2>7, LedMore
  <2>9. QED
    BY <2>1, <2>2, <2>4, <2>7, <2>8 DEF s
<1>8. CASE LoseRequest \/ LoseReply
  <2>1. \E op : GiveUp(op)
    BY <1>8 DEF LoseRequest, LoseReply
  <2>2. job' = [job EXCEPT !.ok = FALSE]
    BY <2>1 DEF GiveUp
  <2>3. QED
    BY <2>2
<1>9. CASE UNCHANGED vars
  BY <1>9 DEF vars, JobInv
<1>10. QED
  BY <1>2, <1>3, <1>4, <1>5, <1>6, <1>7, <1>8, <1>9 DEF Next, Progress

LEMMA JobInvImplies == ASSUME TypeInv, JobInv PROVE CommandDone
<1> SUFFICES ASSUME cl.state = "IDLE", job.ok PROVE JobDone(cl)
  BY DEF CommandDone
<1>1. cl.queue = <<>> /\ Plan(cl, job)
  BY DEF TypeInv, Good, JobInv
<1>2. \A k, m, a : ~ Planned(cl, k, m, a)
  BY <1>1, RangeOfNone DEF Planned
<1>3. \A m, a : In(cl, m, a) => a \in cl.sub[m]
  BY <1>2 DEF In
<1>4. \A m, a : Out(cl, m, a) => ~ Subscribed(cl, m, a)
  BY <1>2 DEF Out, Subscribed
<1>5. \A m, A : PubIn(cl, m, A) => cl.pub[m] \in A
  BY <1>2 DEF PubIn
<1>6. CASE job.what = "add"
  BY <1>1, <1>3, <1>5, <1>6 DEF Plan, JobDone
<1>7. CASE job.what = "remove"
  BY <1>1, <1>4, <1>5, <1>7 DEF Plan, JobDone, InGroup, Not
<1>8. CASE job.what = "move"
  BY <1>1, <1>3, <1>4, <1>5, <1>8 DEF Plan, JobDone, InGroup, Not
<1>9. CASE job.what = "publish"
  BY <1>1, <1>5, <1>9 DEF Plan, JobDone
<1>10. CASE job.what = "delete"
  BY <1>1, <1>4, <1>5, <1>10 DEF Plan, JobDone, Not
<1>11. CASE job.what = "none"
  BY <1>11 DEF JobDone
<1>12. QED
  BY <1>1, <1>6, <1>7, <1>8, <1>9, <1>10, <1>11 DEF Plan

\* A command during which nothing was lost or rejected did what it says when the
\* client is idle again, for every network, and whatever answers to subscriptions
\* come twice, of this command or of an earlier one.  Answers to publications must
\* not: mesh_configure_model_pub_status takes any answer of the element.
THEOREM CommandsDone ==
    ASSUME "PUB" \notin DupKinds
    PROVE  Spec => []CommandDone
<1>1. Init => TypeInv /\ JobInv
  <2>1. Init => ~ job.ok
    BY DEF Init, Idle
  <2>2. QED
    BY <2>1, InitTypes DEF JobInv
<1>2. TypeInv /\ JobInv /\ [Next]_vars => (TypeInv /\ JobInv)'
  BY TypeStep, JobStep
<1>3. TypeInv /\ JobInv => CommandDone
  BY JobInvImplies
<1>4. QED
  BY <1>1, <1>2, <1>3, PTL DEF Spec

-----------------------------------------------------------------------------
(***************************************************************************)
(* The database follows the nodes.                                         *)
(***************************************************************************)
LEMMA OwnedIs ==
    ASSUME NEW x \in Messages
    PROVE  /\ x \in Owned <=> \/ x.kind = "PUB" \/ About(x) \notin doubt \/ DupKinds = {}
                              \/ used.faults # MaxFaults
           /\ used.faults # MaxFaults => Owned = Messages
BY DEF Owned

LEMMA OwnedShrinks ==
    ASSUME doubt \subseteq doubt', used.faults = MaxFaults => used'.faults = MaxFaults
    PROVE  /\ Owned' \subseteq Owned
           /\ doubt' = doubt /\ used'.faults = used.faults => Owned' = Owned
<1>1. Messages' = Messages
  BY DEF Messages, SentOps, Answered, Ops, OpKinds, Models, Address, AllNodes
<1>2. Owned' = {x \in Messages : x.kind = "PUB" \/ About(x) \notin doubt' \/ DupKinds = {}
                                     \/ used'.faults # MaxFaults}
  BY <1>1 DEF Owned, About, Publication, AllNodes
<1>3. QED
  BY <1>2 DEF Owned

\* Where a message stands and what it is about.
LEMMA InMessages ==
    ASSUME TypeInv
    PROVE  InFlight(requests, replies) \subseteq Messages
<1>1. Range(requests) \subseteq SentOps /\ replies \subseteq Answered
  BY RangeOfSeq DEF TypeInv
<1>2. QED
  BY <1>1 DEF InFlight, Messages

LEMMA SameAbout == ASSUME NEW x, NEW op, OfOp(x, op) PROVE About(x) = About(op)
BY DEF OfOp, About

LEMMA DiffersEither ==
    \A c, v, m, a : Differs(c, v, m, a) <=> Differs(v, c, m, a)
BY DEF Differs

LEMMA ValuedSame ==
    ASSUME NEW v, NEW w, NEW op, Applied(v, w, op),
           v.sub \in [Models -> SUBSET Address], v.pub \in [Models -> 0..AllNodes],
           op.kind \in OpKinds, op.model \in Models,
           NEW x \in Messages, About(x) # About(op), Valued(v, x)
    PROVE  Valued(w, x)
<1>1. x.model \in Models /\ x.kind \in OpKinds
  BY DEF Messages, SentOps, Ops, Answered
<1>2. /\ \A a : a \in w.sub[x.model] <=>
            \/ op.kind = "ADD" /\ op.model = x.model /\ op.addr = a
            \/ a \in v.sub[x.model] /\ ~ (op.kind = "DELETE" /\ op.model = x.model /\ op.addr = a)
      /\ w.pub[x.model] = IF op.kind = "PUB" /\ op.model = x.model THEN op.addr
                          ELSE v.pub[x.model]
  BY <1>1, AppliedThere
<1>3. CASE x.kind = "PUB"
  BY <1>2, <1>3 DEF About, Valued
<1>4. CASE x.kind # "PUB"
  BY <1>2, <1>4 DEF About, Valued
<1>5. QED
  BY <1>3, <1>4

LEMMA FollowsSame ==
    ASSUME NEW c, NEW d, NEW v, NEW rep, NEW D, NEW E, Follows(c, v, rep, D),
           d.sub = c.sub, d.pub = c.pub, D \subseteq E
    PROVE  Follows(d, v, rep, E)
<1>1. \A m, a : Differs(d, v, m, a) <=> Differs(c, v, m, a)
  BY DEF Differs
<1>2. \A r : Tells(d, v, r) <=> Tells(c, v, r)
  BY <1>1 DEF Tells
<1>3. QED
  BY <1>1, <1>2 DEF Follows

\* The answer r is taken: nothing but the head of the queue changes, and its answer
\* was the last of its messages on their way.
LEMMA Received ==
    ASSUME TypeInv, DatabaseInv, NEW r \in replies, NEW d, d = Status(r)
    PROVE  /\ Led(d, requests, replies \ {r}, Owned)
           /\ Follows(d, dev, replies \ {r}, doubt)
<1> DEFINE op == Head(cl.queue)
           rest == replies \ {r}
<1>1. /\ Good(cl) /\ r \in Answered /\ r \in Messages /\ InFlight(requests, rest) \subseteq Messages
      /\ r \in InFlight(requests, replies)
  BY InMessages DEF TypeInv, InFlight, Messages
<1>2. /\ Led(cl, requests, replies, Owned) /\ Follows(cl, dev, replies, doubt)
      /\ Led(cl, requests, rest, Owned)
  BY LedTaken DEF DatabaseInv
<1>3. cl.sub \in [Models -> SUBSET Address] /\ cl.pub \in [Models -> 0..AllNodes]
  BY <1>1 DEF Good, Client
<1>4. ASSUME cl.queue # <<>>, d = Advance(cl), About(r) = About(op),
             About(r) \notin doubt => OfOp(r, op) /\ r.ok,
             InFlight(requests, rest) \cap Owned = {}
      PROVE  Led(d, requests, rest, Owned) /\ Follows(d, dev, rest, doubt)
  <2>1. Applied(cl, d, op)
    BY <1>1, <1>4, AdvanceIs
  <2>2. op \in SentOps /\ op.kind \in OpKinds /\ op.model \in Models
    BY <1>1, <1>4, HeadOp DEF SentOps, Ops
  <2> HIDE DEF op
  <2>3. /\ Valued(d, op)
        /\ \A m \in Models, a \in 0..Publication : <<m, a>> # About(op) =>
               (Differs(d, dev, m, a) <=> Differs(cl, dev, m, a))
    BY <1>3, <2>1, <2>2, AppliedValues
  <2>4. ASSUME NEW m \in Models, NEW a \in 0..Publication, Differs(d, dev, m, a)
        PROVE  <<m, a>> \in doubt \/ \E s \in rest : About(s) = <<m, a>>
    <3>1. CASE <<m, a>> # About(op)
      <4>1. Differs(cl, dev, m, a)
        BY <2>3, <2>4, <3>1
      <4>2. <<m, a>> \in doubt \/ \E s \in replies : About(s) = <<m, a>>
        BY <1>2, <4>1 DEF Follows
      <4>3. QED
        BY <1>4, <3>1, <4>2
    <3>2. CASE <<m, a>> = About(op) /\ About(r) \notin doubt
      <4>1. Tells(cl, dev, r) /\ OfOp(r, op) /\ r.ok
        BY <1>2, <1>4, <3>2 DEF Follows
      <4>2. Valued(dev, op)
        BY <4>1 DEF Tells, Valued, OfOp
      <4>3. op.addr \in 0..AllNodes
        BY <2>2 DEF SentOps, Ops
      <4>4. ~ Differs(d, dev, m, a)
        BY <2>2, <2>3, <3>2, <4>2, <4>3, ValuedAgree, ZenonT(20)
      <4>5. QED
        BY <2>4, <4>4
    <3>3. CASE <<m, a>> = About(op) /\ About(r) \in doubt
      BY <1>4, <3>3
    <3>4. QED
      BY <3>1, <3>2, <3>3
  <2>5. ASSUME NEW s \in rest PROVE About(s) \in doubt
    <3>1. s \in Messages /\ s \in InFlight(requests, rest)
      BY <1>1 DEF InFlight
    <3>2. QED
      BY <1>4, <3>1, OwnedIs
  <2>6. QED
    BY <1>4, <2>4, <2>5, LedNone DEF Follows
<1>5. CASE r \in Owned /\ (r.kind = "PUB" => r.ok)
  <2>1. cl.queue # <<>> /\ OfOp(r, op)
    BY <1>1, <1>2, <1>5 DEF Led
  <2>2. InFlight(requests, rest) \cap Owned = {}
    BY <1>2, <1>5, LedTaken
  <2>3. d = Advance(cl)
    <3>1. CASE r.kind = "PUB"
      BY <1>1, <1>5, <2>1, <3>1, PubStatusIs DEF Status
    <3>2. CASE r.kind # "PUB"
      <4>1. Answers(r, op)
        BY <2>1, <3>2 DEF Answers, OfOp
      <4>2. QED
        BY <1>1, <2>1, <3>2, <4>1, SubStatusIs DEF Status
    <3>3. QED
      BY <3>1, <3>2
  <2>4. About(r) = About(op)
    BY <2>1, SameAbout
  <2>5. About(r) \notin doubt => r.ok
    BY <1>2, <1>5 DEF Follows, Tells
  <2>6. QED
    BY <1>4, <2>1, <2>2, <2>3, <2>4, <2>5
<1>6. CASE r \in Owned /\ r.kind = "PUB" /\ ~ r.ok
  <2>1. cl.queue # <<>> /\ OfOp(r, op)
    BY <1>1, <1>2, <1>6 DEF Led
  <2>2. InFlight(requests, rest) \cap Owned = {}
    BY <1>2, <1>6, LedTaken
  <2>3. d = StartNextOp(cl)
    BY <1>1, <1>6, <2>1, PubStatusIs DEF Status
  <2>4. d.sub = cl.sub /\ d.pub = cl.pub
    BY <1>1, <2>1, <2>3, NextOpGood
  <2>5. Follows(d, dev, replies, doubt)
    BY <1>2, <2>4, FollowsSame
  <2>6. About(r) = <<r.model, Publication>>
    BY <1>6 DEF About
  <2>7. ASSUME NEW m \in Models, NEW a \in 0..Publication, Differs(d, dev, m, a)
        PROVE  <<m, a>> \in doubt \/ \E s \in rest : About(s) = <<m, a>>
    <3>1. <<m, a>> \in doubt \/ \E s \in replies : About(s) = <<m, a>>
      BY <2>5, <2>7 DEF Follows
    <3>2. CASE About(r) = <<m, a>> /\ About(r) \notin doubt
      <4>1. Tells(d, dev, r)
        BY <2>5, <3>2 DEF Follows
      <4>2. m = r.model /\ a = Publication
        BY <2>6, <3>2
      <4>3. QED
        BY <1>6, <2>7, <4>1, <4>2 DEF Tells
    <3>3. QED
      BY <3>1, <3>2
  <2>8. \A s \in rest : About(s) \notin doubt => Tells(d, dev, s)
    BY <2>5 DEF Follows
  <2>9. QED
    BY <2>2, <2>7, <2>8, LedNone DEF Follows
<1>7. CASE r \notin Owned
  <2>1. r.kind # "PUB" /\ About(r) \in doubt /\ DupKinds # {} /\ used.faults = MaxFaults
    BY <1>1, <1>7, OwnedIs
  <2>2. CASE cl.queue # <<>> /\ Answers(r, op)
    <3>1. d = Advance(cl) /\ op.kind # "PUB"
      BY <1>1, <2>1, <2>2, SubStatusIs DEF Status
    <3>2. About(op) = About(r)
      BY <2>1, <2>2, <3>1 DEF Answers, About
    <3>3. ASSUME NEW x \in InFlight(requests, rest), x \in Owned PROVE FALSE
      <4>1. OfOp(x, op)
        BY <1>2, <3>3 DEF Led
      <4>2. About(x) = About(op) /\ x.kind # "PUB"
        BY <3>1, <4>1, SameAbout DEF OfOp
      <4>3. x \in Messages
        BY <1>1
      <4>4. QED
        BY <2>1, <3>2, <3>3, <4>2, <4>3, OwnedIs
    <3>4. QED
      BY <1>4, <2>1, <2>2, <3>1, <3>2, <3>3
  <2>3. CASE ~ (cl.queue # <<>> /\ Answers(r, op))
    <3>1. d = cl
      BY <1>1, <2>1, <2>3, SubStatusIs DEF Status
    <3>2. Follows(cl, dev, rest, doubt)
      BY <1>2, <2>1 DEF Follows
    <3>3. QED
      BY <1>2, <3>1, <3>2
  <2>4. QED
    BY <2>2, <2>3
<1>8. QED
  BY <1>5, <1>6, <1>7

\* A message is lost: it was the only one on its way, and what it is about is in doubt.
LEMMA GivenUp ==
    ASSUME TypeInv, DatabaseInv, LoseRequest \/ LoseReply
    PROVE  DatabaseInv'
<1>1. /\ Good(cl) /\ requests \in Seq(SentOps) /\ replies \subseteq Answered /\ UsedOK
      /\ Led(cl, requests, replies, Owned) /\ Follows(cl, dev, replies, doubt)
  BY DEF TypeInv, UsedOK, DatabaseInv
<1>2. PICK op \in Messages :
          /\ GiveUp(op) /\ InFlight(requests', replies') \cap Messages = {}
          /\ \A r \in replies : r = op
  <2>1. used.faults # MaxFaults
    BY <1>1, SpendFault DEF LoseRequest, LoseReply, GiveUp
  <2>2. Led(cl, requests, replies, Messages)
    BY <1>1, <2>1 DEF Owned
  <2>3. \A r \in replies : r \in InFlight(requests, replies) /\ r \in Messages
    BY <1>1 DEF InFlight, Messages
  <2>4. CASE LoseRequest
    <3>1. /\ requests # <<>> /\ GiveUp(Head(requests)) /\ requests' = Tail(requests)
          /\ replies' = replies
      BY <2>4 DEF LoseRequest
    <3>2. Head(requests) \in Messages
      BY <1>1, <3>1, HeadAndTail DEF Messages
    <3>3. InFlight(Tail(requests), replies) \cap Messages = {}
      BY <1>1, <2>2, <3>1, <3>2, LedTail
    <3>4. \A r \in replies : r \in InFlight(Tail(requests), replies)
      BY DEF InFlight
    <3>5. QED
      BY <2>3, <3>1, <3>2, <3>3, <3>4
  <2>5. CASE LoseReply
    <3>1. PICK r \in replies : GiveUp(r) /\ replies' = replies \ {r} /\ requests' = requests
      BY <2>5 DEF LoseReply
    <3>2. InFlight(requests, replies \ {r}) \cap Messages = {}
      BY <2>2, <2>3, <3>1, LedTaken
    <3>3. \A s \in replies : s = r
      BY <2>2, <2>3 DEF Led
    <3>4. QED
      BY <2>3, <3>1, <3>2, <3>3
  <2>6. QED
    BY <2>4, <2>5
<1>3. /\ cl'.sub = cl.sub /\ cl'.pub = cl.pub /\ dev' = dev
  BY <1>2, GiveUpTypes
<1>4. doubt' = doubt \cup {About(o) : o \in {x \in Range(requests) \cup replies :
                               NodeOf[x.model] = NodeOf[op.model]}}
  BY <1>2 DEF GiveUp
<1>5. doubt \subseteq doubt' /\ \A r \in replies : About(r) \in doubt'
  BY <1>2, <1>4
<1>6. Follows(cl', dev, replies, doubt')
  BY <1>1, <1>3, <1>5, FollowsSame
<1>7. replies' = {}
  <2>1. TypeInv'
    BY TypeStep DEF Next
  <2>2. replies' \subseteq Messages /\ replies' \subseteq InFlight(requests', replies')
    <3>1. Answered' = Answered
      BY DEF Answered, OpKinds, Models, Address, AllNodes
    <3>2. QED
      BY <2>1, <3>1 DEF TypeInv, Messages, InFlight
  <2>3. QED
    BY <1>2, <2>2
<1>8. Follows(cl', dev', replies', doubt')
  BY <1>3, <1>5, <1>6, <1>7 DEF Follows
<1>9. Owned' \subseteq Messages
  BY DEF Owned, Messages, SentOps, Answered, Ops, OpKinds, Models, Address, AllNodes
<1>10. Led(cl', requests', replies', Owned')
  <2>1. InFlight(requests', replies') \cap Owned' = {}
    BY <1>2, <1>9
  <2>2. QED
    BY <2>1, LedNone
<1>11. QED
  BY <1>8, <1>10 DEF DatabaseInv, Led, Follows, InFlight, Differs, Tells, Valued

LEMMA DatabaseStep ==
    ASSUME "PUB" \notin DupKinds, DupKinds = {} \/ MaxFaults \in {0, 1},
           TypeInv, DatabaseInv, [Next]_vars
    PROVE  DatabaseInv'
<1>1. /\ Good(cl) /\ requests \in Seq(SentOps) /\ replies \subseteq Answered /\ UsedOK
      /\ dev \in Config /\ dev.sub \in [Models -> SUBSET Address]
      /\ dev.pub \in [Models -> 0..AllNodes]
      /\ Led(cl, requests, replies, Owned) /\ Follows(cl, dev, replies, doubt)
  BY DEF TypeInv, UsedOK, DatabaseInv, Config
<1>2. SUFFICES /\ Led(cl', requests', replies', Owned')
               /\ Follows(cl', dev', replies', doubt')
  BY DEF DatabaseInv, Led, Follows, InFlight, Differs, Tells, Valued, About, Publication,
         AllNodes, None, Address, OfOp
<1>3. CASE Call
  <2>1. Called
    BY <1>3, CallStep
  <2>2. /\ requests' = requests /\ replies' = replies /\ dev' = dev /\ doubt' = doubt
        /\ used'.faults = used.faults /\ cl'.sub = cl.sub /\ cl'.pub = cl.pub
    BY <2>1 DEF Called
  <2>3. Owned' = Owned
    BY <2>2, OwnedShrinks
  <2>4. Led(cl', requests, replies, Owned)
    <3>1. CASE cl'.queue = cl.queue /\ cl'.timer = cl.timer
      BY <1>1, <3>1, LedSame
    <3>2. CASE cl.queue = <<>>
      BY <1>1, <3>2, LedQuiet, LedNone
    <3>3. QED
      BY <2>1, <3>1, <3>2 DEF Called
  <2>5. QED
    BY <1>1, <2>2, <2>3, <2>4, FollowsSame
<1>4. CASE Send
  <2>1. /\ cl' = [cl EXCEPT !.timer = FALSE] /\ UNCHANGED <<dev, replies, job, doubt, used>>
        /\ requests' = IF cl.queue = <<>> THEN requests ELSE Append(requests, Head(cl.queue))
        /\ cl.timer
    BY <1>4 DEF Send
  <2>2. /\ cl'.queue = cl.queue /\ cl'.sub = cl.sub /\ cl'.pub = cl.pub /\ cl'.timer = FALSE
    BY <1>1, <2>1 DEF Good, Client
  <2>3. Owned' = Owned
    BY <2>1, OwnedShrinks
  <2>4. InFlight(requests, replies) \cap Owned = {}
    BY <1>1, <2>1, LedQuiet
  <2>5. Led(cl', requests', replies, Owned)
    <3>1. CASE cl.queue = <<>>
      BY <2>1, <2>4, <3>1, LedNone
    <3>2. CASE cl.queue # <<>>
      <4>1. Head(cl.queue) \in SentOps
        BY <1>1, <3>2, HeadOp
      <4>2. QED
        BY <1>1, <2>1, <2>2, <2>4, <3>2, <4>1, LedSend
    <3>3. QED
      BY <3>1, <3>2
  <2>6. QED
    BY <1>1, <2>1, <2>2, <2>3, <2>5, FollowsSame
<1>5. CASE Carry
  <2> DEFINE op == Head(requests)
             r == Reply(op, TRUE)
  <2>1. /\ requests # <<>> /\ requests' = Tail(requests) /\ replies' = replies \cup {r}
        /\ dev' = Configured(dev, op) /\ cl' = cl /\ doubt' = doubt /\ used' = used
    BY <1>5 DEF Carry
  <2>2. op \in SentOps /\ op \in Messages /\ op \in InFlight(requests, replies)
    BY <1>1, <2>1, HeadAndTail DEF Messages, InFlight
  <2>3. r \in Answered /\ r \in Messages /\ OfOp(r, op) /\ r.ok /\ About(r) = About(op)
    BY <2>2, ReplyIs DEF Messages
  <2>4. Owned' = Owned
    BY <2>1, OwnedShrinks
  <2>5. r \in Owned <=> op \in Owned
    BY <2>2, <2>3, OwnedIs DEF OfOp
  <2> HIDE DEF r
  <2>6. Led(cl, Tail(requests), replies \cup {r}, Owned)
    BY <1>1, <2>1, <2>3, <2>5, LedAnswered
  <2>7. op \in Owned => InFlight(Tail(requests), replies) \cap Owned = {}
    BY <1>1, <2>1, LedTail
  <2> HIDE DEF op
  <2>8. Applied(dev, dev', op) /\ op.kind \in OpKinds /\ op.model \in Models
    BY <1>1, <2>1, <2>2, DevConfigured DEF SentOps, Ops
  <2>9. /\ Valued(dev', op)
        /\ \A m \in Models, a \in 0..Publication : <<m, a>> # About(op) =>
               \A v : Differs(dev', v, m, a) <=> Differs(dev, v, m, a)
    BY <1>1, <2>8, AppliedValues
  <2>10. ASSUME NEW m \in Models, NEW a \in 0..Publication, Differs(cl, dev', m, a)
         PROVE  <<m, a>> \in doubt \/ \E s \in replies \cup {r} : About(s) = <<m, a>>
    <3>1. CASE <<m, a>> = About(op)
      BY <2>3, <3>1
    <3>2. CASE <<m, a>> # About(op)
      <4>1. Differs(cl, dev, m, a)
        BY <2>9, <2>10, <3>2, DiffersEither
      <4>2. QED
        BY <1>1, <4>1 DEF Follows
    <3>3. QED
      BY <3>1, <3>2
  <2>11. ASSUME NEW s \in replies, About(s) \notin doubt PROVE Tells(cl, dev', s)
    <3>1. s \in Messages /\ s \in InFlight(Tail(requests), replies)
      BY <1>1 DEF Messages, InFlight
    <3>2. Tells(cl, dev, s)
      BY <1>1, <2>11 DEF Follows
    <3>3. About(s) # About(op)
      <4>1. SUFFICES ASSUME About(s) = About(op) PROVE FALSE
        OBVIOUS
      <4>2. s \in Owned /\ op \in Owned
        BY <2>2, <2>11, <3>1, <4>1, OwnedIs
      <4>3. QED
        BY <2>7, <3>1, <4>2
    <3>4. CASE s.ok
      <4>1. Valued(dev, s)
        BY <3>2, <3>4 DEF Tells
      <4>2. Valued(dev', s)
        BY <1>1, <2>8, <3>1, <3>3, <4>1, ValuedSame
      <4>3. QED
        BY <3>4, <4>2 DEF Tells
    <3>5. CASE ~ s.ok
      <4>1. s.kind = "PUB" /\ ~ Differs(cl, dev, s.model, Publication) /\ About(s) = <<s.model, Publication>>
        BY <3>2, <3>5 DEF Tells, About
      <4>2. s.model \in Models /\ Publication \in 0..Publication
        BY <3>1, <4>1, AboutIs
      <4>3. ~ Differs(cl, dev', s.model, Publication)
        BY <2>9, <3>3, <4>1, <4>2, DiffersEither
      <4>4. QED
        BY <3>5, <4>1, <4>3 DEF Tells
    <3>6. QED
      BY <3>4, <3>5
  <2>12. Tells(cl, dev', r)
    BY <2>3, <2>9 DEF Tells, Valued, OfOp
  <2>13. Follows(cl, dev', replies \cup {r}, doubt)
    BY <2>10, <2>11, <2>12 DEF Follows
  <2>14. QED
    BY <2>1, <2>4, <2>6, <2>13
<1>6. CASE Reject
  <2> DEFINE op == Head(requests)
             r == Reply(op, FALSE)
  <2>1. /\ requests # <<>> /\ requests' = Tail(requests) /\ replies' = replies \cup {r}
        /\ op.kind # "DELETE" /\ Spend("faults", MaxFaults) /\ cl' = cl /\ dev' = dev
        /\ doubt' = IF op.kind = "ADD" THEN doubt \cup {About(op)} ELSE doubt
    BY <1>6 DEF Reject
  <2>2. op \in SentOps /\ op \in Messages
    BY <1>1, <2>1, HeadAndTail DEF Messages
  <2>3. r \in Messages /\ OfOp(r, op) /\ ~ r.ok /\ About(r) = About(op)
    BY <2>2, ReplyIs DEF Messages
  <2>4. used.faults # MaxFaults
    BY <1>1, <2>1, SpendFault
  <2>5. Led(cl, requests, replies, Messages)
    BY <1>1, <2>4 DEF Owned
  <2> HIDE DEF r
  <2>6. Led(cl, Tail(requests), replies \cup {r}, Messages)
    BY <1>1, <2>1, <2>2, <2>3, <2>5, LedAnswered
  <2>7. replies = {}
    <3>1. InFlight(Tail(requests), replies) \cap Messages = {}
      BY <1>1, <2>1, <2>2, <2>5, LedTail
    <3>2. QED
      BY <1>1, <3>1 DEF InFlight, Messages
  <2> HIDE DEF op
  <2>8. Owned' \subseteq Messages
    BY DEF Owned, Messages, SentOps, Answered, Ops, OpKinds, Models, Address, AllNodes
  <2>9. Led(cl, Tail(requests), replies \cup {r}, Owned')
    BY <2>6, <2>8, LedShrinks
  <2>10. \A m \in Models, a \in 0..Publication : Differs(cl, dev, m, a) => <<m, a>> \in doubt
    BY <1>1, <2>7 DEF Follows
  <2>11. About(r) \notin doubt' => Tells(cl, dev, r)
    <3>1. op.kind \in {"ADD", "PUB"}
      BY <2>1, <2>2 DEF SentOps, Ops, OpKinds
    <3>2. CASE op.kind = "ADD"
      BY <2>1, <2>3, <3>2
    <3>3. CASE op.kind = "PUB"
      <4>1. r.kind = "PUB" /\ About(r) = <<r.model, Publication>> /\ doubt' = doubt
        BY <2>1, <2>3, <3>3 DEF OfOp, About
      <4>2. r.model \in Models /\ Publication \in 0..Publication
        BY <2>3, <4>1, AboutIs
      <4>3. QED
        BY <2>3, <2>10, <4>1, <4>2 DEF Tells
    <3>4. QED
      BY <3>1, <3>2, <3>3
  <2>12. Follows(cl, dev, {r}, doubt')
    BY <2>1, <2>10, <2>11 DEF Follows
  <2>13. QED
    BY <2>1, <2>7, <2>9, <2>12
<1>7. CASE Receive
  <2>1. PICK r \in replies : /\ cl' = Status(r) /\ replies' = replies \ {r}
                             /\ UNCHANGED <<dev, requests, job, doubt, used>>
    BY <1>7 DEF Receive
  <2>2. Owned' = Owned
    BY <2>1, OwnedShrinks
  <2>3. /\ Led(cl', requests, replies \ {r}, Owned)
        /\ Follows(cl', dev, replies \ {r}, doubt)
    BY <2>1, Received
  <2>4. QED
    BY <2>1, <2>2, <2>3
<1>8. CASE ReceiveFirst
  <2>1. PICK r \in replies :
            /\ r.kind \in DupKinds /\ Spend("faults", MaxFaults) /\ cl' = Status(r)
            /\ replies' = (replies \ {r}) \cup {[r EXCEPT !.again = TRUE]}
            /\ doubt' = doubt \cup {About(r)}
            /\ UNCHANGED <<dev, requests, job>>
    BY <1>8 DEF ReceiveFirst
  <2> DEFINE s == [r EXCEPT !.again = TRUE]
  <2>2. s \in Messages /\ s.kind # "PUB" /\ About(s) = About(r)
    BY <1>1, <2>1, AgainIs DEF Messages
  <2> HIDE DEF s
  <2>3. used.faults # MaxFaults /\ used'.faults = MaxFaults
    <3>1. /\ used.faults # MaxFaults /\ used'.faults = used.faults + 1
          /\ used.faults \in 0..MaxFaults /\ MaxFaults \in {0, 1}
      BY <1>1, <2>1, SpendFault
    <3>2. QED
      BY <3>1
  <2>4. Owned' \subseteq Owned
    BY <2>1, <2>3, OwnedShrinks
  <2>5. s \notin Owned'
    BY <2>1, <2>2, <2>3 DEF Owned, About, Publication, AllNodes
  <2>6. /\ Led(cl', requests, replies \ {r}, Owned)
        /\ Follows(cl', dev, replies \ {r}, doubt)
    BY <2>1, Received
  <2>7. Led(cl', requests, (replies \ {r}) \cup {s}, Owned')
    BY <2>4, <2>5, <2>6, LedShrinks, LedMore
  <2>8. Follows(cl', dev, (replies \ {r}) \cup {s}, doubt')
    BY <2>1, <2>2, <2>6 DEF Follows
  <2>9. QED
    BY <2>1, <2>7, <2>8 DEF s
<1>9. CASE LoseRequest \/ LoseReply
  BY <1>9, GivenUp DEF DatabaseInv, Led, Follows, InFlight, Differs, Tells, Valued, About,
                       Publication, AllNodes, None, Address, OfOp
<1>10. CASE UNCHANGED vars
  <2>1. Owned' = Owned
    BY <1>10, OwnedShrinks DEF vars
  <2>2. QED
    BY <1>1, <1>10, <2>1 DEF vars
<1>11. QED
  BY <1>3, <1>4, <1>5, <1>6, <1>7, <1>8, <1>9, <1>10 DEF Next, Progress

LEMMA DatabaseInvImplies == ASSUME TypeInv, DatabaseInv PROVE DatabaseFollowsNodes
<1> DEFINE told == doubt \cup {About(op) : op \in Range(requests) \cup replies}
<1>1. \A m \in Models, a \in 0..Publication : Differs(cl, dev, m, a) => <<m, a>> \in told
  BY DEF DatabaseInv, Follows
<1>2. /\ Publication \in 0..Publication /\ Address \subseteq 0..Publication
      /\ Publication \notin Address
  BY Ranges
<1> HIDE DEF told
<1>3. ASSUME NEW d \in Differences PROVE d \in told
  <2>1. CASE d \in Models \X Address /\ (d[2] \in cl.sub[d[1]]) # (d[2] \in dev.sub[d[1]])
    <3>1. PICK m \in Models, a \in Address : d = <<m, a>>
      BY <2>1
    <3>2. Differs(cl, dev, m, a)
      BY <1>2, <2>1, <3>1 DEF Differs
    <3>3. QED
      BY <1>1, <1>2, <3>1, <3>2
  <2>2. CASE \E m \in Models : d = <<m, Publication>> /\ cl.pub[m] # dev.pub[m]
    BY <1>1, <1>2, <2>2 DEF Differs
  <2>3. QED
    BY <1>3, <2>1, <2>2 DEF Differences
<1>4. QED
  BY <1>3 DEF DatabaseFollowsNodes, told

\* The database differs from what the nodes are configured to only in what is being
\* exchanged and in what a lost message or a rejected subscription left in doubt, for
\* every network and any number of losses, as long as each message is answered once;
\* and with one answer to a subscription that comes twice, if nothing else goes wrong.
\* With a second answer and a loss the runs find a difference in another publication.
THEOREM DatabaseFollows ==
    ASSUME "PUB" \notin DupKinds, DupKinds = {} \/ MaxFaults \in {0, 1}
    PROVE  Spec => []DatabaseFollowsNodes
<1>1. Init => TypeInv /\ DatabaseInv
  <2> SUFFICES ASSUME Init PROVE DatabaseInv
    BY InitTypes
  <2>1. requests = <<>> /\ replies = {} /\ dev.sub = cl.sub /\ dev.pub = cl.pub
    BY DEF Init
  <2>2. InFlight(requests, replies) \cap Owned = {}
    BY <2>1, RangeOfNone DEF InFlight
  <2>3. Follows(cl, dev, replies, doubt)
    BY <2>1 DEF Follows, Differs
  <2>4. QED
    BY <2>2, <2>3, LedNone DEF DatabaseInv
<1>2. TypeInv /\ DatabaseInv /\ [Next]_vars => (TypeInv /\ DatabaseInv)'
  BY TypeStep, DatabaseStep
<1>3. TypeInv /\ DatabaseInv => DatabaseFollowsNodes
  BY DatabaseInvImplies
<1>4. QED
  BY <1>1, <1>2, <1>3, PTL DEF Spec
=============================================================================
