------------------------- MODULE ProvisioningProofs -------------------------
(***************************************************************************)
(* What module Provisioning keeps for every set of devices, every size of   *)
(* the database and however often calls are made and connections are lost.  *)
(***************************************************************************)
EXTENDS Provisioning, NaturalsInduction, WellFoundedInduction, FiniteSetTheorems,
    SequenceTheorems, TLAPS

-----------------------------------------------------------------------------
\* Every set of natural numbers with an element has a least one.
LEMMA LeastElement ==
    ASSUME NEW S, S \subseteq Nat, S # {}
    PROVE  \E m \in S : \A i \in S : m <= i
<1> DEFINE R == {ss \in Nat \X Nat : ss[1] < ss[2]}
<1>1. IsWellFoundedOn(R, Nat)
  BY NatLessThanWellFounded DEF OpToRel
<1>2. PICK m \in S : \A i \in S : ~ (<<i, m>> \in R)
  BY <1>1, WFMin
<1>3. \A i \in S : i \in Nat /\ m \in Nat /\ ~ (i < m)
  BY <1>2
<1>4. QED
  BY <1>3

-----------------------------------------------------------------------------
(***************************************************************************)
(* The shape of the client.  What the properties do not need is left open.  *)
(***************************************************************************)
Unicast == Nat \ {0, Local}

Records ==
    [uuid : Devices \cup {NoDevice}, addr : Unicast, complete : BOOLEAN, blocked : BOOLEAN]

Fields ==
    {"state", "uuid", "addr", "over_gatt", "proxy_addr", "retries", "queue", "timer",
     "remote_comp", "completed_sent", "last_status", "refresh", "link", "plink", "told", "db"}

\* What is queued: operations, and never the two messages that are sent directly.
Ops(queue) == \E S : queue \in Seq(S) /\ \A m \in S : m.kind \in OpKinds

IsClient(c) ==
    /\ c = [f \in Fields |-> c[f]]
    /\ c.link = [f \in {"st", "peer"} |-> c.link[f]]
    /\ c.plink = [f \in {"st", "dev", "addr"} |-> c.plink[f]]
    /\ c.addr \in Nat /\ c.uuid \in Devices \cup {NoDevice}
    /\ Ops(c.queue)

Unique(db) == \A r, s \in db : r # s => r.addr # s.addr /\ r.uuid # s.uuid

DbOK(db) == db \subseteq Records /\ IsFiniteSet(db) /\ Unique(db)

Good(c) == IsClient(c) /\ DbOK(c.db)

-----------------------------------------------------------------------------
(***************************************************************************)
(* The queue.                                                              *)
(***************************************************************************)
\* clean_pending_op_queue keeps operations that were there.
LEMMA WithoutIn ==
    ASSUME NEW S, NEW q \in Seq(S), NEW a
    PROVE  Without(q, a) \in Seq(S)
<1> DEFINE next(i, t) == IF i = 0 THEN <<>>
                         ELSE IF q[i].dst = a THEN t ELSE Append(t, q[i])
           Up(n, f) == f = [i \in 0 .. n |-> next(i, f[i - 1])]
           B == {n \in 0 .. Len(q) : ~ \E f : Up(n, f)}
<1>1. Len(q) \in Nat /\ \A i \in 1 .. Len(q) : q[i] \in S
  BY LenProperties, ElementOfSeq
<1>2. B = {}
  <2> SUFFICES ASSUME B # {} PROVE FALSE
    OBVIOUS
  <2>1. B \subseteq Nat
    BY <1>1
  <2> HIDE DEF B
  <2>2. PICK n \in B : \A k \in B : n <= k
    BY <2>1, LeastElement
  <2> USE DEF B
  <2>3. n # 0
    <3>1. Up(0, [i \in 0 .. 0 |-> <<>>])
      OBVIOUS
    <3>2. QED
      BY <2>2, <3>1
  <2>4. n \in Nat /\ n - 1 \in 0 .. Len(q) /\ n - 1 \notin B
    <3>1. n \in 0 .. Len(q)
      BY <2>2
    <3> HIDE DEF B
    <3>2. QED
      BY <1>1, <2>2, <2>3, <3>1
  <2>5. PICK f : Up(n - 1, f)
    BY <2>4
  <2> DEFINE g == [i \in 0 .. n |-> IF i = n THEN next(n, f[n - 1]) ELSE f[i]]
  <2>6. Up(n, g)
    <3>1. \A i \in 0 .. n : g[i] = next(i, g[i - 1])
      <4> SUFFICES ASSUME NEW i \in 0 .. n PROVE g[i] = next(i, g[i - 1])
        OBVIOUS
      <4>1. CASE i = n
        <5>1. n - 1 \in 0 .. n /\ n - 1 # n /\ n \in 0 .. n
          BY <2>4
        <5> HIDE DEF next
        <5>2. g[n - 1] = f[n - 1] /\ g[n] = next(n, f[n - 1])
          BY <2>5, <5>1
        <5>3. QED
          BY <4>1, <5>2
      <4>2. CASE i # n
        <5>1. i \in 0 .. (n - 1) /\ g[i] = f[i]
          BY <2>4, <4>2
        <5>2. f[i] = next(i, f[i - 1])
          BY <2>5, <5>1
        <5>3. CASE i = 0
          BY <5>1, <5>2, <5>3
        <5>4. CASE i # 0
          <6>1. i - 1 \in 0 .. n /\ i - 1 # n
            BY <2>4, <5>1, <5>4
          <6>2. g[i - 1] = f[i - 1]
            BY <6>1
          <6>3. QED
            BY <5>1, <5>2, <6>2
        <5>5. QED
          BY <5>3, <5>4
      <4>3. QED
        BY <4>1, <4>2
    <3>2. g = [i \in 0 .. n |-> g[i]]
      OBVIOUS
    <3> HIDE DEF g, next
    <3>3. QED
      BY <3>1, <3>2
  <2>7. QED
    BY <2>2, <2>6
<1> DEFINE kept == CHOOSE f : f = [i \in 0 .. Len(q) |-> next(i, f[i - 1])]
<1>3. Up(Len(q), kept)
  <2>1. Len(q) \in 0 .. Len(q)
    BY <1>1
  <2>2. \E f : Up(Len(q), f)
    BY <1>2, <2>1
  <2> HIDE DEF next
  <2>3. QED
    BY <2>2
<1>4. Without(q, a) = kept[Len(q)]
  BY DEF Without
<1> HIDE DEF kept, B
<1> DEFINE C == {n \in 0 .. Len(q) : kept[n] \notin Seq(S)}
<1>5. C = {}
  <2> SUFFICES ASSUME C # {} PROVE FALSE
    OBVIOUS
  <2>1. C \subseteq Nat
    BY <1>1
  <2> HIDE DEF C
  <2>2. PICK n \in C : \A k \in C : n <= k
    BY <2>1, LeastElement
  <2> USE DEF C
  <2>3. kept[n] = next(n, kept[n - 1])
    BY <1>3, <2>2
  <2>4. CASE n = 0
    BY <2>2, <2>3, <2>4, EmptySeq
  <2>5. CASE n # 0
    <3>1. n - 1 \in 0 .. Len(q) /\ n - 1 \notin C /\ n \in 1 .. Len(q)
      BY <1>1, <2>2, <2>5
    <3>2. kept[n - 1] \in Seq(S) /\ q[n] \in S
      BY <1>1, <3>1
    <3>3. kept[n] \in Seq(S)
      BY <2>3, <2>5, <3>2, AppendProperties
    <3>4. QED
      BY <2>2, <3>3
  <2>6. QED
    BY <2>4, <2>5
<1>6. QED
  BY <1>1, <1>4, <1>5

LEMMA OpsWithout ==
    ASSUME NEW q, Ops(q), NEW a
    PROVE  Ops(Without(q, a))
BY WithoutIn DEF Ops

LEMMA OpsEmpty == Ops(<<>>)
<1> DEFINE S == {}
<1>1. <<>> \in Seq(S) /\ \A m \in S : m.kind \in OpKinds
  BY EmptySeq
<1> HIDE DEF S
<1>2. QED
  BY <1>1 DEF Ops

LEMMA OpsOne ==
    ASSUME NEW kind \in OpKinds, NEW a
    PROVE  Ops(<<Msg(kind, a)>>)
<1> DEFINE S == {Msg(kind, a)}
           q == <<Msg(kind, a)>>
<1>1. q \in Seq(S) /\ \A m \in S : m.kind \in OpKinds
  BY DEF Msg
<1> HIDE DEF S, q
<1>2. Ops(q)
  BY <1>1 DEF Ops
<1>3. QED
  BY <1>2 DEF q

LEMMA OpsConcat ==
    ASSUME NEW p, Ops(p), NEW q, Ops(q)
    PROVE  Ops(p \o q) /\ (q # <<>> => p \o q # <<>>)
<1>1. PICK S : p \in Seq(S) /\ \A m \in S : m.kind \in OpKinds
  BY DEF Ops
<1>2. PICK T : q \in Seq(T) /\ \A m \in T : m.kind \in OpKinds
  BY DEF Ops
<1>3. p \in Seq(S \cup T) /\ q \in Seq(S \cup T)
  BY <1>1, <1>2, SeqMonotonic
<1>4. p \o q \in Seq(S \cup T) /\ (q # <<>> => p \o q # <<>>)
  BY <1>3, ConcatProperties, ConcatEqualIffEmpty
<1>5. QED
  BY <1>1, <1>2, <1>4 DEF Ops

LEMMA OpsTail ==
    ASSUME NEW q, Ops(q), q # <<>>
    PROVE  Ops(Tail(q)) /\ Head(q).kind \in OpKinds
<1>1. PICK S : q \in Seq(S) /\ \A m \in S : m.kind \in OpKinds
  BY DEF Ops
<1>2. Head(q) \in S /\ Tail(q) \in Seq(S)
  BY <1>1, HeadTailProperties
<1>3. QED
  BY <1>1, <1>2 DEF Ops

\* The operations of a configuration.
LEMMA OpsOfConfiguration ==
    ASSUME NEW c
    PROVE  Ops(ConfigOps(c)) /\ ConfigOps(c) # <<>>
<1> DEFINE set  == <<Msg("SET", c.addr)>>
           net  == IF c.refresh THEN <<Msg("NET_KEY", c.addr)>> ELSE <<>>
           app  == <<Msg("APP_KEY", c.addr)>>
           bind == <<Msg("BIND", c.addr)>>
           keys == <<Msg("APP_KEY", c.addr), Msg("BIND", c.addr)>>
           filt == IF c.proxy_addr # c.addr /\ c.over_gatt THEN <<FilterAdd>> ELSE <<>>
<1>1. Ops(set) /\ Ops(net) /\ Ops(app) /\ Ops(bind) /\ Ops(filt)
  BY OpsEmpty, OpsOne DEF OpKinds, ConfigKinds, FilterAdd
<1>2. keys = app \o bind /\ set # <<>> /\ keys # <<>>
  OBVIOUS
<1>3. ConfigOps(c) = ((set \o net) \o keys) \o filt
  BY DEF ConfigOps
<1> HIDE DEF set, net, app, bind, keys, filt
<1>4. Ops(keys) /\ Ops(set \o net)
  BY <1>1, <1>2, OpsConcat
<1>5. Ops((set \o net) \o keys) /\ (set \o net) \o keys # <<>>
  BY <1>2, <1>4, OpsConcat
<1>6. CASE filt # <<>>
  BY <1>1, <1>3, <1>5, <1>6, OpsConcat
<1>7. CASE filt = <<>>
  <2>1. ConfigOps(c) = (set \o net) \o keys
    BY <1>3, <1>5, <1>7, ConcatEmptySeq DEF Ops
  <2>2. QED
    BY <1>5, <2>1
<1>8. QED
  BY <1>6, <1>7

-----------------------------------------------------------------------------
(***************************************************************************)
(* The database.                                                           *)
(***************************************************************************)

\* The records that wiced_bt_mesh_db and the handlers change, as sets of records.
Blocking(db, a)   == {IF r.addr = a THEN [r EXCEPT !.blocked = TRUE] ELSE r : r \in db}
Completing(db, a) == {IF r.addr = a THEN [r EXCEPT !.complete = TRUE] ELSE r : r \in db}

\* e has no node that d has not.
NoNew(d, e) == \A s \in e : \E r \in d : s.addr = r.addr /\ s.uuid = r.uuid

LEMMA FiniteImage ==
    ASSUME NEW S, IsFiniteSet(S), NEW f, NEW T, f \in [S -> T], \A t \in T : \E s \in S : f[s] = t
    PROVE  IsFiniteSet(T)
<1>1. f \in Surjection(S, T)
  BY DEF Surjection
<1>2. QED
  BY <1>1, FS_Surjection

LEMMA BlockingOK ==
    ASSUME NEW db, DbOK(db), NEW a
    PROVE  DbOK(Blocking(db, a)) /\ NoNew(db, Blocking(db, a))
<1> DEFINE f == [r \in db |-> IF r.addr = a THEN [r EXCEPT !.blocked = TRUE] ELSE r]
           T == Blocking(db, a)
<1>1. \A r \in db : r \in Records
  BY DEF DbOK
<1>2. \A r \in db : f[r] \in Records /\ f[r].addr = r.addr /\ f[r].uuid = r.uuid
  BY <1>1 DEF Records
<1>3. (\A r \in db : f[r] \in T) /\ \A t \in T : \E r \in db : f[r] = t
  BY DEF Blocking
<1>4. IsFiniteSet(T)
  <2>1. f \in [db -> T]
    BY <1>3
  <2> HIDE DEF f, T
  <2>2. QED
    BY <1>3, <2>1, FiniteImage DEF DbOK
<1> HIDE DEF f, T
<1>5. Unique(T)
  BY <1>2, <1>3 DEF Unique, DbOK
<1>6. QED
  BY <1>2, <1>3, <1>4, <1>5 DEF DbOK, NoNew, T

LEMMA CompletingOK ==
    ASSUME NEW db, DbOK(db), NEW a
    PROVE  DbOK(Completing(db, a)) /\ NoNew(db, Completing(db, a))
<1> DEFINE f == [r \in db |-> IF r.addr = a THEN [r EXCEPT !.complete = TRUE] ELSE r]
           T == Completing(db, a)
<1>1. \A r \in db : r \in Records
  BY DEF DbOK
<1>2. \A r \in db : f[r] \in Records /\ f[r].addr = r.addr /\ f[r].uuid = r.uuid
  BY <1>1 DEF Records
<1>3. (\A r \in db : f[r] \in T) /\ \A t \in T : \E r \in db : f[r] = t
  BY DEF Completing
<1>4. IsFiniteSet(T)
  <2>1. f \in [db -> T]
    BY <1>3
  <2> HIDE DEF f, T
  <2>2. QED
    BY <1>3, <2>1, FiniteImage DEF DbOK
<1> HIDE DEF f, T
<1>5. Unique(T)
  BY <1>2, <1>3 DEF Unique, DbOK
<1>6. QED
  BY <1>2, <1>3, <1>4, <1>5 DEF DbOK, NoNew, T

LEMMA SubsetOK ==
    ASSUME NEW db, DbOK(db), NEW e, e \subseteq db
    PROVE  DbOK(e) /\ NoNew(db, e)
BY FS_Subset DEF DbOK, Unique, NoNew

\* wiced_bt_mesh_db_alloc_unicast_addr finds an address no node of the database has:
\* there are more addresses to try than nodes.
LEMMA FreeAddressIsFree ==
    ASSUME NEW c, Good(c)
    PROVE  FreeAddress(c) \in Unicast /\ NodesAt(c, FreeAddress(c)) = {}
<1> DEFINE n == Cardinality(c.db)
           I == (Local + 1) .. (Local + 1 + n)
           F == {a \in I : NodesAt(c, a) = {}}
<1>1. n \in Nat /\ IsFiniteSet(c.db)
  BY FS_CardinalityType DEF Good, DbOK
<1>2. /\ I \subseteq Nat /\ I \subseteq Unicast
      /\ \A b : b \in (Local + 1) .. (Local + 1 + n) <=> b \in I
  BY <1>1 DEF Local, Unicast
<1>3. F # {}
  <2> SUFFICES ASSUME F = {} PROVE FALSE
    OBVIOUS
  <2> DEFINE f == [a \in I |-> CHOOSE r \in c.db : r.addr = a]
  <2>1. \A a \in I : f[a] \in c.db /\ f[a].addr = a
    <3>1. \A a \in I : \E r \in c.db : r.addr = a
      BY DEF NodesAt
    <3>2. QED
      BY <3>1
  <2>2. f \in [I -> c.db]
    BY <2>1
  <2>3. IsFiniteSet(I) /\ Cardinality(I) = n + 1
    BY <1>1, FS_Interval DEF Local
  <2> HIDE DEF f, I, n
  <2>4. Cardinality(c.db) < Cardinality(I)
    BY <1>1, <2>3 DEF n
  <2>5. \E a, b \in I : a # b /\ f[a] = f[b]
    BY <1>1, <2>2, <2>3, <2>4, FS_PigeonHole
  <2>6. QED
    BY <2>1, <2>5
<1>4. \E a \in F : \A b \in F : a <= b
  BY <1>2, <1>3, LeastElement
<1>5. \E a \in I : NodesAt(c, a) = {} /\ \A b \in (Local + 1) .. (a - 1) : NodesAt(c, b) # {}
  <2>1. PICK a \in F : \A b \in F : a <= b
    BY <1>4
  <2>2. a \in I /\ a \in Nat /\ NodesAt(c, a) = {}
    BY <1>2, <2>1
  <2>3. \A b \in (Local + 1) .. (a - 1) : b \in I /\ ~ (a <= b)
    BY <1>1, <2>2 DEF Local
  <2>4. \A b \in (Local + 1) .. (a - 1) : NodesAt(c, b) # {}
    BY <2>1, <2>3
  <2>5. QED
    BY <2>2, <2>4
<1>6. FreeAddress(c) \in I /\ NodesAt(c, FreeAddress(c)) = {}
  BY <1>5 DEF FreeAddress
<1>7. QED
  BY <1>2, <1>6

-----------------------------------------------------------------------------
(***************************************************************************)
(* The functions of the client.  A calm one creates no node, gives no       *)
(* address and leaves the provisioning link alone.                          *)
(***************************************************************************)
Opening == {"CONNECTING", "PROVISIONING"}

Calm(c, d) ==
    /\ Good(d)
    /\ NoNew(c.db, d.db)
    /\ d.plink = c.plink
    /\ Connected(c) => Connected(d)
    /\ d.state \in Opening => d.state = c.state /\ d.addr = c.addr

LEMMA CalmChain ==
    ASSUME NEW c, NEW d, NEW e, Calm(c, d), Calm(d, e)
    PROVE  Calm(c, e)
BY DEF Calm, NoNew

LEMMA CalmTrusts == ASSUME NEW c, NEW d, Calm(c, d) PROVE Good(d)
BY DEF Calm

LEMMA CalmSelf == ASSUME NEW c, Good(c) PROVE Calm(c, c)
BY DEF Calm, NoNew

\* What leaves the database, the provisioning link and the address as they are, and
\* what leaves the account of the provisioning as it is besides.
Beside(c, d) ==
    /\ IsClient(d)
    /\ d.db = c.db /\ d.plink = c.plink /\ d.addr = c.addr
    /\ Connected(c) => Connected(d)

Aside(c, d) ==
    /\ Beside(c, d)
    /\ d.uuid = c.uuid /\ d.told = c.told
    /\ d.completed_sent = c.completed_sent /\ d.last_status = c.last_status

LEMMA CalmBeside ==
    ASSUME NEW c, Good(c), NEW d, Beside(c, d), d.state = c.state \/ d.state \notin Opening
    PROVE  Calm(c, d)
BY DEF Calm, Good, NoNew, Beside

LEMMA CalmAside ==
    ASSUME NEW c, Good(c), NEW d, Aside(c, d), d.state = c.state \/ d.state \notin Opening
    PROVE  Calm(c, d)
BY CalmBeside DEF Aside

USE DEF Fields

\* The functions that only change the rest of the client.
LEMMA ConnectProxyAside ==
    ASSUME NEW c, Good(c), NEW by
    PROVE  Aside(c, ConnectProxy(c, by)) /\ ConnectProxy(c, by).state = c.state
BY DEF ConnectProxy, Good, IsClient, Connected, Aside, Beside

LEMMA ProxyDisconnectAside ==
    ASSUME NEW c, Good(c)
    PROVE  Aside(c, ProxyDisconnect(c)) /\ ProxyDisconnect(c).state = c.state
BY DEF ProxyDisconnect, Good, IsClient, Connected, Aside, Beside

LEMMA QueueAside ==
    ASSUME NEW c, Good(c), NEW q, Ops(q)
    PROVE  Aside(c, [c EXCEPT !.queue = q]) /\ [c EXCEPT !.queue = q].state = c.state
BY DEF Good, IsClient, Connected, Aside, Beside

LEMMA EnqueueAside ==
    ASSUME NEW c, Good(c), NEW ops, Ops(ops)
    PROVE  Aside(c, Enqueue(c, ops)) /\ Enqueue(c, ops).state = c.state
<1>1. Ops(c.queue \o ops)
  BY OpsConcat DEF Good, IsClient
<1>2. Enqueue(c, ops) = [c EXCEPT !.queue = c.queue \o ops]
  BY DEF Enqueue
<1>3. QED
  BY <1>1, <1>2, QueueAside

\* The operation at the head is done.
LEMMA TailAside ==
    ASSUME NEW c, Good(c)
    PROVE  LET d == [c EXCEPT !.queue = IF @ = <<>> THEN @ ELSE Tail(@)]
           IN  Aside(c, d) /\ d.state = c.state /\ d.remote_comp = c.remote_comp
<1> DEFINE q == IF c.queue = <<>> THEN c.queue ELSE Tail(c.queue)
           d == [c EXCEPT !.queue = IF @ = <<>> THEN @ ELSE Tail(@)]
<1>1. d = [c EXCEPT !.queue = q]
  BY DEF Good, IsClient
<1>2. Ops(q)
  BY OpsTail DEF Good, IsClient
<1> HIDE DEF q, d
<1>3. Aside(c, d) /\ d.state = c.state /\ d.remote_comp = c.remote_comp
  BY <1>1, <1>2 DEF Good, IsClient, Connected, Aside, Beside
<1>4. QED
  BY <1>3 DEF d

LEMMA CleanAside ==
    ASSUME NEW c, Good(c), NEW a
    PROVE  Aside(c, Clean(c, a)) /\ Clean(c, a).state = c.state
<1> DEFINE q == Without(c.queue, a)
<1>1. Ops(q) /\ Clean(c, a) = [c EXCEPT !.queue = q]
  BY OpsWithout DEF Clean, Good, IsClient
<1> HIDE DEF q
<1>2. QED
  BY <1>1, QueueAside

LEMMA StateAside ==
    ASSUME NEW c, Good(c), NEW s
    PROVE  Aside(c, [c EXCEPT !.state = s]) /\ [c EXCEPT !.state = s].state = s
BY DEF Good, IsClient, Connected, Aside, Beside

LEMMA RetriesAside ==
    ASSUME NEW c, Good(c), NEW n
    PROVE  Aside(c, [c EXCEPT !.retries = n]) /\ [c EXCEPT !.retries = n].state = c.state
BY DEF Good, IsClient, Connected, Aside, Beside

LEMMA CalmConnectProxy ==
    ASSUME NEW c, Good(c), NEW by
    PROVE  Calm(c, ConnectProxy(c, by)) /\ ConnectProxy(c, by).state = c.state
BY ConnectProxyAside, CalmAside

LEMMA CalmProxyDisconnect ==
    ASSUME NEW c, Good(c)
    PROVE  Calm(c, ProxyDisconnect(c)) /\ ProxyDisconnect(c).state = c.state
BY ProxyDisconnectAside, CalmAside

LEMMA CalmQueue ==
    ASSUME NEW c, Good(c), NEW q, Ops(q)
    PROVE  Calm(c, [c EXCEPT !.queue = q]) /\ [c EXCEPT !.queue = q].state = c.state
BY QueueAside, CalmAside

LEMMA CalmEnqueue ==
    ASSUME NEW c, Good(c), NEW ops, Ops(ops)
    PROVE  Calm(c, Enqueue(c, ops)) /\ Enqueue(c, ops).state = c.state
BY EnqueueAside, CalmAside

LEMMA CalmCleanAll ==
    ASSUME NEW c, Good(c)
    PROVE  Calm(c, CleanAll(c)) /\ CleanAll(c).state = c.state
BY CalmQueue, OpsEmpty DEF CleanAll

LEMMA CalmClean ==
    ASSUME NEW c, Good(c), NEW a
    PROVE  Calm(c, Clean(c, a)) /\ Clean(c, a).state = c.state
BY CleanAside, CalmAside

LEMMA CalmResetNode ==
    ASSUME NEW c, Good(c), NEW a
    PROVE  Calm(c, ResetNode(c, a))
<1> DEFINE d == Clean(c, a)
           e == ResetNode(c, a)
<1>1. Calm(c, d)
  BY CalmClean
<1> DEFINE ops == <<Msg("NODE_RESET", a), Msg("REFRESH", Local)>>
<1>2. e = [d EXCEPT !.retries = 0, !.db = Blocking(@, a), !.queue = @ \o ops,
                    !.refresh = TRUE, !.state = "KEY_REFRESH", !.timer = TRUE]
  BY DEF ResetNode, Blocking
<1> HIDE DEF d, e
<1>3. Good(d) /\ Ops(d.queue \o ops)
  <2>1. Good(d)
    BY <1>1 DEF Calm
  <2>2. ops = <<Msg("NODE_RESET", a)>> \o <<Msg("REFRESH", Local)>>
    OBVIOUS
  <2>3. Ops(ops)
    BY <2>2, OpsOne, OpsConcat DEF OpKinds
  <2> HIDE DEF ops
  <2>4. QED
    BY <2>1, <2>3, OpsConcat DEF Good, IsClient
<1> HIDE DEF ops
<1>4. /\ IsClient(e) /\ e.db = Blocking(d.db, a) /\ e.plink = d.plink
      /\ (Connected(d) => Connected(e))
      /\ e.state = "KEY_REFRESH"
  BY <1>2, <1>3 DEF Good, IsClient, Connected, Aside, Beside
<1>5. Calm(d, e)
  BY <1>3, <1>4, BlockingOK DEF Calm, Good, Opening
<1>6. QED
  BY <1>1, <1>5, CalmChain DEF e

LEMMA CalmNotifyStatus ==
    ASSUME NEW c, Good(c), NEW status
    PROVE  Calm(c, NotifyStatus(c, status))
<1> DEFINE heard == IF c.completed_sent \/ status \notin {"SUCCESS", "FAILED"} THEN c
                    ELSE [c EXCEPT !.told[c.uuid] = status]
           resets == /\ status = "FAILED"
                     /\ c.last_status \in {"END", "CONFIGURING"}
                     /\ NodesAt(c, c.addr) # {}
           reset == IF resets THEN ResetNode(heard, c.addr) ELSE heard
           d == [reset EXCEPT !.last_status = status,
                              !.completed_sent = @ \/ status \in {"SUCCESS", "FAILED"}]
<1>1. NotifyStatus(c, status) = d
  BY DEF NotifyStatus
<1>2. Calm(c, heard)
  <2>1. Beside(c, heard) /\ heard.state = c.state
    BY DEF Good, IsClient, Connected, Beside
  <2>2. QED
    BY <2>1, CalmBeside
<1> HIDE DEF heard, resets
<1>3. Calm(c, reset)
  BY <1>2, CalmResetNode, CalmChain DEF Calm
<1> HIDE DEF reset
<1>4. Calm(reset, d)
  <2>1. Beside(reset, d) /\ d.state = reset.state
    BY <1>3 DEF Calm, Good, IsClient, Connected, Beside
  <2>2. QED
    BY <1>3, <2>1, CalmBeside DEF Calm
<1>5. QED
  BY <1>1, <1>3, <1>4, CalmChain

LEMMA CalmState ==
    ASSUME NEW c, Good(c), NEW s, s \notin Opening
    PROVE  Calm(c, [c EXCEPT !.state = s]) /\ [c EXCEPT !.state = s].state = s
BY StateAside, CalmAside

LEMMA CalmFail == ASSUME NEW c, Good(c) PROVE Calm(c, Fail(c))
<1>1. Calm(c, [c EXCEPT !.state = "IDLE"])
  BY CalmState DEF Opening
<1>2. Calm(c, CleanAll([c EXCEPT !.state = "IDLE"]))
  BY <1>1, CalmCleanAll, CalmChain DEF Calm
<1>3. QED
  BY <1>2, CalmNotifyStatus, CalmChain DEF Fail, Calm

LEMMA CalmConfigComplete ==
    ASSUME NEW c, Good(c), NEW a
    PROVE  Calm(c, ConfigComplete(c, a))
<1> DEFINE d == ConfigComplete(c, a)
<1>1. d = [c EXCEPT !.db = Completing(@, a)]
  BY DEF ConfigComplete, Completing
<1> HIDE DEF d
<1>2. /\ IsClient(d) /\ d.db = Completing(c.db, a) /\ d.plink = c.plink
      /\ (Connected(c) => Connected(d))
      /\ d.addr = c.addr /\ d.state = c.state
  BY <1>1 DEF Good, IsClient, Connected, Aside, Beside
<1>3. QED
  BY <1>2, CompletingOK DEF Calm, Good, d

LEMMA CalmExecute == ASSUME NEW c, Good(c) PROVE Calm(c, Execute(c))
<1> DEFINE timed == [c EXCEPT !.timer = TRUE]
           kept  == [c EXCEPT !.remote_comp = FALSE]
<1>1. Aside(c, timed) /\ timed.state = c.state
  BY DEF Good, IsClient, Connected, Aside, Beside
<1>2. Aside(c, kept) /\ kept.state = c.state
  BY DEF Good, IsClient, Connected, Aside, Beside
<1>3. Execute(c) = IF c.queue # <<>> THEN timed
                   ELSE IF c.remote_comp
                        THEN NotifyStatus(ConfigComplete(kept, c.addr), "SUCCESS") ELSE c
  BY DEF Execute
<1> HIDE DEF timed, kept
<1>4. Calm(c, timed) /\ Calm(c, kept)
  BY <1>1, <1>2, CalmAside
<1>5. Calm(c, ConfigComplete(kept, c.addr))
  BY <1>4, CalmConfigComplete, CalmChain DEF Calm
<1>6. Calm(c, NotifyStatus(ConfigComplete(kept, c.addr), "SUCCESS"))
  BY <1>5, CalmNotifyStatus, CalmChain DEF Calm
<1>7. QED
  BY <1>3, <1>4, <1>6, CalmSelf

LEMMA CalmQueueDone == ASSUME NEW c, Good(c) PROVE Calm(c, QueueDone(c))
<1>1. /\ Calm(c, [c EXCEPT !.state = "CONFIGURE_DISCONNECTING"])
      /\ Calm(c, [c EXCEPT !.state = "IDLE"])
  BY CalmState DEF Opening
<1>2. Calm(c, ProxyDisconnect([c EXCEPT !.state = "CONFIGURE_DISCONNECTING"]))
  BY <1>1, CalmProxyDisconnect, CalmChain DEF Calm
<1>3. Calm(c, [c EXCEPT !.state = "IDLE", !.proxy_addr = IF c.over_gatt THEN c.addr ELSE @])
  <2> DEFINE d == [c EXCEPT !.state = "IDLE", !.proxy_addr = IF c.over_gatt THEN c.addr ELSE @]
  <2>1. Aside(c, d) /\ d.state = "IDLE"
    BY DEF Good, IsClient, Connected, Aside, Beside
  <2>2. QED
    BY <2>1, CalmAside DEF Opening
<1>4. QED
  BY <1>1, <1>2, <1>3, CalmSelf DEF QueueDone

LEMMA CalmStartNextOp == ASSUME NEW c, Good(c) PROVE Calm(c, StartNextOp(c))
<1> DEFINE d == [c EXCEPT !.queue = IF @ = <<>> THEN @ ELSE Tail(@)]
<1>1. Calm(c, d)
  BY TailAside, CalmAside
<1> HIDE DEF d
<1>2. Calm(c, Execute(d))
  BY <1>1, CalmExecute, CalmChain DEF Calm
<1>3. Calm(c, QueueDone(Execute(d)))
  BY <1>2, CalmQueueDone, CalmChain DEF Calm
<1>4. QED
  BY <1>3 DEF StartNextOp, d

LEMMA CalmAddFilter == ASSUME NEW c, Good(c) PROVE Calm(c, AddFilter(c))
<1>1. Ops(<<FilterAdd>>)
  BY OpsOne DEF FilterAdd, OpKinds
<1>2. QED
  BY <1>1, CalmEnqueue, CalmExecute, CalmChain DEF AddFilter, Calm

-----------------------------------------------------------------------------
(* The handlers of statuses, failures and connections. *)

LEMMA CalmContinueRefresh == ASSUME NEW c, Good(c) PROVE Calm(c, ContinueRefresh(c))
<1> DEFINE d == Enqueue(c, <<Msg("REFRESH", Local)>>)
<1>1. Calm(c, d)
  BY CalmEnqueue, OpsOne DEF OpKinds
<1>2. ContinueRefresh(c) = [d EXCEPT !.state = "KEY_REFRESH"]
  BY DEF ContinueRefresh
<1> HIDE DEF d
<1>3. QED
  BY <1>1, <1>2, CalmState, CalmChain DEF Calm, Opening

LEMMA CalmRefreshDone ==
    ASSUME NEW c, Good(c), NEW finished
    PROVE  Calm(c, RefreshDone(c, finished))
<1> DEFINE d == [c EXCEPT !.state   = "IDLE",
                          !.refresh = @ /\ ~ finished,
                          !.db      = IF finished THEN {r \in @ : ~ r.blocked} ELSE @]
           kept == IF finished THEN {r \in c.db : ~ r.blocked} ELSE c.db
<1>1. /\ IsClient(d) /\ d.db = kept /\ d.plink = c.plink
      /\ (Connected(c) => Connected(d)) /\ d.state = "IDLE"
  BY DEF Good, IsClient, Connected, Aside, Beside
<1>2. RefreshDone(c, finished) = IF c.queue # <<>> THEN c ELSE d
  BY DEF RefreshDone
<1>3. kept \subseteq c.db
  OBVIOUS
<1> HIDE DEF d, kept
<1>4. Calm(c, d)
  BY <1>1, <1>3, SubsetOK DEF Calm, Good, Opening
<1>5. QED
  BY <1>2, <1>4, CalmSelf

LEMMA CalmRefreshStatus ==
    ASSUME NEW c, Good(c), NEW r, NEW finished
    PROVE  Calm(c, RefreshStatus(c, r, finished))
<1> DEFINE next == IF HeadIsFilter(c) THEN StartNextOp(c) ELSE c
<1>1. Calm(c, StartNextOp(c)) /\ Calm(c, next)
  BY CalmStartNextOp, CalmSelf
<1> HIDE DEF next
<1>2. Calm(c, Execute(next))
  BY <1>1, CalmExecute, CalmChain DEF Calm
<1>3. /\ Calm(c, RefreshDone(Execute(next), finished))
      /\ Calm(c, RefreshDone(StartNextOp(c), finished))
  BY <1>1, <1>2, CalmRefreshDone, CalmChain DEF Calm
<1>4. QED
  BY <1>3, CalmSelf DEF RefreshStatus, next

LEMMA CalmRefreshTxFailed ==
    ASSUME NEW c, Good(c), NEW m, NEW finished
    PROVE  Calm(c, RefreshTxFailed(c, m, finished))
<1>1. Calm(c, Clean(c, m.dst))
  BY CalmClean
<1>2. Calm(c, Execute(Clean(c, m.dst))) /\ Calm(c, RefreshDone(Clean(c, m.dst), finished))
  BY <1>1, CalmExecute, CalmRefreshDone, CalmChain DEF Calm
<1>3. QED
  BY <1>2, CalmSelf DEF RefreshTxFailed

LEMMA CalmRetries ==
    ASSUME NEW c, Good(c), NEW n
    PROVE  Calm(c, [c EXCEPT !.retries = n]) /\ [c EXCEPT !.retries = n].state = c.state
BY RetriesAside, CalmAside

LEMMA CalmRefreshLink ==
    ASSUME NEW c, Good(c), NEW up
    PROVE  Calm(c, RefreshLink(c, up))
<1> DEFINE again == [c EXCEPT !.retries = @ + 1]
<1>1. again = [c EXCEPT !.retries = c.retries + 1]
  BY DEF Good, IsClient
<1>2. Calm(c, again)
  BY <1>1, CalmRetries
<1>3. RefreshLink(c, up) = IF up THEN AddFilter(c)
                           ELSE IF c.retries < MAX_CONNECT_RETRIES - 1
                                THEN ConnectProxy(again, "net")
                                ELSE [again EXCEPT !.state = "IDLE"]
  BY DEF RefreshLink
<1> HIDE DEF again
<1>4. Calm(c, ConnectProxy(again, "net")) /\ Calm(c, [again EXCEPT !.state = "IDLE"])
  BY <1>2, CalmConnectProxy, CalmState, CalmChain DEF Calm, Opening
<1>5. QED
  BY <1>3, <1>4, CalmAddFilter

LEMMA CalmKeyStatus ==
    ASSUME NEW c, Good(c), NEW r
    PROVE  Calm(c, KeyStatus(c, r))
<1> DEFINE next      == StartNextOp(c)
           continued == IF next.queue = <<>> THEN ContinueRefresh(next) ELSE next
           idle      == [c EXCEPT !.state = "IDLE"]
<1>1. Calm(c, next) /\ Calm(c, idle)
  BY CalmStartNextOp, CalmState DEF Opening
<1>2. KeyStatus(c, r) \in {Execute(continued), c, NotifyStatus(Clean(idle, r.src), "FAILED"), next}
  BY DEF KeyStatus
<1> HIDE DEF next, idle
<1>3. Calm(c, continued)
  BY <1>1, CalmContinueRefresh, CalmChain DEF Calm
<1> HIDE DEF continued
<1>4. Calm(c, Execute(continued))
  BY <1>3, CalmExecute, CalmChain DEF Calm
<1>5. Calm(c, Clean(idle, r.src))
  BY <1>1, CalmClean, CalmChain DEF Calm
<1>6. Calm(c, NotifyStatus(Clean(idle, r.src), "FAILED"))
  BY <1>5, CalmNotifyStatus, CalmChain DEF Calm
<1>7. QED
  BY <1>1, <1>2, <1>4, <1>6, CalmSelf

LEMMA CalmBindStatus ==
    ASSUME NEW c, Good(c), NEW r
    PROVE  Calm(c, BindStatus(c, r))
<1> DEFINE idle    == [c EXCEPT !.state = "IDLE"]
           stopped == Clean(idle, r.src)
<1>1. Calm(c, idle)
  BY CalmState DEF Opening
<1>2. BindStatus(c, r) \in {c, stopped, ResetNode(stopped, r.src), StartNextOp(c)}
  BY DEF BindStatus
<1> HIDE DEF idle
<1>3. Calm(c, stopped)
  BY <1>1, CalmClean, CalmChain DEF Calm
<1> HIDE DEF stopped
<1>4. Calm(c, ResetNode(stopped, r.src))
  BY <1>3, CalmResetNode, CalmChain DEF Calm
<1>5. QED
  BY <1>2, <1>3, <1>4, CalmStartNextOp, CalmSelf

LEMMA CalmFilterStatus ==
    ASSUME NEW c, Good(c), NEW r
    PROVE  Calm(c, FilterStatus(c, r))
<1> DEFINE next == StartNextOp(c)
           d    == [next EXCEPT !.proxy_addr = r.src, !.over_gatt = TRUE]
<1>1. Calm(c, next)
  BY CalmStartNextOp
<1> HIDE DEF next
<1>2. Aside(next, d) /\ d.state = next.state
  BY <1>1 DEF Calm, Good, IsClient, Connected, Aside, Beside
<1>3. Calm(next, d)
  BY <1>1, <1>2, CalmAside DEF Calm
<1> HIDE DEF d
<1>4. FilterStatus(c, r) \in {c, d}
  BY DEF FilterStatus, d, next
<1>5. QED
  BY <1>1, <1>3, <1>4, CalmChain, CalmSelf

LEMMA CalmConfigStatus ==
    ASSUME NEW c, Good(c), NEW r
    PROVE  Calm(c, ConfigStatus(c, r))
<1>1. Calm(c, SetStatus(c, r))
  BY CalmStartNextOp, CalmSelf DEF SetStatus
<1>2. QED
  BY <1>1, CalmKeyStatus, CalmBindStatus, CalmSelf DEF ConfigStatus

LEMMA CalmCompositionStatus ==
    ASSUME NEW c, Good(c), NEW r
    PROVE  Calm(c, CompositionStatus(c, r))
<1> DEFINE told  == NotifyStatus(c, "CONFIGURING")
           taken == [told EXCEPT !.remote_comp = TRUE]
           conf  == [taken EXCEPT !.state = "CONFIGURATION"]
<1>1. Calm(c, told)
  BY CalmNotifyStatus
<1>2. CompositionStatus(c, r) = IF NodesAt(told, r.src) = {} THEN NotifyStatus(told, "FAILED")
                                ELSE Execute(Enqueue(conf, ConfigOps(taken)))
  BY DEF CompositionStatus, ConfigureRemote
<1> HIDE DEF told
<1>3. Calm(c, taken)
  <2>1. Aside(told, taken) /\ taken.state = told.state
    BY <1>1 DEF Calm, Good, IsClient, Connected, Aside, Beside
  <2>2. QED
    BY <1>1, <2>1, CalmAside, CalmChain, CalmTrusts
<1> HIDE DEF taken
<1>4. Calm(c, conf)
  BY <1>3, CalmState, CalmChain DEF Calm, Opening
<1> HIDE DEF conf
<1>5. Calm(c, Execute(Enqueue(conf, ConfigOps(taken))))
  <2>1. Calm(conf, Enqueue(conf, ConfigOps(taken)))
    BY <1>4, CalmEnqueue, CalmTrusts, OpsOfConfiguration
  <2>2. QED
    BY <1>4, <2>1, CalmExecute, CalmChain DEF Calm
<1>6. Calm(c, NotifyStatus(told, "FAILED"))
  BY <1>1, CalmNotifyStatus, CalmChain DEF Calm
<1>7. QED
  BY <1>2, <1>5, <1>6

LEMMA CalmNetworkConnected ==
    ASSUME NEW c, Good(c), NEW r
    PROVE  Calm(c, NetworkConnected(c, r))
<1> DEFINE q      == IF HeadIsFilter(c) THEN Tail(c.queue) ELSE c.queue
           idle   == [c EXCEPT !.state = "IDLE",
                               !.queue = IF HeadIsFilter(c) THEN Tail(@) ELSE @]
           reset  == IF \E n \in NodesAt(c, r.src) : n.blocked
                     THEN Enqueue(idle, <<Msg("NODE_RESET", r.src)>>) ELSE idle
           resume == IF c.refresh THEN ContinueRefresh(reset) ELSE reset
<1>1. Calm(c, idle)
  <2>1. Ops(q)
    BY OpsTail DEF HeadIsFilter, HeadIs, Good, IsClient
  <2>2. idle = [c EXCEPT !.state = "IDLE", !.queue = q]
    BY DEF Good, IsClient
  <2> HIDE DEF q, idle
  <2>3. Aside(c, idle) /\ idle.state = "IDLE"
    BY <2>1, <2>2 DEF Good, IsClient, Connected, Aside, Beside
  <2>4. QED
    BY <2>3, CalmAside DEF Opening
<1>2. NetworkConnected(c, r) \in {Execute(resume), resume}
  BY DEF NetworkConnected
<1> HIDE DEF idle
<1>3. Calm(c, reset)
  <2>1. Ops(<<Msg("NODE_RESET", r.src)>>)
    BY OpsOne DEF OpKinds
  <2>2. QED
    BY <1>1, <2>1, CalmEnqueue, CalmChain DEF Calm
<1> HIDE DEF reset
<1>4. Calm(c, resume)
  BY <1>3, CalmContinueRefresh, CalmChain DEF Calm
<1> HIDE DEF resume
<1>5. QED
  BY <1>2, <1>4, CalmExecute, CalmChain DEF Calm

LEMMA CalmCountAnew ==
    ASSUME NEW c, Good(c)
    PROVE  Calm(c, CountAnew(c))
BY CalmRetries, CalmSelf DEF CountAnew

LEMMA CalmStatus ==
    ASSUME NEW client, Good(client), NEW r, NEW finished
    PROVE  Calm(client, Status(client, r, finished))
<1> DEFINE c == IF r.kind = "FILTER_ADD" THEN [client EXCEPT !.proxy_addr = r.src] ELSE client
<1>1. Aside(client, c) /\ c.state = client.state
  BY DEF Good, IsClient, Connected, Aside, Beside
<1>2. Status(client, r, finished) \in
        {c, CompositionStatus(c, r), ConfigStatus(c, r), CountAnew(FilterStatus(c, r)),
         CountAnew(ConfigStatus(c, r)), NetworkConnected(c, r), IdentityStatus(c),
         [c EXCEPT !.state = "IDLE"], RefreshStatus(c, r, finished)}
  BY DEF Status
<1> HIDE DEF c
<1>3. Calm(client, c)
  BY <1>1, CalmAside
<1>4. Good(c)
  BY <1>3 DEF Calm
<1>5. /\ Calm(c, c) /\ Calm(c, CompositionStatus(c, r)) /\ Calm(c, ConfigStatus(c, r))
      /\ Calm(c, FilterStatus(c, r)) /\ Calm(c, NetworkConnected(c, r))
      /\ Calm(c, [c EXCEPT !.state = "IDLE"]) /\ Calm(c, RefreshStatus(c, r, finished))
      /\ Calm(c, [c EXCEPT !.state = "WAIT_DISCONNECT"])
  BY <1>4, CalmSelf, CalmCompositionStatus, CalmConfigStatus, CalmFilterStatus,
     CalmNetworkConnected, CalmState, CalmRefreshStatus DEF Opening
<1>6. Calm(c, CountAnew(FilterStatus(c, r))) /\ Calm(c, CountAnew(ConfigStatus(c, r)))
  BY <1>5, CalmCountAnew, CalmChain DEF Calm
<1>7. Calm(c, IdentityStatus(c))
  <2> DEFINE waiting == [c EXCEPT !.state = "WAIT_DISCONNECT"]
  <2>1. IdentityStatus(c) = ProxyDisconnect(waiting)
    BY DEF IdentityStatus
  <2>2. Calm(c, waiting)
    BY <1>5
  <2> HIDE DEF waiting
  <2>3. Good(waiting)
    BY <2>2 DEF Calm
  <2>4. QED
    BY <2>1, <2>2, <2>3, CalmProxyDisconnect, CalmChain
<1>8. Calm(c, Status(client, r, finished))
  BY <1>2, <1>5, <1>6, <1>7
<1>9. QED
  BY <1>3, <1>8, CalmChain

LEMMA CalmTxFailed ==
    ASSUME NEW c, Good(c), NEW m, NEW finished
    PROVE  Calm(c, TxFailed(c, m, finished))
<1>1. Calm(c, Unreachable(c, m))
  BY CalmProxyDisconnect, CalmFail DEF Unreachable
<1>2. Calm(c, ReconfigUnreachable(c, m))
  <2>1. Calm(c, Clean(c, m.dst))
    BY CalmClean
  <2>2. Calm(c, Execute(Clean(c, m.dst))) /\ Calm(c, [Clean(c, m.dst) EXCEPT !.state = "IDLE"])
    BY <2>1, CalmExecute, CalmState, CalmChain DEF Calm, Opening
  <2>3. QED
    BY <2>2 DEF ReconfigUnreachable
<1>3. Calm(c, [c EXCEPT !.state = "IDLE"])
  BY CalmState DEF Opening
<1>4. QED
  BY <1>1, <1>2, <1>3, CalmRefreshTxFailed, CalmSelf DEF TxFailed

\* A proxy connection that is opened, or the next attempt, while a node is connected to.
LEMMA CalmNodeConnecting ==
    ASSUME NEW c, Good(c), c.state \notin Opening, NEW up
    PROVE  Calm(c, NodeConnecting(c, up))
<1> DEFINE first == [c EXCEPT !.retries = 1]
           more  == [c EXCEPT !.retries = @ + 1]
           idle  == [c EXCEPT !.retries = 0, !.state = "IDLE"]
           get   == [c EXCEPT !.state = "GET_REMOTE_COMPOSITION_DATA"]
<1>1. Calm(c, first) /\ Calm(c, more) /\ Calm(c, get)
  <2>1. more = [c EXCEPT !.retries = c.retries + 1]
    BY DEF Good, IsClient
  <2>2. QED
    BY <2>1, CalmRetries, CalmState DEF Opening
<1>2. Calm(c, idle)
  <2>1. Aside(c, idle) /\ idle.state = "IDLE"
    BY DEF Good, IsClient, Connected, Aside, Beside
  <2>2. QED
    BY <2>1, CalmAside DEF Opening
<1>3. NodeConnecting(c, up) \in
        {get, ConnectProxy(first, "node"), ConnectProxy(more, "net"), NotifyStatus(idle, "FAILED")}
  BY DEF NodeConnecting
<1> HIDE DEF first, more, idle, get
<1>4. /\ Calm(c, ConnectProxy(first, "node")) /\ Calm(c, ConnectProxy(more, "net"))
      /\ Calm(c, NotifyStatus(idle, "FAILED"))
  BY <1>1, <1>2, CalmConnectProxy, CalmNotifyStatus, CalmChain DEF Calm
<1>5. QED
  BY <1>1, <1>3, <1>4

LEMMA CalmConfigLink ==
    ASSUME NEW c, Good(c), NEW up
    PROVE  Calm(c, ConfigLink(c, up))
<1> DEFINE one == [c EXCEPT !.retries = @ + 1]
           two == [c EXCEPT !.retries = @ + 2]
<1>1. Calm(c, one) /\ Calm(c, two)
  <2>1. one = [c EXCEPT !.retries = c.retries + 1] /\ two = [c EXCEPT !.retries = c.retries + 2]
    BY DEF Good, IsClient
  <2>2. QED
    BY <2>1, CalmRetries
<1>2. ConfigLink(c, up) \in
        {Execute(c), ConnectProxy(one, "node"), ConnectProxy(two, "net"), Fail(two)}
  BY DEF ConfigLink
<1> HIDE DEF one, two
<1>3. /\ Calm(c, Execute(c)) /\ Calm(c, ConnectProxy(one, "node"))
      /\ Calm(c, ConnectProxy(two, "net")) /\ Calm(c, Fail(two))
  BY <1>1, CalmConnectProxy, CalmExecute, CalmFail, CalmChain DEF Calm
<1>4. QED
  BY <1>2, <1>3

LEMMA CalmProxyStatus ==
    ASSUME NEW c, Good(c), c.state # "CONNECTING", NEW up
    PROVE  Calm(c, ProxyStatus(c, up))
<1> DEFINE node    == [c EXCEPT !.state = "NODE_CONNECTING"]
           idle    == [c EXCEPT !.state = "IDLE"]
           wait    == [c EXCEPT !.state = "WAIT_CONNECT"]
           reached == IF up THEN AddFilter(c) ELSE ConnectProxy(c, "node")
           rested  == [reached EXCEPT !.state = "IDLE"]
<1>1. ProxyStatus(c, up) \in
        {NodeConnecting(node, up), ConfigLink(c, up), idle, AddFilter(c), rested, c,
         ConnectProxy(wait, "node"), RefreshLink(c, up)}
  BY DEF ProxyStatus
<1>2. Calm(c, node) /\ Calm(c, idle) /\ Calm(c, wait) /\ node.state \notin Opening
  BY CalmState DEF Opening
<1>3. Calm(c, AddFilter(c)) /\ Calm(c, reached)
  BY CalmAddFilter, CalmConnectProxy
<1> HIDE DEF node, idle, wait, reached
<1>4. Calm(c, rested)
  BY <1>3, CalmState, CalmChain DEF Calm, Opening
<1>5. Calm(c, NodeConnecting(node, up)) /\ Calm(c, ConnectProxy(wait, "node"))
  BY <1>2, CalmNodeConnecting, CalmConnectProxy, CalmChain DEF Calm
<1>6. Calm(c, ConfigLink(c, up)) /\ Calm(c, RefreshLink(c, up)) /\ Calm(c, c)
  BY CalmConfigLink, CalmRefreshLink, CalmSelf
<1> HIDE DEF rested
<1>7. QED
  BY <1>1, <1>2, <1>3, <1>4, <1>5, <1>6

-----------------------------------------------------------------------------
(***************************************************************************)
(* The address of the device that is being provisioned stays free: it is    *)
(* not given away, and no node is created, until the end of provisioning.   *)
(***************************************************************************)
Free(c) ==
    /\ Good(c)
    /\ c.state = "CONNECTING" => c.plink.st # "started"
    /\ c.state = "PROVISIONING" /\ c.plink.st = "started" =>
          c.addr \in Unicast /\ NodesAt(c, c.addr) = {}

LEMMA FreeCalm ==
    ASSUME NEW c, Free(c), NEW d, Calm(c, d)
    PROVE  Free(d)
BY DEF Free, Calm, NoNew, NodesAt, Opening

\* With no provisioning link under way nothing is asked of the address.
LEMMA FreeLinkless ==
    ASSUME NEW c, Good(c), c.plink.st # "started" \/ c.state \notin Opening
    PROVE  Free(c)
BY DEF Free, Opening

\* A client whose provisioning link alone is another one.
LEMMA GoodLink ==
    ASSUME NEW c, Good(c), NEW d, IsClient(d), d.db = c.db
    PROVE  Good(d)
BY DEF Good

LEMMA FreeProvisionConnect ==
    ASSUME NEW c, Good(c)
    PROVE  Free(ProvisionConnect(c)) /\ ProvisionConnect(c).db = c.db
<1> DEFINE d == ProvisionConnect(c)
<1>1. IsClient(d) /\ d.db = c.db /\ d.plink.st = "connecting"
  BY DEF ProvisionConnect, Good, IsClient, Down
<1>2. QED
  BY <1>1, GoodLink, FreeLinkless

LEMMA FreeProxyStatus ==
    ASSUME NEW c, Free(c), NEW up
    PROVE  Free(ProxyStatus(c, up))
<1>1. Good(c)
  BY DEF Free
<1>2. CASE c.state = "CONNECTING"
  <2>1. ProxyStatus(c, up) = NotifyStatus(ProvisionConnect(c), "CONNECTING")
    BY <1>2 DEF ProxyStatus
  <2>2. Free(ProvisionConnect(c))
    BY <1>1, FreeProvisionConnect
  <2>3. QED
    BY <2>1, <2>2, CalmNotifyStatus, FreeCalm DEF Free
<1>3. CASE c.state # "CONNECTING"
  BY <1>1, <1>3, CalmProxyStatus, FreeCalm
<1>4. QED
  BY <1>2, <1>3

\* The end of a provisioning link, whether it was opened or not, is not that of a
\* started one.
LEMMA FreeProvisionAgain ==
    ASSUME NEW c, Good(c), c.plink.st # "started"
    PROVE  Free(ProvisionAgain(c))
<1> DEFINE again == [c EXCEPT !.retries = @ + 1, !.state = "CONNECTING"]
           idle  == [c EXCEPT !.retries = @ + 1, !.state = "IDLE"]
<1>1. /\ IsClient(again) /\ again.db = c.db
      /\ Aside(c, idle) /\ idle.state = "IDLE"
  BY DEF Good, IsClient, Connected, Aside, Beside
<1>2. ProvisionAgain(c) \in {ProvisionConnect(again), NotifyStatus(idle, "FAILED")}
  BY DEF ProvisionAgain
<1> HIDE DEF again, idle
<1>3. Free(ProvisionConnect(again))
  BY <1>1, GoodLink, FreeProvisionConnect
<1>4. Calm(c, idle)
  BY <1>1, CalmAside DEF Opening
<1>5. Calm(c, NotifyStatus(idle, "FAILED"))
  BY <1>4, CalmNotifyStatus, CalmChain DEF Calm
<1>6. QED
  BY <1>2, <1>3, <1>5, FreeLinkless, FreeCalm

LEMMA FreeLinkReport ==
    ASSUME NEW c, Good(c), c.plink.st # "started", NEW open
    PROVE  Free(LinkReport(c, open))
<1> DEFINE over == [c EXCEPT !.over_gatt = TRUE]
           node == [c EXCEPT !.state = "NODE_CONNECTING", !.retries = 0]
<1>1. Aside(c, over) /\ over.state = c.state
  BY DEF Good, IsClient, Connected, Aside, Beside
<1>2. Aside(c, node) /\ node.state = "NODE_CONNECTING"
  BY DEF Good, IsClient, Connected, Aside, Beside
<1>3. LinkReport(c, open) \in {over, ProvisionAgain(c), c, ConnectProxy(node, "node")}
  BY DEF LinkReport
<1> HIDE DEF over, node
<1>4. Free(c) /\ Free(ProvisionAgain(c))
  BY FreeLinkless, FreeProvisionAgain
<1>5. Calm(c, over) /\ Calm(c, node)
  BY <1>1, <1>2, CalmAside DEF Opening
<1>6. Calm(c, ConnectProxy(node, "node"))
  BY <1>5, CalmConnectProxy, CalmChain DEF Calm
<1>7. QED
  BY <1>3, <1>4, <1>5, <1>6, FreeCalm

LEMMA FreeDeviceCaps ==
    ASSUME NEW c, Good(c)
    PROVE  Free(DeviceCaps(c))
<1> DEFINE a == FreeAddress(c)
           d == [c EXCEPT !.state = "PROVISIONING", !.addr = a,
                          !.plink.st = "started", !.plink.addr = a]
<1>1. a \in Nat /\ a \in Unicast /\ NodesAt(c, a) = {}
  BY FreeAddressIsFree DEF Unicast
<1>2. DeviceCaps(c) = NotifyStatus(d, "PROVISIONING")
  BY DEF DeviceCaps
<1> HIDE DEF a
<1>3. IsClient(d) /\ d.db = c.db /\ d.state = "PROVISIONING" /\ d.addr = a
  BY <1>1 DEF Good, IsClient
<1> HIDE DEF d
<1>4. Free(d)
  BY <1>1, <1>3, GoodLink DEF Free, NodesAt
<1>5. QED
  BY <1>2, <1>4, CalmNotifyStatus, FreeCalm DEF Free

\* The node that provisioning creates takes an address no other node has, and the
\* record its device may have had is gone.
LEMMA CreatedOK ==
    ASSUME NEW db, DbOK(db), NEW d \in Devices \cup {NoDevice}, NEW a \in Unicast,
           \A r \in db : r.addr # a
    PROVE  DbOK({r \in db : r.uuid # d} \cup {Record(d, a)})
<1> DEFINE kept == {r \in db : r.uuid # d}
<1>1. DbOK(kept) /\ kept \subseteq db
  BY SubsetOK
<1>2. Record(d, a) \in Records /\ Record(d, a).addr = a /\ Record(d, a).uuid = d
  BY DEF Record, Records
<1>3. IsFiniteSet(kept \cup {Record(d, a)})
  BY <1>1, FS_Singleton, FS_Union DEF DbOK
<1>4. \A r \in kept : r.addr # a /\ r.uuid # d
  OBVIOUS
<1> HIDE DEF kept
<1>5. Unique(kept \cup {Record(d, a)})
  BY <1>1, <1>2, <1>4 DEF DbOK, Unique
<1>6. QED
  BY <1>1, <1>2, <1>3, <1>5 DEF DbOK, kept

LEMMA FreeProvisionEnd ==
    ASSUME NEW c, Good(c), c.plink.st # "started", c.addr \in Unicast,
           NodesAt(c, c.addr) = {}, NEW ok
    PROVE  Free(ProvisionEnd(c, ok))
<1> DEFINE db      == {r \in c.db : r.uuid # c.uuid} \cup {Record(c.uuid, c.addr)}
           created == [c EXCEPT !.db = db]
           told    == NotifyStatus(created, "END")
           failed  == NotifyStatus(c, "FAILED")
           wait    == [told EXCEPT !.state = "PROVISION_DISCONNECTING"]
           node    == [told EXCEPT !.state = "NODE_CONNECTING", !.retries = 0]
           get     == [told EXCEPT !.state = "GET_REMOTE_COMPOSITION_DATA"]
           idle    == [failed EXCEPT !.state = "IDLE"]
<1>1. created = [c EXCEPT !.db = {r \in @ : r.uuid # c.uuid} \cup {Record(c.uuid, c.addr)}]
  BY DEF Good, IsClient
<1>2. ProvisionEnd(c, ok) \in {idle, wait, ConnectProxy(node, "node"), get}
  BY <1>1 DEF ProvisionEnd
<1>3. DbOK(db)
  BY CreatedOK DEF Good, IsClient, NodesAt
<1> HIDE DEF db
<1>4. IsClient(created) /\ created.db = db
  BY DEF Good, IsClient
<1> HIDE DEF created
<1>5. Good(created)
  BY <1>3, <1>4 DEF Good
<1>6. Good(told) /\ Calm(c, failed)
  BY <1>5, CalmNotifyStatus DEF Calm
<1> HIDE DEF told, failed
<1>7. Calm(told, wait) /\ Calm(told, get) /\ Calm(failed, idle)
      /\ wait.state \notin Opening /\ get.state \notin Opening /\ idle.state \notin Opening
  BY <1>6, CalmState DEF Opening, Calm
<1>8. Calm(told, node) /\ node.state \notin Opening
  <2>1. Aside(told, node) /\ node.state = "NODE_CONNECTING"
    BY <1>6 DEF Good, IsClient, Connected, Aside, Beside
  <2>2. QED
    BY <1>6, <2>1, CalmAside DEF Opening
<1> HIDE DEF wait, get, idle, node
<1>9. Good(ConnectProxy(node, "node")) /\ ConnectProxy(node, "node").state \notin Opening
  BY <1>8, CalmConnectProxy DEF Calm
<1>10. QED
  BY <1>2, <1>7, <1>8, <1>9, FreeLinkless DEF Calm

LEMMA FreeProvisionStart ==
    ASSUME NEW c, Good(c), c.plink.st # "started", NEW d \in Devices
    PROVE  Free(ProvisionStart(c, d))
<1> DEFINE clean == CleanAll(c)
           start == [clean EXCEPT
                        !.uuid = d, !.completed_sent = FALSE, !.remote_comp = FALSE,
                        !.state = "CONNECTING", !.over_gatt = FALSE, !.retries = 0,
                        !.told[d] = "pending"]
<1>1. ProvisionStart(c, d) \in
        {ProxyDisconnect(start), NotifyStatus(ProvisionConnect(start), "CONNECTING")}
  BY DEF ProvisionStart
<1>2. Good(clean) /\ clean.plink = c.plink /\ (Connected(c) => Connected(clean))
  BY CalmCleanAll DEF Calm, Connected, Aside, Beside
<1> HIDE DEF clean
<1>3. /\ IsClient(start) /\ start.db = clean.db /\ start.plink = c.plink
      /\ (Connected(c) => Connected(start))
  BY <1>2 DEF Good, IsClient, Connected, Aside, Beside
<1> HIDE DEF start
<1>4. Free(start)
  BY <1>2, <1>3, GoodLink, FreeLinkless
<1>5. Free(ProxyDisconnect(start))
  BY <1>4, CalmProxyDisconnect, FreeCalm DEF Free
<1>6. Free(ProvisionConnect(start))
  BY <1>4, FreeProvisionConnect DEF Free
<1>7. Free(NotifyStatus(ProvisionConnect(start), "CONNECTING"))
  BY <1>6, CalmNotifyStatus, FreeCalm DEF Free
<1>8. QED
  BY <1>1, <1>5, <1>7

LEMMA FreeInit == Free(ClientInit)
<1> DEFINE node(i) == [Record(Known[i], i + 1) EXCEPT !.complete = TRUE]
           I  == DOMAIN Known
           db == {node(i) : i \in I}
<1>1. I = 1 .. Len(Known) /\ Len(Known) \in Nat /\ \A i \in I : Known[i] \in Devices /\ i \in Nat
  BY ProvisioningAssumption
<1>2. \A i \in I : node(i) \in Records /\ node(i).addr = i + 1 /\ node(i).uuid = Known[i]
  <2>1. \A i \in I : Known[i] \in Devices /\ i + 1 \in Unicast
    BY <1>1 DEF Unicast, Local
  <2>2. ASSUME NEW i \in I
        PROVE  node(i) \in Records /\ node(i).addr = i + 1 /\ node(i).uuid = Known[i]
    <3> DEFINE d == Known[i]
               a == i + 1
               r == node(i)
    <3>1. d \in Devices /\ a \in Unicast /\ r = [Record(d, a) EXCEPT !.complete = TRUE]
      BY <2>1
    <3> HIDE DEF d, a, r
    <3>2. r \in Records /\ r.addr = a /\ r.uuid = d
      BY <3>1 DEF Record, Records
    <3>3. QED
      BY <3>2 DEF d, a, r
  <2>3. QED
    BY <2>2
<1>3. IsFiniteSet(db)
  <2> DEFINE f == [i \in I |-> node(i)]
  <2>1. IsFiniteSet(I)
    BY <1>1, FS_Interval
  <2>2. f \in [I -> db] /\ \A t \in db : \E i \in I : f[i] = t
    OBVIOUS
  <2> HIDE DEF f, db
  <2>3. QED
    BY <2>1, <2>2, FiniteImage
<1>4. Unique(db)
  <2> SUFFICES ASSUME NEW i \in I, NEW j \in I, node(i) # node(j)
               PROVE  node(i).addr # node(j).addr /\ node(i).uuid # node(j).uuid
    BY DEF Unique
  <2>1. i # j
    OBVIOUS
  <2>2. i + 1 # j + 1 /\ Known[i] # Known[j]
    BY <1>1, <2>1, ProvisioningAssumption
  <2> HIDE DEF node
  <2>3. QED
    BY <1>2, <2>2
<1>5. DbOK(db)
  BY <1>2, <1>3, <1>4 DEF DbOK
<1>6. ClientInit.db = db
  BY DEF ClientInit
<1> HIDE DEF node, I, db
<1>7. IsClient(ClientInit) /\ ClientInit.state = "IDLE"
  BY OpsEmpty DEF ClientInit, IsClient, Down, PbDown, NoDevice
<1>8. QED
  BY <1>5, <1>6, <1>7 DEF Free, Good

-----------------------------------------------------------------------------
(* The actions. *)

LEMMA FreeUser ==
    ASSUME TRUE \notin Overlaps, Free(cl), User
    PROVE  Free(cl')
<1>1. Good(cl)
  BY DEF Free
<1>2. ASSUME NEW d \in Devices, Provision(d) PROVE Free(cl')
  BY <1>1, <1>2, FreeProvisionStart DEF Provision, Client
<1>3. ASSUME NEW d \in Devices, FactoryReset(d) PROVE Free(cl')
  BY <1>3 DEF FactoryReset
<1>4. CASE ConnectNetwork
  <2> DEFINE c == [cl EXCEPT !.state = "NETWORK_CONNECT"]
  <2>1. Calm(cl, c)
    BY <1>1, CalmState DEF Opening
  <2>2. cl' = ConnectProxy(c, "net")
    BY <1>4 DEF ConnectNetwork, Client
  <2> HIDE DEF c
  <2>3. QED
    BY <2>1, <2>2, CalmConnectProxy, CalmChain, FreeCalm DEF Calm
<1>5. CASE DisconnectNetwork
  <2> DEFINE idle == [cl EXCEPT !.state = "IDLE"]
             off  == ProxyDisconnect(idle)
             c    == [off EXCEPT !.proxy_addr = 0]
  <2>1. Calm(cl, idle)
    BY <1>1, CalmState DEF Opening
  <2>2. cl' \in {c, idle}
    BY <1>5 DEF DisconnectNetwork
  <2> HIDE DEF idle
  <2>3. Calm(cl, off)
    BY <2>1, CalmProxyDisconnect, CalmChain DEF Calm
  <2> HIDE DEF off
  <2>4. Aside(off, c) /\ c.state = off.state
    BY <2>3 DEF Calm, Good, IsClient, Connected, Aside, Beside
  <2>5. Calm(off, c)
    BY <2>3, <2>4, CalmAside DEF Calm
  <2> HIDE DEF c
  <2>6. QED
    BY <2>1, <2>2, <2>3, <2>5, CalmChain, FreeCalm
<1>6. ASSUME NEW r \in cl.db, ConnectComponent(r) PROVE Free(cl')
  <2>1. r.addr \in Nat
    BY <1>1 DEF Good, DbOK, Records, Unicast
  <2>2. IsClient(cl') /\ cl'.db = cl.db /\ cl'.state = "WAIT_NODE_IDENTITY"
    BY <1>1, <1>6, <2>1 DEF ConnectComponent, Good, IsClient
  <2>3. QED
    BY <1>1, <2>2, GoodLink, FreeLinkless DEF Opening
<1>7. ASSUME NEW r \in cl.db, ConfigurePublication(r) PROVE Free(cl')
  <2> DEFINE clean == CleanAll(cl)
             c     == [clean EXCEPT !.state = "RECONFIGURATION"]
             ops   == <<Msg("SET", r.addr)>>
  <2>1. cl' = Execute(Enqueue(c, ops))
    BY <1>7 DEF ConfigurePublication, Client
  <2>2. Calm(cl, clean) /\ Ops(ops)
    BY <1>1, CalmCleanAll, OpsOne DEF OpKinds, ConfigKinds
  <2> HIDE DEF clean, ops
  <2>3. Calm(cl, c)
    BY <2>2, CalmState, CalmChain DEF Calm, Opening
  <2> HIDE DEF c
  <2>4. Calm(cl, Execute(Enqueue(c, ops)))
    BY <2>2, <2>3, CalmEnqueue, CalmExecute, CalmChain DEF Calm
  <2>5. QED
    BY <2>1, <2>4, FreeCalm
<1>8. QED
  BY <1>2, <1>3, <1>4, <1>5, <1>6, <1>7 DEF User

LEMMA FreeMessages ==
    ASSUME Free(cl), Messages
    PROVE  Free(cl')
<1>1. Good(cl)
  BY DEF Free
<1>2. CASE TimerFires
  <2>1. cl' = [cl EXCEPT !.timer = FALSE]
    BY <1>2 DEF TimerFires
  <2>2. Aside(cl, cl') /\ cl'.state = cl.state
    BY <1>1, <2>1 DEF Good, IsClient, Connected, Aside, Beside
  <2>3. QED
    BY <1>1, <2>2, CalmAside, FreeCalm
<1>3. ASSUME NEW m, NEW finished, MessageFails(m, finished) PROVE Free(cl')
  BY <1>1, <1>3, CalmTxFailed, FreeCalm DEF MessageFails
<1>4. ASSUME NEW a, NEW finished, AnswerArrives(a, finished) PROVE Free(cl')
  BY <1>1, <1>4, CalmStatus, FreeCalm DEF AnswerArrives
<1>5. QED
  BY <1>2, <1>3, <1>4 DEF Messages, DeviceHandles, LocalHandles, AnswerLost

LEMMA FreeConnections ==
    ASSUME Free(cl), Connections
    PROVE  Free(cl')
<1>1. Good(cl)
  BY DEF Free
<1>2. ASSUME NEW d \in Devices, ProxyUp(d) PROVE Free(cl')
  <2> DEFINE c == LinkUp(cl, dev[d].addr)
  <2>1. Aside(cl, c) /\ c.state = cl.state
    BY <1>1 DEF LinkUp, Good, IsClient, Connected, Aside, Beside
  <2>2. Free(c)
    BY <1>1, <2>1, CalmAside, FreeCalm
  <2>3. QED
    BY <1>2, <2>2, FreeProxyStatus DEF ProxyUp, Client
<1>3. CASE ProxyDown \/ ProxyLost
  <2> DEFINE c == LinkDown(cl)
  <2>1. IsClient(c) /\ c.db = cl.db /\ c.plink = cl.plink /\ c.addr = cl.addr
        /\ c.state = cl.state
    BY <1>1 DEF LinkDown, Down, Good, IsClient
  <2>2. Free(c)
    BY <1>1, <2>1, GoodLink DEF Free, NodesAt
  <2>3. cl' = ProxyStatus(c, FALSE)
    BY <1>3 DEF ProxyDown, ProxyLost, Disconnected
  <2> HIDE DEF c
  <2>4. QED
    BY <2>2, <2>3, FreeProxyStatus
<1> DEFINE opened == [cl EXCEPT !.plink.st = "open"]
           gone   == [cl EXCEPT !.plink = PbDown]
           ended  == [cl EXCEPT !.plink.st = "ended"]
           dull   == [cl EXCEPT !.plink.st = "stalled"]
<1>4. /\ Good(opened) /\ opened.plink.st = "open" /\ Good(gone) /\ gone.plink.st = "down"
      /\ Good(ended) /\ ended.plink.st = "ended" /\ Good(dull) /\ dull.plink.st = "stalled"
      /\ ended.db = cl.db /\ ended.addr = cl.addr /\ ended.state = cl.state
  BY <1>1 DEF Good, IsClient, PbDown
<1>5. CASE PbOpens \/ PbCloses \/ \E b \in BOOLEAN : PbLost(b)
  <2>1. cl' \in {LinkReport(opened, TRUE), LinkReport(gone, FALSE)}
    BY <1>5 DEF PbOpens, PbCloses, PbLost, PbStep, Client
  <2>2. \A c \in {opened, gone} : Good(c) /\ c.plink.st # "started"
    BY <1>4
  <2> HIDE DEF opened, gone
  <2>3. QED
    BY <2>1, <2>2, FreeLinkReport
<1>6. CASE PbCapabilities
  <2>1. cl' \in {DeviceCaps(cl), dull}
    BY <1>6 DEF PbCapabilities, PbStep, Client
  <2>2. Free(dull)
    BY <1>4, FreeLinkless
  <2> HIDE DEF dull
  <2>3. QED
    BY <1>1, <2>1, <2>2, FreeDeviceCaps
<1>7. ASSUME NEW ok \in BOOLEAN, PbEnd(ok) PROVE Free(cl')
  <2>1. /\ cl.plink.st = "started"
        /\ cl' = IF cl.state \in Opening THEN ProvisionEnd(ended, ok) ELSE ended
    BY <1>7 DEF PbEnd, PbStep, Client, Opening
  <2> HIDE DEF ended
  <2>2. ASSUME cl.state \in Opening PROVE ended.addr \in Unicast /\ NodesAt(ended, ended.addr) = {}
    BY <1>4, <2>1, <2>2 DEF Free, Opening, NodesAt
  <2>3. QED
    BY <1>4, <2>1, <2>2, FreeProvisionEnd, FreeLinkless
<1>8. QED
  BY <1>2, <1>3, <1>5, <1>6, <1>7 DEF Connections

-----------------------------------------------------------------------------
\* What provisioning, the configuration of a node, a reset and a refresh keep of the
\* database, however they interleave with lost connections and late answers: a node
\* is created at the end of a provisioning at an address that is free then
\* (wiced_bt_mesh_db_alloc_unicast_addr ran when the capabilities of the device
\* came), and the record its device had is deleted.  It takes that no provisioning is
\* asked for while the link of an earlier one is still there, which the code leaves
\* to the application.
THEOREM OneNodeAnAddress ==
    ASSUME TRUE \notin Overlaps
    PROVE  Spec => []DatabaseOK
<1>1. Init => Free(cl)
  BY FreeInit DEF Init
<1>2. Free(cl) /\ [Next]_vars => Free(cl)'
  <2> SUFFICES ASSUME Free(cl), [Next]_vars PROVE Free(cl')
    BY DEF Free, Good, IsClient, DbOK, Unique, NodesAt
  <2>1. CASE Next
    BY <2>1, FreeUser, FreeMessages, FreeConnections DEF Next
  <2>2. CASE UNCHANGED vars
    BY <2>2 DEF vars
  <2>3. QED
    BY <2>1, <2>2
<1>3. Free(cl) => DatabaseOK
  BY DEF Free, Good, DbOK, Unique, DatabaseOK
<1>4. QED
  BY <1>1, <1>2, <1>3, PTL DEF Spec
=============================================================================
