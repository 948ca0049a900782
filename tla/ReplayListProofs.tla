--------------------------- MODULE ReplayListProofs ---------------------------
(***************************************************************************)
(* What module ReplayList keeps for every number of devices, elements,      *)
(* addresses and messages: the sequence number of the client is fresh when  *)
(* no process ends inside mesh_del_seq, the file follows the replay list of *)
(* the core, a node is heard, and of the nodes that stay only the one that  *)
(* follows a device that is provisioned again is forgotten.                 *)
(***************************************************************************)
EXTENDS ReplayList, SequenceTheorems, TLAPS

(***************************************************************************)
(* The shape of the file and of what the core keeps.                       *)
(***************************************************************************)
FileOK(f) ==
    /\ f = [iv |-> f.iv, seq |-> f.seq]
    /\ f.iv \in Nat
    /\ f.seq \in [DOMAIN f.seq -> Nat]

CoreOK ==
    /\ core = [iv |-> core.iv, seq |-> core.seq, rpl |-> core.rpl]
    /\ core.iv \in Nat /\ core.seq \in Nat
    /\ core.rpl \in [Addresses -> Nat]

LEMMA SeqField ==
    ASSUME NEW f, FileOK(f), NEW g
    PROVE  [f EXCEPT !.seq = g] = [iv |-> f.iv, seq |-> g]
BY DEF FileOK

\* The three operations on the file keep its shape, and what they do to the records.
LEMMA SeqChangedFile ==
    ASSUME NEW f, FileOK(f), NEW a, NEW s \in Nat
    PROVE  /\ FileOK(SeqChanged(f, a, s))
           /\ SeqChanged(f, a, s).iv = f.iv
           /\ DOMAIN SeqChanged(f, a, s).seq = DOMAIN f.seq \cup {a}
           /\ \A b \in DOMAIN f.seq \cup {a} :
                SeqChanged(f, a, s).seq[b] = IF b = a THEN s ELSE f.seq[b]
<1> DEFINE g == [b \in DOMAIN f.seq \cup {a} |-> IF b = a THEN s ELSE f.seq[b]]
<1>1. SeqChanged(f, a, s) = [iv |-> f.iv, seq |-> g]
  BY DEF SeqChanged, FileOK
<1>2. /\ g \in [DOMAIN f.seq \cup {a} -> Nat] /\ DOMAIN g = DOMAIN f.seq \cup {a}
      /\ \A b \in DOMAIN f.seq \cup {a} : g[b] = IF b = a THEN s ELSE f.seq[b]
  BY DEF FileOK
<1> HIDE DEF g
<1> QED
  BY <1>1, <1>2 DEF FileOK

LEMMA IvChangedFile ==
    ASSUME NEW f, FileOK(f), NEW iv \in Nat
    PROVE  /\ FileOK(IvChanged(f, iv))
           /\ IvChanged(f, iv).iv = iv
           /\ IvChanged(f, iv).seq = f.seq
BY DEF FileOK, IvChanged

LEMMA DelSeqFile ==
    ASSUME NEW f, FileOK(f), NEW gone
    PROVE  /\ FileOK(DelSeq(f, gone))
           /\ DelSeq(f, gone).iv = f.iv
           /\ DOMAIN DelSeq(f, gone).seq = DOMAIN f.seq \ gone
           /\ \A b \in DOMAIN f.seq \ gone : DelSeq(f, gone).seq[b] = f.seq[b]
<1> DEFINE kept == DOMAIN f.seq \ gone
           g == [b \in kept |-> f.seq[b]]
<1>1. DelSeq(f, gone) = [iv |-> f.iv, seq |-> g]
  BY SeqField DEF DelSeq
<1>2. kept \subseteq DOMAIN f.seq
  OBVIOUS
<1> HIDE DEF kept
<1>3. /\ g \in [kept -> Nat] /\ DOMAIN g = kept
      /\ \A b \in kept : g[b] = f.seq[b]
  BY <1>2 DEF FileOK
<1> HIDE DEF g
<1>4. /\ FileOK(DelSeq(f, gone)) /\ DelSeq(f, gone).iv = f.iv
      /\ DOMAIN DelSeq(f, gone).seq = kept
      /\ \A b \in kept : DelSeq(f, gone).seq[b] = f.seq[b]
  BY <1>1, <1>3 DEF FileOK
<1> QED
  BY <1>4 DEF kept

LEMMA EmptyFileOK == FileOK(EmptyFile) /\ OwnSeq(EmptyFile) = 0 /\ EmptyFile.iv = 0
<1>1. EmptyFile.seq = [a \in {} |-> 0] /\ EmptyFile.iv = 0
  BY DEF EmptyFile
<1>2. DOMAIN EmptyFile.seq = {}
  BY <1>1
<1> QED
  BY <1>1, <1>2 DEF EmptyFile, FileOK, OwnSeq, Own

LEMMA OwnSeqNat == ASSUME NEW f, FileOK(f) PROVE OwnSeq(f) \in Nat
BY DEF FileOK, OwnSeq

\* Deleting records of nodes leaves the own one.
LEMMA DelSeqOwn ==
    ASSUME NEW f, FileOK(f), NEW gone, Own \notin gone
    PROVE  OwnSeq(DelSeq(f, gone)) = OwnSeq(f)
<1>1. Own \in DOMAIN DelSeq(f, gone).seq <=> Own \in DOMAIN f.seq
  BY DelSeqFile
<1>2. Own \in DOMAIN f.seq => DelSeq(f, gone).seq[Own] = f.seq[Own]
  BY DelSeqFile
<1> QED
  BY <1>1, <1>2 DEF OwnSeq

-----------------------------------------------------------------------------
(***************************************************************************)
(* The types, whatever the constants are.                                  *)
(***************************************************************************)
Records == [dev : Devices, addr : Addresses]

NodesOK ==
    /\ nodes \in Seq(Records)
    /\ pending = None \/ pending \in Records

TypeInv == FileOK(file) /\ CoreOK /\ NodesOK

\* What a handler that deletes records of nodes leaves as it is.
LEMMA ForgetKeeps ==
    ASSUME FileOK(file), CoreOK, NEW gone \in SUBSET Addresses, Forget(gone)
    PROVE  /\ FileOK(file') /\ CoreOK'
           /\ file'.iv = file.iv /\ OwnSeq(file') = OwnSeq(file)
           /\ core'.iv = core.iv /\ core'.seq = core.seq
           /\ \A a \in Addresses :
                core'.rpl[a] = IF a \in gone THEN 0 ELSE core.rpl[a]
           /\ \A a \in Addresses \ gone :
                a \in DOMAIN file.seq =>
                    a \in DOMAIN file'.seq /\ file'.seq[a] = file.seq[a]
<1>1. file' = DelSeq(file, gone) /\ Own \notin gone
  BY DEF Forget, Own, Addresses
<1>2. /\ FileOK(file') /\ file'.iv = file.iv /\ OwnSeq(file') = OwnSeq(file)
      /\ DOMAIN file'.seq = DOMAIN file.seq \ gone
      /\ \A a \in DOMAIN file.seq \ gone : file'.seq[a] = file.seq[a]
  BY <1>1, DelSeqFile, DelSeqOwn
<1>3. /\ CoreOK' /\ core'.iv = core.iv /\ core'.seq = core.seq
      /\ core'.rpl = CoreDelSeq(gone)
  <2>1. CoreDelSeq(gone) \in [Addresses -> Nat]
    BY DEF CoreOK, CoreDelSeq
  <2> QED
    BY <2>1 DEF Forget, CoreOK
<1>4. \A a \in Addresses : core'.rpl[a] = IF a \in gone THEN 0 ELSE core.rpl[a]
  BY <1>3 DEF CoreDelSeq
<1>5. \A a \in Addresses \ gone :
        a \in DOMAIN file.seq => a \in DOMAIN file'.seq /\ file'.seq[a] = file.seq[a]
  BY <1>2
<1> QED
  BY <1>2, <1>3, <1>4, <1>5

LEMMA WithoutOK ==
    ASSUME nodes \in Seq(Records), NEW i \in DOMAIN nodes
    PROVE  /\ Without(i) \in Seq(Records)
           /\ nodes[i] \in Records /\ AfterRemoval(i) \in Records
<1>1. i \in 1 .. Len(nodes) /\ Len(nodes) \in Nat
  BY LenProperties
<1>2. SubSeq(nodes, 1, i - 1) \in Seq(Records)
  BY <1>1, SubSeqProperties
<1>3. SubSeq(nodes, i + 1, Len(nodes)) \in Seq(Records)
  BY <1>1, SubSeqProperties
<1>4. Without(i) \in Seq(Records)
  BY <1>2, <1>3, ConcatProperties DEF Without
<1>5. nodes[i] \in Records
  BY <1>1, ElementOfSeq
<1>6. i # Len(nodes) => nodes[i + 1] \in Records
  BY <1>1, ElementOfSeq
<1> QED
  BY <1>4, <1>5, <1>6 DEF AfterRemoval

\* The addresses a handler deletes are addresses of nodes.
LEMMA GivenAddresses ==
    ASSUME NEW d \in Devices, NEW a \in Addresses, IsAllocated(d, a)
    PROVE  Given(d, a) \in SUBSET Addresses
BY DEF IsAllocated, FreeAt, Given

LEMMA TypeInit == Init => TypeInv
<1> SUFFICES ASSUME Init PROVE TypeInv
  OBVIOUS
<1>1. FileOK(file)
  BY EmptyFileOK DEF Init
<1>2. CoreOK
  <2>1. core = [iv |-> 0, seq |-> 0, rpl |-> EmptyList]
    BY EmptyFileOK DEF Init, Opened
  <2>2. EmptyList \in [Addresses -> Nat]
    BY DEF EmptyList
  <2> QED
    BY <2>1, <2>2 DEF CoreOK
<1>3. NodesOK
  BY EmptySeq DEF Init, NodesOK
<1> QED
  BY <1>1, <1>2, <1>3 DEF TypeInv

LEMMA TypeStep == TypeInv /\ [Next]_vars => TypeInv'
<1> SUFFICES ASSUME TypeInv, [Next]_vars PROVE TypeInv'
  OBVIOUS
<1> USE DEF TypeInv
<1>1. CASE Send
  <2>1. FileOK(file')
    BY <1>1, SeqChangedFile DEF Send, CoreOK
  <2>2. CoreOK'
    BY <1>1 DEF Send, CoreOK
  <2> QED
    BY <1>1, <2>1, <2>2 DEF Send, NodesOK
<1>2. CASE IvUpdate
  <2>1. FileOK(file')
    BY <1>2, IvChangedFile DEF IvUpdate, CoreOK
  <2>2. CoreOK'
    <3>1. core' = [iv |-> core.iv + 1, seq |-> 0, rpl |-> core.rpl]
      BY <1>2 DEF IvUpdate, CoreOK
    <3> QED
      BY <3>1 DEF CoreOK
  <2> QED
    BY <1>2, <2>1, <2>2 DEF IvUpdate, NodesOK
<1>3. ASSUME NEW d \in Devices, NEW a \in Addresses, NEW s \in 1 .. MaxSeq, Receive(d, a, s)
      PROVE  TypeInv'
  <2>0. s \in Nat
    BY ReplayListAssumption
  <2>1. FileOK(file')
    BY <1>3, <2>0, SeqChangedFile DEF Receive
  <2>2. CoreOK'
    <3>1. core' = [core EXCEPT !.rpl[a] = s]
      BY <1>3 DEF Receive
    <3>2. [core.rpl EXCEPT ![a] = s] \in [Addresses -> Nat]
      BY <2>0 DEF CoreOK
    <3> QED
      BY <3>1, <3>2 DEF CoreOK
  <2> QED
    BY <1>3, <2>1, <2>2 DEF Receive, NodesOK
<1>4. ASSUME NEW d \in Devices, NEW a \in Addresses, GiveAddress(d, a)
      PROVE  TypeInv'
  <2>1. Given(d, a) \in SUBSET Addresses
    BY <1>4, GivenAddresses DEF GiveAddress
  <2>2. FileOK(file') /\ CoreOK'
    BY <1>4, <2>1, ForgetKeeps DEF GiveAddress
  <2>3. NodesOK'
    BY <1>4 DEF GiveAddress, NodesOK, Record, Records
  <2> QED
    BY <2>2, <2>3
<1>5. CASE ProvisionEnd
  <2>0. pending \in Records /\ pending' = None
    BY <1>5 DEF ProvisionEnd, NodesOK
  <2>1. CASE nodes' = Append(nodes, pending) /\ UNCHANGED <<file, core>>
    <3>1. nodes' \in Seq(Records)
      BY <2>0, <2>1, AppendProperties DEF NodesOK
    <3> QED
      BY <2>0, <2>1, <3>1 DEF NodesOK, CoreOK
  <2>2. ASSUME NEW i \in DOMAIN nodes, nodes' = Append(Without(i), pending),
               Forget({AfterRemoval(i).addr})
        PROVE  TypeInv'
    <3>1. Without(i) \in Seq(Records) /\ AfterRemoval(i) \in Records
      BY <2>2, WithoutOK DEF NodesOK
    <3>2. nodes' \in Seq(Records)
      BY <2>0, <2>2, <3>1, AppendProperties
    <3>3. {AfterRemoval(i).addr} \in SUBSET Addresses
      BY <3>1 DEF Records
    <3>4. FileOK(file') /\ CoreOK'
      BY <2>2, <3>3, ForgetKeeps
    <3> QED
      BY <2>0, <3>2, <3>4 DEF NodesOK
  <2> QED
    BY <1>5, <2>1, <2>2 DEF ProvisionEnd
<1>6. CASE ProvisionFails
  BY <1>6 DEF ProvisionFails, NodesOK, CoreOK
<1>7. ASSUME NEW i \in DOMAIN nodes, RemoveNode(i) PROVE TypeInv'
  <2>1. Without(i) \in Seq(Records) /\ nodes[i] \in Records
    BY WithoutOK DEF NodesOK
  <2>2. {nodes[i].addr} \in SUBSET Addresses
    BY <2>1 DEF Records
  <2>3. FileOK(file') /\ CoreOK'
    BY <1>7, <2>2, ForgetKeeps DEF RemoveNode
  <2> QED
    BY <1>7, <2>1, <2>3 DEF RemoveNode, NodesOK
<1>8. ASSUME NEW i \in DOMAIN nodes, Import(i) PROVE TypeInv'
  <2>1. Without(i) \in Seq(Records)
    BY WithoutOK DEF NodesOK
  <2> QED
    BY <1>8, <2>1 DEF Import, NodesOK, CoreOK
<1>9. ASSUME NEW d \in Devices, FactoryReset(d) PROVE TypeInv'
  BY <1>9 DEF FactoryReset, NodesOK, CoreOK
<1>10. ASSUME NEW inside \in Inside, Reopen(inside) PROVE TypeInv'
  <2>1. FileOK(file')
    BY <1>10, EmptyFileOK DEF Reopen
  <2>2. CoreOK'
    <3>1. core' = [iv |-> file'.iv, seq |-> OwnSeq(file'), rpl |-> EmptyList]
      BY <1>10 DEF Reopen, Opened
    <3>2. EmptyList \in [Addresses -> Nat]
      BY DEF EmptyList
    <3>3. file'.iv \in Nat /\ OwnSeq(file') \in Nat
      BY <2>1, OwnSeqNat DEF FileOK
    <3> QED
      BY <3>1, <3>2, <3>3 DEF CoreOK
  <2> QED
    BY <1>10, <2>1, <2>2 DEF Reopen, NodesOK
<1>11. CASE UNCHANGED vars
  BY <1>11 DEF vars, NodesOK, CoreOK
<1> QED
  BY <1>1, <1>2, <1>3, <1>4, <1>5, <1>6, <1>7, <1>8, <1>9, <1>10, <1>11 DEF Next

-----------------------------------------------------------------------------
(***************************************************************************)
(* The records.  Every record of the file is for an address an element can  *)
(* have, or the own one, and none holds the number 0.                       *)
(***************************************************************************)
RecordsOK(f) ==
    /\ DOMAIN f.seq \subseteq Addresses \cup {Own}
    /\ \A a \in DOMAIN f.seq : f.seq[a] \in Nat \ {0}

RecordsInv ==
    /\ RecordsOK(file)
    /\ heard \in [Addresses -> Nat]
    /\ dev \in [Devices -> [addr : Addresses \cup {0}, seq : Nat]]

LEMMA ForgetRecords ==
    ASSUME FileOK(file), RecordsOK(file), NEW gone, Forget(gone)
    PROVE  RecordsOK(file')
BY DelSeqFile DEF Forget, RecordsOK

LEMMA RecordsInit == Init => RecordsInv
<1> SUFFICES ASSUME Init PROVE RecordsInv
  OBVIOUS
<1>1. RecordsOK(file)
  <2>1. file.seq = [a \in {} |-> 0]
    BY DEF Init, EmptyFile
  <2>2. DOMAIN file.seq = {}
    BY <2>1
  <2> QED
    BY <2>2 DEF RecordsOK
<1>2. heard \in [Addresses -> Nat]
  BY DEF Init, EmptyList
<1>3. dev \in [Devices -> [addr : Addresses \cup {0}, seq : Nat]]
  BY DEF Init
<1> QED
  BY <1>1, <1>2, <1>3 DEF RecordsInv

LEMMA RecordsStep == TypeInv /\ RecordsInv /\ [Next]_vars => RecordsInv'
<1> SUFFICES ASSUME TypeInv, RecordsInv, [Next]_vars PROVE RecordsInv'
  OBVIOUS
<1> USE DEF RecordsInv
<1>0. FileOK(file) /\ core.seq \in Nat /\ core.iv \in Nat
  BY DEF TypeInv, CoreOK
<1>1. CASE Send
  <2>1. core.seq + 1 \in Nat \ {0}
    BY <1>0
  <2>2. RecordsOK(file')
    BY <1>0, <1>1, <2>1, SeqChangedFile DEF Send, RecordsOK
  <2> QED
    BY <1>1, <2>2 DEF Send
<1>2. CASE IvUpdate
  <2>1. file' = IvChanged(file, core.iv + 1) /\ core.iv + 1 \in Nat
    BY <1>0, <1>2 DEF IvUpdate
  <2>2. IvChanged(file, core.iv + 1).seq = file.seq
    BY <1>0, <2>1, IvChangedFile
  <2>3. RecordsOK(file')
    BY <2>1, <2>2 DEF RecordsOK
  <2> QED
    BY <1>2, <2>3 DEF IvUpdate
<1>3. ASSUME NEW d \in Devices, NEW a \in Addresses, NEW s \in 1 .. MaxSeq, Receive(d, a, s)
      PROVE  RecordsInv'
  <2>1. s \in Nat \ {0}
    BY ReplayListAssumption
  <2>2. RecordsOK(file')
    BY <1>0, <1>3, <2>1, SeqChangedFile DEF Receive, RecordsOK
  <2>3. heard' \in [Addresses -> Nat]
    BY <1>3, <2>1 DEF Receive
  <2>4. dev' \in [Devices -> [addr : Addresses \cup {0}, seq : Nat]]
    BY <1>3, <2>1 DEF Receive
  <2> QED
    BY <2>2, <2>3, <2>4
<1>4. ASSUME NEW d \in Devices, NEW a \in Addresses, GiveAddress(d, a)
      PROVE  RecordsInv'
  <2>1. RecordsOK(file')
    BY <1>0, <1>4, ForgetRecords DEF GiveAddress
  <2>2. heard' \in [Addresses -> Nat]
    BY <1>4 DEF GiveAddress
  <2> QED
    BY <1>4, <2>1, <2>2 DEF GiveAddress
<1>5. CASE ProvisionEnd
  <2>1. pending.dev \in Devices /\ pending.addr \in Addresses
    BY <1>5 DEF ProvisionEnd, TypeInv, NodesOK, Records
  <2>2. dev' \in [Devices -> [addr : Addresses \cup {0}, seq : Nat]]
    BY <1>5, <2>1 DEF ProvisionEnd
  <2>3. RecordsOK(file')
    <3>1. CASE UNCHANGED <<file, core>>
      BY <3>1
    <3>2. ASSUME NEW i \in DOMAIN nodes, Forget({AfterRemoval(i).addr})
          PROVE  RecordsOK(file')
      BY <1>0, <3>2, ForgetRecords
    <3> QED
      BY <1>5, <3>1, <3>2 DEF ProvisionEnd
  <2> QED
    BY <1>5, <2>2, <2>3 DEF ProvisionEnd
<1>6. CASE ProvisionFails
  BY <1>6 DEF ProvisionFails, RecordsOK
<1>7. ASSUME NEW i \in DOMAIN nodes, RemoveNode(i) PROVE RecordsInv'
  <2>1. RecordsOK(file')
    BY <1>0, <1>7, ForgetRecords DEF RemoveNode
  <2>2. dev' \in [Devices -> [addr : Addresses \cup {0}, seq : Nat]]
    BY <1>7 DEF RemoveNode
  <2> QED
    BY <1>7, <2>1, <2>2 DEF RemoveNode
<1>8. ASSUME NEW i \in DOMAIN nodes, Import(i) PROVE RecordsInv'
  <2>1. dev' \in [Devices -> [addr : Addresses \cup {0}, seq : Nat]]
    BY <1>8 DEF Import
  <2> QED
    BY <1>8, <2>1 DEF Import, RecordsOK
<1>9. ASSUME NEW d \in Devices, FactoryReset(d) PROVE RecordsInv'
  <2>1. dev' \in [Devices -> [addr : Addresses \cup {0}, seq : Nat]]
    BY <1>9 DEF FactoryReset
  <2> QED
    BY <1>9, <2>1 DEF FactoryReset, RecordsOK
<1>10. ASSUME NEW inside \in Inside, Reopen(inside) PROVE RecordsInv'
  <2>1. RecordsOK(EmptyFile)
    <3>1. DOMAIN EmptyFile.seq = {}
      BY DEF EmptyFile
    <3> QED
      BY <3>1 DEF RecordsOK
  <2>2. RecordsOK(file')
    BY <1>10, <2>1 DEF Reopen
  <2>3. heard' \in [Addresses -> Nat]
    BY <1>10 DEF Reopen, EmptyList
  <2> QED
    BY <1>10, <2>2, <2>3 DEF Reopen
<1>11. CASE UNCHANGED vars
  BY <1>11 DEF vars, RecordsOK
<1> QED
  BY <1>1, <1>2, <1>3, <1>4, <1>5, <1>6, <1>7, <1>8, <1>9, <1>10, <1>11 DEF Next

\* Types, and no record that download_rpl_list would take for none.
THEOREM TypesCorrect == Spec => []TypeOK
<1>1. Init => TypeInv /\ RecordsInv
  BY TypeInit, RecordsInit
<1>2. TypeInv /\ RecordsInv /\ [Next]_vars => (TypeInv /\ RecordsInv)'
  BY TypeStep, RecordsStep
<1>3. TypeInv /\ RecordsInv => TypeOK
  <2> SUFFICES ASSUME TypeInv, RecordsInv PROVE TypeOK
    OBVIOUS
  <2>1. \A i \in DOMAIN nodes : nodes[i].dev \in Devices /\ nodes[i].addr \in Addresses
    BY WithoutOK DEF TypeInv, NodesOK, Records
  <2>2. pending = None \/ (pending.dev \in Devices /\ pending.addr \in Addresses)
    BY DEF TypeInv, NodesOK, Records
  <2>3. \A d \in Devices : dev[d].addr \in Addresses \cup {0} /\ dev[d].seq \in Nat
    BY DEF RecordsInv
  <2> QED
    BY <2>1, <2>2, <2>3 DEF TypeOK, TypeInv, FileOK, CoreOK, RecordsInv, RecordsOK
<1> QED
  BY <1>1, <1>2, <1>3, PTL DEF Spec

-----------------------------------------------------------------------------
(***************************************************************************)
(* The own sequence number.  What the client used last is not later than    *)
(* what the core is at, and that not later than what it would be at after    *)
(* the network was opened again: only the second fact survives Reopen, and   *)
(* only the first says that the next number is fresh.                       *)
(***************************************************************************)
OwnInv ==
    /\ last.iv \in Nat /\ last.seq \in Nat
    /\ file.iv = core.iv
    /\ core.seq <= OwnSeq(file)
    /\ last.iv < core.iv \/ (last.iv = core.iv /\ last.seq <= core.seq)

LEMMA OwnInit == Init => OwnInv
<1> SUFFICES ASSUME Init PROVE OwnInv
  OBVIOUS
<1>1. core.iv = 0 /\ core.seq = 0 /\ file.iv = 0 /\ OwnSeq(file) = 0
  BY EmptyFileOK DEF Init, Opened
<1> QED
  BY <1>1 DEF Init, OwnInv

\* Deleting records of nodes does not concern it.
LEMMA OwnForget ==
    ASSUME TypeInv, OwnInv, NEW gone \in SUBSET Addresses, Forget(gone), last' = last
    PROVE  OwnInv'
<1>1. file'.iv = file.iv /\ OwnSeq(file') = OwnSeq(file)
      /\ core'.iv = core.iv /\ core'.seq = core.seq
  BY ForgetKeeps DEF TypeInv
<1>2. OwnSeq(file)' = OwnSeq(file')
  BY DEF OwnSeq
<1> QED
  BY <1>1, <1>2 DEF OwnInv

LEMMA OwnStep ==
    ASSUME Inside = {FALSE}
    PROVE  TypeInv /\ OwnInv /\ [Next]_vars => OwnInv'
<1> SUFFICES ASSUME TypeInv, OwnInv, [Next]_vars PROVE OwnInv'
  OBVIOUS
<1>0. OwnSeq(file)' = OwnSeq(file') /\ OwnSeq(file) \in Nat
      /\ core.iv \in Nat /\ core.seq \in Nat
  BY OwnSeqNat DEF OwnSeq, TypeInv, CoreOK
<1>1. CASE Send
  <2>1. file'.iv = file.iv /\ OwnSeq(file') = core.seq + 1
    BY <1>0, <1>1, SeqChangedFile DEF Send, TypeInv, OwnSeq
  <2>2. core'.iv = core.iv /\ core'.seq = core.seq + 1
    BY <1>1 DEF Send, TypeInv, CoreOK
  <2>3. last' = [iv |-> core.iv, seq |-> core.seq + 1]
    BY <1>1 DEF Send
  <2> QED
    BY <1>0, <2>1, <2>2, <2>3 DEF OwnInv
<1>2. CASE IvUpdate
  <2>1. file'.iv = core.iv + 1 /\ OwnSeq(file') = OwnSeq(file)
    BY <1>0, <1>2, IvChangedFile DEF IvUpdate, TypeInv, OwnSeq
  <2>2. core'.iv = core.iv + 1 /\ core'.seq = 0 /\ last' = last
    BY <1>2 DEF IvUpdate, TypeInv, CoreOK
  <2> QED
    BY <1>0, <2>1, <2>2 DEF OwnInv
<1>3. ASSUME NEW d \in Devices, NEW a \in Addresses, NEW s \in 1 .. MaxSeq, Receive(d, a, s)
      PROVE  OwnInv'
  <2>0. s \in Nat /\ a # Own
    BY ReplayListAssumption DEF Addresses, Own
  <2>1. file'.iv = file.iv /\ OwnSeq(file') = OwnSeq(file)
    BY <1>3, <2>0, SeqChangedFile DEF Receive, TypeInv, OwnSeq
  <2>2. core'.iv = core.iv /\ core'.seq = core.seq /\ last' = last
    BY <1>3 DEF Receive, TypeInv, CoreOK
  <2> QED
    BY <1>0, <2>1, <2>2 DEF OwnInv
<1>4. ASSUME NEW d \in Devices, NEW a \in Addresses, GiveAddress(d, a)
      PROVE  OwnInv'
  <2>1. Given(d, a) \in SUBSET Addresses
    BY <1>4, GivenAddresses DEF GiveAddress
  <2> QED
    BY <1>4, <2>1, OwnForget DEF GiveAddress
<1>5. CASE ProvisionEnd
  <2>1. CASE UNCHANGED <<file, core>>
    BY <1>5, <2>1 DEF ProvisionEnd, OwnInv, OwnSeq
  <2>2. ASSUME NEW i \in DOMAIN nodes, Forget({AfterRemoval(i).addr})
        PROVE  OwnInv'
    <3>1. {AfterRemoval(i).addr} \in SUBSET Addresses
      BY WithoutOK DEF TypeInv, NodesOK, Records
    <3> QED
      BY <1>5, <2>2, <3>1, OwnForget DEF ProvisionEnd
  <2> QED
    BY <1>5, <2>1, <2>2 DEF ProvisionEnd
<1>6. CASE ProvisionFails
  BY <1>6 DEF ProvisionFails, OwnInv, OwnSeq
<1>7. ASSUME NEW i \in DOMAIN nodes, RemoveNode(i) PROVE OwnInv'
  <2>1. {nodes[i].addr} \in SUBSET Addresses
    BY WithoutOK DEF TypeInv, NodesOK, Records
  <2> QED
    BY <1>7, <2>1, OwnForget DEF RemoveNode
<1>8. ASSUME NEW i \in DOMAIN nodes, Import(i) PROVE OwnInv'
  BY <1>8 DEF Import, OwnInv, OwnSeq
<1>9. ASSUME NEW d \in Devices, FactoryReset(d) PROVE OwnInv'
  BY <1>9 DEF FactoryReset, OwnInv, OwnSeq
<1>10. ASSUME NEW inside \in Inside, Reopen(inside) PROVE OwnInv'
  <2>1. file' = file /\ last' = last
    BY <1>10 DEF Reopen
  <2>2. core'.iv = file.iv /\ core'.seq = OwnSeq(file)
    BY <1>10, <2>1 DEF Reopen, Opened, OwnSeq
  <2> QED
    BY <1>0, <2>1, <2>2 DEF OwnInv
<1>11. CASE UNCHANGED vars
  BY <1>11 DEF vars, OwnInv, OwnSeq
<1> QED
  BY <1>1, <1>2, <1>3, <1>4, <1>5, <1>6, <1>7, <1>8, <1>9, <1>10, <1>11 DEF Next

\* Unless a process ends inside mesh_del_seq, the client never uses a sequence number
\* twice under one IV index, however often the network is opened again.
THEOREM OwnSequenceIsFresh ==
    ASSUME Inside = {FALSE}
    PROVE  Spec => OwnSequenceFresh
<1>1. Init => TypeInv /\ OwnInv
  BY TypeInit, OwnInit
<1>2. TypeInv /\ OwnInv /\ [Next]_vars => (TypeInv /\ OwnInv)'
  BY TypeStep, OwnStep
<1>3. TypeInv /\ OwnInv /\ [Next]_vars => [Send => Before(last, last')]_vars
  BY DEF OwnInv, TypeInv, CoreOK, Send, Before
<1> QED
  BY <1>1, <1>2, <1>3, PTL DEF Spec, OwnSequenceFresh

-----------------------------------------------------------------------------
(***************************************************************************)
(* The file and the replay list of the core.                               *)
(***************************************************************************)
LEMMA FollowsForget ==
    ASSUME TypeInv, FileFollowsCore, NEW gone \in SUBSET Addresses, Forget(gone)
    PROVE  FileFollowsCore'
<1>1. /\ \A a \in Addresses : core'.rpl[a] = IF a \in gone THEN 0 ELSE core.rpl[a]
      /\ \A a \in Addresses \ gone :
           a \in DOMAIN file.seq => a \in DOMAIN file'.seq /\ file'.seq[a] = file.seq[a]
  BY ForgetKeeps DEF TypeInv
<1> QED
  BY <1>1 DEF FileFollowsCore

LEMMA FollowsStep == TypeInv /\ FileFollowsCore /\ [Next]_vars => FileFollowsCore'
<1> SUFFICES ASSUME TypeInv, FileFollowsCore, [Next]_vars PROVE FileFollowsCore'
  OBVIOUS
<1>1. CASE Send
  <2>1. core'.rpl = core.rpl
    BY <1>1 DEF Send, TypeInv, CoreOK
  <2>2. core.seq + 1 \in Nat /\ Own \notin Addresses
    BY DEF TypeInv, CoreOK, Own, Addresses
  <2>3. \A a \in Addresses : a \in DOMAIN file.seq =>
            a \in DOMAIN file'.seq /\ file'.seq[a] = file.seq[a]
    BY <1>1, <2>2, SeqChangedFile DEF Send, TypeInv
  <2> QED
    BY <2>1, <2>3 DEF FileFollowsCore
<1>2. CASE IvUpdate
  <2>1. core'.rpl = core.rpl
    BY <1>2 DEF IvUpdate, TypeInv, CoreOK
  <2>2. file'.seq = file.seq
    <3>1. core.iv + 1 \in Nat /\ FileOK(file) /\ file' = IvChanged(file, core.iv + 1)
      BY <1>2 DEF IvUpdate, TypeInv, CoreOK
    <3> QED
      BY <3>1, IvChangedFile
  <2> QED
    BY <2>1, <2>2 DEF FileFollowsCore
<1>3. ASSUME NEW d \in Devices, NEW a \in Addresses, NEW s \in 1 .. MaxSeq, Receive(d, a, s)
      PROVE  FileFollowsCore'
  <2>0. s \in Nat
    BY ReplayListAssumption
  <2>1. \A b \in Addresses : core'.rpl[b] = IF b = a THEN s ELSE core.rpl[b]
    BY <1>3 DEF Receive, TypeInv, CoreOK
  <2>2. /\ DOMAIN file'.seq = DOMAIN file.seq \cup {a}
        /\ \A b \in DOMAIN file'.seq : file'.seq[b] = IF b = a THEN s ELSE file.seq[b]
    BY <1>3, <2>0, SeqChangedFile DEF Receive, TypeInv
  <2> QED
    BY <2>1, <2>2 DEF FileFollowsCore
<1>4. ASSUME NEW d \in Devices, NEW a \in Addresses, GiveAddress(d, a)
      PROVE  FileFollowsCore'
  <2>1. Given(d, a) \in SUBSET Addresses
    BY <1>4, GivenAddresses DEF GiveAddress
  <2> QED
    BY <1>4, <2>1, FollowsForget DEF GiveAddress
<1>5. CASE ProvisionEnd
  <2>1. CASE UNCHANGED <<file, core>>
    BY <2>1 DEF FileFollowsCore
  <2>2. ASSUME NEW i \in DOMAIN nodes, Forget({AfterRemoval(i).addr})
        PROVE  FileFollowsCore'
    <3>1. {AfterRemoval(i).addr} \in SUBSET Addresses
      BY WithoutOK DEF TypeInv, NodesOK, Records
    <3> QED
      BY <2>2, <3>1, FollowsForget
  <2> QED
    BY <1>5, <2>1, <2>2 DEF ProvisionEnd
<1>6. CASE ProvisionFails
  BY <1>6 DEF ProvisionFails, FileFollowsCore
<1>7. ASSUME NEW i \in DOMAIN nodes, RemoveNode(i) PROVE FileFollowsCore'
  <2>1. {nodes[i].addr} \in SUBSET Addresses
    BY WithoutOK DEF TypeInv, NodesOK, Records
  <2> QED
    BY <1>7, <2>1, FollowsForget DEF RemoveNode
<1>8. ASSUME NEW i \in DOMAIN nodes, Import(i) PROVE FileFollowsCore'
  BY <1>8 DEF Import, FileFollowsCore
<1>9. ASSUME NEW d \in Devices, FactoryReset(d) PROVE FileFollowsCore'
  BY <1>9 DEF FactoryReset, FileFollowsCore
<1>10. ASSUME NEW inside \in Inside, Reopen(inside) PROVE FileFollowsCore'
  <2>1. core'.rpl = EmptyList
    BY <1>10 DEF Reopen, Opened
  <2> QED
    BY <2>1 DEF EmptyList, FileFollowsCore
<1>11. CASE UNCHANGED vars
  BY <1>11 DEF vars, FileFollowsCore
<1> QED
  BY <1>1, <1>2, <1>3, <1>4, <1>5, <1>6, <1>7, <1>8, <1>9, <1>10, <1>11 DEF Next

\* The file has for every address the number the core has, also when processes end
\* inside mesh_del_seq and when the wrong record is deleted.
THEOREM FileFollows == Spec => []FileFollowsCore
<1>1. Init => TypeInv /\ FileFollowsCore
  <2>1. Init => core.rpl = EmptyList
    BY DEF Init, Opened
  <2> QED
    BY <2>1, TypeInit DEF EmptyList, FileFollowsCore
<1>2. TypeInv /\ FileFollowsCore /\ [Next]_vars => (TypeInv /\ FileFollowsCore)'
  BY TypeStep, FollowsStep
<1> QED
  BY <1>1, <1>2, PTL DEF Spec

-----------------------------------------------------------------------------
(***************************************************************************)
(* Nodes and the addresses of their elements.  No two nodes share one, a    *)
(* device that has an address has a record, and the addresses that were     *)
(* given are still free when provisioning ends.                            *)
(***************************************************************************)
Span(r) == ElementsAt(r.dev, r.addr)

Disjoint(ns) ==
    \A i, j \in DOMAIN ns : i # j => Span(ns[i]) \cap Span(ns[j]) = {}

LEMMA SpanHasAddress == ASSUME NEW r \in Records PROVE r.addr \in Span(r)
<1>1. r.addr \in Nat /\ Elements[r.dev] \in Nat \ {0}
  BY ReplayListAssumption DEF Records, Addresses
<1> QED
  BY <1>1 DEF Span, ElementsAt

\* Without(i) has the other nodes in their order.
LEMMA WithoutIs ==
    ASSUME nodes \in Seq(Records), NEW i \in DOMAIN nodes
    PROVE  /\ Len(Without(i)) = Len(nodes) - 1
           /\ DOMAIN Without(i) = 1 .. (Len(nodes) - 1)
           /\ \A k \in DOMAIN Without(i) :
                Without(i)[k] = nodes[IF k < i THEN k ELSE k + 1]
<1> DEFINE n == Len(nodes)
           s1 == SubSeq(nodes, 1, i - 1)
           s2 == SubSeq(nodes, i + 1, n)
<1>1. n \in Nat /\ i \in 1 .. n
  BY LenProperties
<1>2. s1 \in Seq(Records) /\ Len(s1) = i - 1 /\ \A k \in 1 .. (i - 1) : s1[k] = nodes[k]
  BY <1>1, SubSeqProperties
<1>3. s2 \in Seq(Records) /\ Len(s2) = n - i /\ \A k \in 1 .. (n - i) : s2[k] = nodes[i + k]
  BY <1>1, SubSeqProperties
<1> HIDE DEF s1, s2
<1>4. /\ s1 \o s2 \in Seq(Records) /\ Len(s1 \o s2) = n - 1
      /\ \A k \in 1 .. (n - 1) :
           (s1 \o s2)[k] = IF k <= i - 1 THEN s1[k] ELSE s2[k - (i - 1)]
  <2>1. /\ s1 \o s2 \in Seq(Records) /\ Len(s1 \o s2) = Len(s1) + Len(s2)
        /\ \A k \in 1 .. (Len(s1) + Len(s2)) :
             (s1 \o s2)[k] = IF k <= Len(s1) THEN s1[k] ELSE s2[k - Len(s1)]
    BY <1>2, <1>3, ConcatProperties, Zenon
  <2>2. Len(s1) + Len(s2) = n - 1
    BY <1>1, <1>2, <1>3
  <2> QED
    BY <1>2, <2>1, <2>2
<1>5. DOMAIN (s1 \o s2) = 1 .. (n - 1)
  BY <1>4, LenProperties
<1>6. ASSUME NEW k \in 1 .. (n - 1)
      PROVE  (s1 \o s2)[k] = nodes[IF k < i THEN k ELSE k + 1]
  <2>1. CASE k < i
    BY <1>1, <1>2, <1>4, <2>1
  <2>2. CASE ~ (k < i)
    <3>1. k - (i - 1) \in 1 .. (n - i) /\ i + (k - (i - 1)) = k + 1
      BY <1>1, <2>2
    <3>2. (s1 \o s2)[k] = s2[k - (i - 1)]
      BY <1>1, <1>4, <2>2
    <3>3. s2[k - (i - 1)] = nodes[i + (k - (i - 1))]
      BY <1>3, <3>1
    <3> QED
      BY <2>2, <3>1, <3>2, <3>3
  <2> QED
    BY <2>1, <2>2
<1> QED
  BY <1>4, <1>5, <1>6 DEF Without, s1, s2

LEMMA WithoutOthers ==
    ASSUME nodes \in Seq(Records), NEW i \in DOMAIN nodes
    PROVE  /\ \A k \in DOMAIN Without(i) : \E j \in DOMAIN nodes \ {i} : Without(i)[k] = nodes[j]
           /\ \A j \in DOMAIN nodes \ {i} : \E k \in DOMAIN Without(i) : Without(i)[k] = nodes[j]
           /\ Disjoint(nodes) => Disjoint(Without(i))
<1>1. i \in 1 .. Len(nodes) /\ Len(nodes) \in Nat /\ DOMAIN nodes = 1 .. Len(nodes)
  BY LenProperties
<1>2. /\ DOMAIN Without(i) = 1 .. (Len(nodes) - 1)
      /\ \A k \in DOMAIN Without(i) :
           Without(i)[k] = nodes[IF k < i THEN k ELSE k + 1]
  BY WithoutIs
<1>3. ASSUME NEW k \in DOMAIN Without(i)
      PROVE  \E j \in DOMAIN nodes \ {i} : Without(i)[k] = nodes[j]
  <2>1. (IF k < i THEN k ELSE k + 1) \in DOMAIN nodes \ {i}
    BY <1>1, <1>2
  <2> QED
    BY <1>2, <2>1
<1>4. ASSUME NEW j \in DOMAIN nodes \ {i}
      PROVE  \E k \in DOMAIN Without(i) : Without(i)[k] = nodes[j]
  <2>1. CASE j < i
    BY <1>1, <1>2, <2>1
  <2>2. CASE j > i
    <3>1. j - 1 \in DOMAIN Without(i) /\ Without(i)[j - 1] = nodes[j]
      BY <1>1, <1>2, <2>2
    <3> QED
      BY <3>1
  <2> QED
    BY <1>1, <2>1, <2>2
<1>5. ASSUME Disjoint(nodes) PROVE Disjoint(Without(i))
  <2> SUFFICES ASSUME NEW k \in DOMAIN Without(i), NEW l \in DOMAIN Without(i), k # l
               PROVE  Span(Without(i)[k]) \cap Span(Without(i)[l]) = {}
    BY DEF Disjoint
  <2> DEFINE At(m) == IF m < i THEN m ELSE m + 1
  <2>1. At(k) \in DOMAIN nodes /\ At(l) \in DOMAIN nodes /\ At(k) # At(l)
    BY <1>1, <1>2
  <2>2. Without(i)[k] = nodes[At(k)] /\ Without(i)[l] = nodes[At(l)]
    BY <1>2
  <2> HIDE DEF At
  <2> QED
    BY <1>5, <2>1, <2>2 DEF Disjoint
<1> QED
  BY <1>3, <1>4, <1>5

LEMMA AppendDisjoint ==
    ASSUME NEW ns \in Seq(Records), NEW r \in Records, Disjoint(ns),
           \A i \in DOMAIN ns : Span(ns[i]) \cap Span(r) = {}
    PROVE  Disjoint(Append(ns, r))
<1>1. /\ DOMAIN ns = 1 .. Len(ns) /\ Len(ns) \in Nat
      /\ DOMAIN Append(ns, r) = 1 .. (Len(ns) + 1)
      /\ \A i \in 1 .. Len(ns) : Append(ns, r)[i] = ns[i]
      /\ Append(ns, r)[Len(ns) + 1] = r
  BY LenProperties, AppendProperties
<1> SUFFICES ASSUME NEW i \in 1 .. (Len(ns) + 1), NEW j \in 1 .. (Len(ns) + 1), i # j
             PROVE  Span(Append(ns, r)[i]) \cap Span(Append(ns, r)[j]) = {}
  BY <1>1 DEF Disjoint
<1>2. CASE i \in 1 .. Len(ns) /\ j \in 1 .. Len(ns)
  BY <1>1, <1>2 DEF Disjoint
<1>3. CASE i = Len(ns) + 1
  <2>1. j \in 1 .. Len(ns)
    BY <1>1, <1>3
  <2> QED
    BY <1>1, <1>3, <2>1
<1>4. CASE j = Len(ns) + 1
  <2>1. i \in 1 .. Len(ns)
    BY <1>1, <1>4
  <2> QED
    BY <1>1, <1>4, <2>1
<1> QED
  BY <1>1, <1>2, <1>3, <1>4

PlacesInv ==
    /\ dev \in [Devices -> [addr : Nat, seq : Nat]]
    /\ \A d \in Devices : dev[d].addr # 0 =>
          \E i \in DOMAIN nodes : nodes[i] = Record(d, dev[d].addr)
    /\ Disjoint(nodes)
    /\ \A i \in DOMAIN nodes : Span(nodes[i]) \subseteq Addresses
    /\ pending # None =>
          /\ Span(pending) \subseteq Addresses
          /\ \A i \in DOMAIN nodes : Span(nodes[i]) \cap Span(pending) = {}

\* A node is taken out of the database, and its device with it.
LEMMA PlacesWithout ==
    ASSUME TypeInv, PlacesInv, NEW i \in DOMAIN nodes, nodes' = Without(i),
           dev' = IF dev[nodes[i].dev].addr = nodes[i].addr
                  THEN [dev EXCEPT ![nodes[i].dev] = [addr |-> 0, seq |-> 0]] ELSE dev,
           pending' = pending
    PROVE  PlacesInv'
<1>0. nodes \in Seq(Records) /\ nodes[i] \in Records
  BY WithoutOK DEF TypeInv, NodesOK
<1>1. dev' \in [Devices -> [addr : Nat, seq : Nat]]
  BY DEF PlacesInv
<1>2. Disjoint(nodes')
  BY <1>0, WithoutOthers DEF PlacesInv
<1>3. \A k \in DOMAIN nodes' : \E j \in DOMAIN nodes : nodes'[k] = nodes[j]
  BY <1>0, WithoutOthers
<1>4. \A k \in DOMAIN nodes' :
        /\ Span(nodes'[k]) \subseteq Addresses
        /\ pending # None => Span(nodes'[k]) \cap Span(pending) = {}
  BY <1>3 DEF PlacesInv
<1>5. ASSUME NEW d \in Devices, dev'[d].addr # 0
      PROVE  \E k \in DOMAIN nodes' : nodes'[k] = Record(d, dev'[d].addr)
  <2>1. dev'[d].addr = dev[d].addr /\ ~ (d = nodes[i].dev /\ dev[d].addr = nodes[i].addr)
    BY <1>0, <1>5 DEF PlacesInv, Records
  <2>2. PICK j \in DOMAIN nodes : nodes[j] = Record(d, dev[d].addr)
    BY <1>5, <2>1 DEF PlacesInv
  <2>3. j # i
    BY <2>1, <2>2 DEF Record
  <2> QED
    BY <1>0, <2>1, <2>2, <2>3, WithoutOthers
<1>6. Disjoint(nodes)' /\ \A k \in DOMAIN nodes' : Span(nodes[k])' = Span(nodes'[k])
  BY <1>2 DEF Disjoint, Span, ElementsAt
<1>7. Span(pending)' = Span(pending)
  BY DEF Span, ElementsAt
<1> QED
  BY <1>1, <1>4, <1>5, <1>6, <1>7 DEF PlacesInv, Record

\* The new node is put at the end of a database that kept the other nodes.
LEMMA PlacesAppend ==
    ASSUME TypeInv, PlacesInv, pending # None, NEW ns \in Seq(Records), Disjoint(ns),
           nodes' = Append(ns, pending),
           \A k \in DOMAIN ns : \E j \in DOMAIN nodes : ns[k] = nodes[j],
           \A j \in DOMAIN nodes : nodes[j].dev # pending.dev =>
               \E k \in DOMAIN ns : ns[k] = nodes[j],
           dev' = [dev EXCEPT ![pending.dev] = [addr |-> pending.addr, seq |-> 0]],
           pending' = None
    PROVE  PlacesInv'
<1>0. pending \in Records /\ pending.dev \in Devices /\ pending.addr \in Nat
      /\ Record(pending.dev, pending.addr) = pending
  BY DEF TypeInv, NodesOK, Records, Record, Addresses
<1>1. dev' \in [Devices -> [addr : Nat, seq : Nat]]
  BY <1>0 DEF PlacesInv
<1>2. /\ DOMAIN ns = 1 .. Len(ns) /\ Len(ns) \in Nat
      /\ DOMAIN nodes' = 1 .. (Len(ns) + 1)
      /\ \A k \in DOMAIN ns : nodes'[k] = ns[k]
      /\ nodes'[Len(ns) + 1] = pending
  BY <1>0, LenProperties, AppendProperties
<1>3. \A k \in DOMAIN ns : Span(ns[k]) \cap Span(pending) = {} /\ Span(ns[k]) \subseteq Addresses
  BY DEF PlacesInv
<1>4. Disjoint(nodes')
  BY <1>0, <1>3, AppendDisjoint
<1>5. \A k \in DOMAIN nodes' : Span(nodes'[k]) \subseteq Addresses
  <2> SUFFICES ASSUME NEW k \in 1 .. (Len(ns) + 1) PROVE Span(nodes'[k]) \subseteq Addresses
    BY <1>2
  <2>1. CASE k = Len(ns) + 1
    BY <1>2, <2>1 DEF PlacesInv
  <2>2. CASE k \in DOMAIN ns
    BY <1>2, <1>3, <2>2
  <2> QED
    BY <1>2, <2>1, <2>2
<1>6. ASSUME NEW d \in Devices, dev'[d].addr # 0
      PROVE  \E k \in DOMAIN nodes' : nodes'[k] = Record(d, dev'[d].addr)
  <2>1. CASE d = pending.dev
    <3>1. dev'[d].addr = pending.addr
      BY <2>1, <1>0 DEF PlacesInv
    <3> QED
      BY <1>0, <1>2, <2>1, <3>1
  <2>2. CASE d # pending.dev
    <3>1. dev'[d].addr = dev[d].addr
      BY <2>2 DEF PlacesInv
    <3>2. PICK j \in DOMAIN nodes : nodes[j] = Record(d, dev[d].addr)
      BY <1>6, <3>1 DEF PlacesInv
    <3>3. PICK k \in DOMAIN ns : ns[k] = nodes[j]
      BY <2>2, <3>2 DEF Record
    <3>4. k \in DOMAIN nodes'
      BY <1>2
    <3> QED
      BY <1>2, <3>1, <3>2, <3>3, <3>4
  <2> QED
    BY <2>1, <2>2
<1>7. Disjoint(nodes)' /\ \A k \in DOMAIN nodes' : Span(nodes[k])' = Span(nodes'[k])
  BY <1>4 DEF Disjoint, Span, ElementsAt
<1> QED
  BY <1>1, <1>5, <1>6, <1>7 DEF PlacesInv, Record, None

\* Where the pending node goes, whether or not an old record is removed.
LEMMA PlacesProvisionEnd ==
    ASSUME TypeInv, PlacesInv, ProvisionEnd
    PROVE  PlacesInv'
<1>0. pending # None /\ pending' = None /\ nodes \in Seq(Records)
      /\ dev' = [dev EXCEPT ![pending.dev] = [addr |-> pending.addr, seq |-> 0]]
  BY DEF ProvisionEnd, TypeInv, NodesOK
<1>1. CASE nodes' = Append(nodes, pending)
  BY <1>0, <1>1, PlacesAppend DEF PlacesInv
<1>2. ASSUME NEW i \in DOMAIN nodes, nodes[i].dev = pending.dev,
             nodes' = Append(Without(i), pending)
      PROVE  PlacesInv'
  <2>1. Without(i) \in Seq(Records)
    BY <1>0, WithoutOK
  <2>2. Disjoint(Without(i))
    BY <1>0, WithoutOthers DEF PlacesInv
  <2>3. \A k \in DOMAIN Without(i) : \E j \in DOMAIN nodes : Without(i)[k] = nodes[j]
    BY <1>0, WithoutOthers
  <2>4. ASSUME NEW j \in DOMAIN nodes, nodes[j].dev # pending.dev
        PROVE  \E k \in DOMAIN Without(i) : Without(i)[k] = nodes[j]
    <3>1. j \in DOMAIN nodes \ {i}
      BY <1>2, <2>4
    <3> QED
      BY <1>0, <3>1, WithoutOthers
  <2> QED
    BY <1>0, <1>2, <2>1, <2>2, <2>3, <2>4, PlacesAppend
<1> QED
  BY <1>1, <1>2 DEF ProvisionEnd

LEMMA PlacesInit == Init => PlacesInv
<1> SUFFICES ASSUME Init PROVE PlacesInv
  OBVIOUS
<1>1. nodes = <<>> /\ pending = None /\ DOMAIN nodes = {}
  BY DEF Init
<1>2. dev = [d \in Devices |-> [addr |-> 0, seq |-> 0]]
  BY DEF Init
<1> QED
  BY <1>1, <1>2 DEF PlacesInv, Disjoint

LEMMA PlacesStep == TypeInv /\ PlacesInv /\ [Next]_vars => PlacesInv'
<1> SUFFICES ASSUME TypeInv, PlacesInv, [Next]_vars PROVE PlacesInv'
  OBVIOUS
<1>0. ASSUME UNCHANGED <<nodes, pending, dev>> PROVE PlacesInv'
  BY <1>0 DEF PlacesInv, Disjoint, Span, ElementsAt
<1>1. CASE Send
  BY <1>0, <1>1 DEF Send
<1>2. CASE IvUpdate
  BY <1>0, <1>2 DEF IvUpdate
<1>3. ASSUME NEW d \in Devices, NEW a \in Addresses, NEW s \in 1 .. MaxSeq, Receive(d, a, s)
      PROVE  PlacesInv'
  <2>0. s \in Nat
    BY ReplayListAssumption
  <2>1. /\ nodes' = nodes /\ pending' = pending
        /\ dev' = [dev EXCEPT ![d].seq = IF s > @ THEN s ELSE @]
    BY <1>3 DEF Receive
  <2>2. dev' \in [Devices -> [addr : Nat, seq : Nat]]
        /\ \A e \in Devices : dev'[e].addr = dev[e].addr
    BY <2>0, <2>1 DEF PlacesInv
  <2> QED
    BY <2>1, <2>2 DEF PlacesInv, Disjoint, Span, ElementsAt
<1>4. ASSUME NEW d \in Devices, NEW a \in Addresses, GiveAddress(d, a)
      PROVE  PlacesInv'
  <2>1. nodes' = nodes /\ dev' = dev /\ pending' = Record(d, a) /\ FreeAt(d, a)
    BY <1>4 DEF GiveAddress, IsAllocated
  <2>2. Span(pending') = ElementsAt(d, a)
    BY <2>1 DEF Span, Record
  <2>3. /\ ElementsAt(d, a) \subseteq Addresses
        /\ \A i \in DOMAIN nodes : Span(nodes[i]) \cap ElementsAt(d, a) = {}
    BY <2>1 DEF FreeAt, Taken, Span
  <2>4. Span(pending)' = Span(pending') /\ Disjoint(nodes)' = Disjoint(nodes)
        /\ \A i \in DOMAIN nodes : Span(nodes[i])' = Span(nodes[i])
    BY <2>1 DEF Span, ElementsAt, Disjoint
  <2> QED
    BY <2>1, <2>2, <2>3, <2>4 DEF PlacesInv
<1>5. CASE ProvisionEnd
  BY <1>5, PlacesProvisionEnd
<1>6. CASE ProvisionFails
  BY <1>6 DEF ProvisionFails, PlacesInv, Disjoint, Span, ElementsAt
<1>7. ASSUME NEW i \in DOMAIN nodes, RemoveNode(i) PROVE PlacesInv'
  BY <1>7, PlacesWithout DEF RemoveNode
<1>8. ASSUME NEW i \in DOMAIN nodes, Import(i) PROVE PlacesInv'
  BY <1>8, PlacesWithout DEF Import
<1>9. ASSUME NEW d \in Devices, FactoryReset(d) PROVE PlacesInv'
  <2>1. /\ nodes' = nodes /\ pending' = pending
        /\ dev' = [dev EXCEPT ![d] = [addr |-> 0, seq |-> 0]]
    BY <1>9 DEF FactoryReset
  <2>2. dev' \in [Devices -> [addr : Nat, seq : Nat]]
        /\ \A e \in Devices : dev'[e].addr # 0 => dev'[e].addr = dev[e].addr
    BY <2>1 DEF PlacesInv
  <2> QED
    BY <2>1, <2>2 DEF PlacesInv, Disjoint, Span, ElementsAt
<1>10. ASSUME NEW inside \in Inside, Reopen(inside) PROVE PlacesInv'
  BY <1>10 DEF Reopen, PlacesInv, Disjoint, Span, ElementsAt
<1>11. CASE UNCHANGED vars
  BY <1>0, <1>11 DEF vars
<1> QED
  BY <1>1, <1>2, <1>3, <1>4, <1>5, <1>6, <1>7, <1>8, <1>9, <1>10, <1>11 DEF Next

-----------------------------------------------------------------------------
(***************************************************************************)
(* What the core has for the addresses of a node.  An address that was      *)
(* given has no entry until the device sends from it.                       *)
(***************************************************************************)
HearInv ==
    /\ pending # None => \A a \in Span(pending) : core.rpl[a] = 0
    /\ NewNodeHeard

\* The entries only get smaller and the nodes that remain are where they were.
LEMMA HearSmaller ==
    ASSUME TypeInv, PlacesInv, HearInv, TypeInv',
           \A a \in Addresses : core'.rpl[a] <= core.rpl[a],
           \A k \in DOMAIN nodes' : \E j \in DOMAIN nodes : nodes'[k] = nodes[j],
           \A d \in Devices : dev'[d].addr # 0 => dev'[d] = dev[d],
           pending' \in {pending, None}
    PROVE  HearInv'
<1>1. ASSUME NEW k \in DOMAIN nodes', dev'[nodes'[k].dev].addr = nodes'[k].addr,
             NEW a \in Span(nodes'[k])
      PROVE  core'.rpl[a] <= dev'[nodes'[k].dev].seq
  <2>1. PICK j \in DOMAIN nodes : nodes'[k] = nodes[j]
    OBVIOUS
  <2>2. nodes[j] \in Records /\ nodes[j].dev \in Devices /\ nodes[j].addr # 0
    BY WithoutOK DEF TypeInv, NodesOK, Records, Addresses
  <2>3. dev'[nodes[j].dev] = dev[nodes[j].dev]
    BY <1>1, <2>1, <2>2
  <2>4. a \in Addresses /\ core.rpl[a] <= dev[nodes[j].dev].seq
    BY <1>1, <2>1, <2>3 DEF HearInv, NewNodeHeard, Present, PlacesInv, Span
  <2>5. core'.rpl[a] \in Nat /\ core.rpl[a] \in Nat /\ dev[nodes[j].dev].seq \in Nat
    BY <2>2, <2>4 DEF TypeInv, CoreOK, PlacesInv
  <2> QED
    BY <2>1, <2>3, <2>4, <2>5
<1>2. NewNodeHeard'
  BY <1>1 DEF NewNodeHeard, Present, Span, ElementsAt
<1>3. ASSUME pending' # None, NEW a \in Span(pending') PROVE core'.rpl[a] = 0
  <2>1. pending' = pending /\ a \in Addresses /\ core.rpl[a] = 0
    BY <1>3 DEF HearInv, PlacesInv
  <2>2. core'.rpl[a] \in Nat /\ core'.rpl[a] <= 0
    BY <2>1 DEF TypeInv, CoreOK
  <2> QED
    BY <2>2
<1>4. Span(pending)' = Span(pending')
  BY DEF Span, ElementsAt
<1> QED
  BY <1>2, <1>3, <1>4 DEF HearInv, None

LEMMA HearStep == TypeInv /\ PlacesInv /\ HearInv /\ [Next]_vars => HearInv'
<1> SUFFICES ASSUME TypeInv, PlacesInv, HearInv, [Next]_vars, TypeInv', PlacesInv'
             PROVE  HearInv'
  BY TypeStep, PlacesStep
<1>0. ASSUME UNCHANGED <<nodes, pending, dev>>, core'.rpl = core.rpl PROVE HearInv'
  BY <1>0 DEF HearInv, NewNodeHeard, Present, Span, ElementsAt
<1>1. CASE Send
  BY <1>0, <1>1 DEF Send, TypeInv, CoreOK
<1>2. CASE IvUpdate
  BY <1>0, <1>2 DEF IvUpdate, TypeInv, CoreOK
<1>3. ASSUME NEW d \in Devices, NEW a \in Addresses, NEW s \in 1 .. MaxSeq, Receive(d, a, s)
      PROVE  HearInv'
  <2>0. s \in Nat
    BY ReplayListAssumption
  <2>1. /\ nodes' = nodes /\ pending' = pending
        /\ \A b \in Addresses : core'.rpl[b] = IF b = a THEN s ELSE core.rpl[b]
    BY <1>3 DEF Receive, TypeInv, CoreOK
  <2>2. /\ \A e \in Devices : dev'[e].addr = dev[e].addr /\ dev[e].seq <= dev'[e].seq
        /\ s <= dev'[d].seq
    BY <1>3, <2>0 DEF Receive, PlacesInv
  <2>3. PICK j \in DOMAIN nodes : nodes[j] = Record(d, dev[d].addr) /\ a \in Span(nodes[j])
    BY <1>3 DEF Receive, PlacesInv, Record, Span
  <2>4. ASSUME NEW i \in DOMAIN nodes, dev'[nodes[i].dev].addr = nodes[i].addr,
               NEW b \in Span(nodes[i])
        PROVE  core'.rpl[b] <= dev'[nodes[i].dev].seq
    <3>1. nodes[i].dev \in Devices /\ b \in Addresses
      BY WithoutOK DEF TypeInv, NodesOK, Records, PlacesInv
    <3>2. CASE b = a
      <4>1. i = j
        BY <2>3, <3>2, <2>4 DEF PlacesInv, Disjoint
      <4> QED
        BY <2>1, <2>2, <2>3, <3>1, <3>2, <4>1 DEF Record
    <3>3. CASE b # a
      <4>1. core.rpl[b] <= dev[nodes[i].dev].seq
        BY <2>2, <2>4, <3>1 DEF HearInv, NewNodeHeard, Present, Span
      <4>2. dev[nodes[i].dev].seq \in Nat /\ dev'[nodes[i].dev].seq \in Nat /\ core.rpl[b] \in Nat
        BY <3>1 DEF PlacesInv, TypeInv, CoreOK
      <4> QED
        BY <2>1, <2>2, <3>1, <3>3, <4>1, <4>2
    <3> QED
      BY <3>2, <3>3
  <2>5. NewNodeHeard'
    BY <2>1, <2>4 DEF NewNodeHeard, Present, Span, ElementsAt
  <2>6. ASSUME pending # None, NEW b \in Span(pending) PROVE core'.rpl[b] = 0
    <3>1. b \in Addresses /\ b # a /\ core.rpl[b] = 0
      BY <2>3, <2>6 DEF PlacesInv, HearInv
    <3> QED
      BY <2>1, <3>1
  <2>7. Span(pending)' = Span(pending)
    BY <2>1 DEF Span, ElementsAt
  <2> QED
    BY <2>1, <2>5, <2>6, <2>7 DEF HearInv, None
<1>4. ASSUME NEW d \in Devices, NEW a \in Addresses, GiveAddress(d, a)
      PROVE  HearInv'
  <2>1. /\ nodes' = nodes /\ dev' = dev /\ pending' = Record(d, a)
        /\ Forget(ElementsAt(d, a)) /\ ElementsAt(d, a) \subseteq Addresses
    BY <1>4 DEF GiveAddress, IsAllocated, FreeAt, Given
  <2>2. \A b \in Addresses : core'.rpl[b] = IF b \in ElementsAt(d, a) THEN 0 ELSE core.rpl[b]
    BY <2>1, ForgetKeeps DEF TypeInv
  <2>3. ASSUME NEW i \in DOMAIN nodes, dev[nodes[i].dev].addr = nodes[i].addr,
               NEW b \in Span(nodes[i])
        PROVE  core'.rpl[b] <= dev[nodes[i].dev].seq
    <3>1. nodes[i].dev \in Devices /\ b \in Addresses
      BY WithoutOK DEF TypeInv, NodesOK, Records, PlacesInv
    <3>2. core.rpl[b] <= dev[nodes[i].dev].seq
      BY <2>3 DEF HearInv, NewNodeHeard, Present, Span
    <3>3. dev[nodes[i].dev].seq \in Nat /\ core.rpl[b] \in Nat
      BY <3>1 DEF PlacesInv, TypeInv, CoreOK
    <3> QED
      BY <2>2, <3>1, <3>2, <3>3
  <2>4. NewNodeHeard'
    BY <2>1, <2>3 DEF NewNodeHeard, Present, Span, ElementsAt
  <2>5. Span(pending)' = ElementsAt(d, a)
    BY <2>1 DEF Span, Record, ElementsAt
  <2> QED
    BY <2>1, <2>2, <2>4, <2>5 DEF HearInv
<1>5. CASE ProvisionEnd
  <2>0. /\ pending # None /\ pending' = None /\ pending \in Records /\ nodes \in Seq(Records)
        /\ dev' = [dev EXCEPT ![pending.dev] = [addr |-> pending.addr, seq |-> 0]]
    BY <1>5 DEF ProvisionEnd, TypeInv, NodesOK
  <2>1. \A a \in Addresses : core'.rpl[a] = 0 \/ core'.rpl[a] = core.rpl[a]
    <3>1. ASSUME NEW i \in DOMAIN nodes, Forget({AfterRemoval(i).addr})
          PROVE  \A a \in Addresses : core'.rpl[a] = 0 \/ core'.rpl[a] = core.rpl[a]
      <4>1. {AfterRemoval(i).addr} \in SUBSET Addresses
        BY <2>0, WithoutOK DEF Records
      <4> QED
        BY <3>1, <4>1, ForgetKeeps DEF TypeInv
    <3> QED
      BY <1>5, <3>1 DEF ProvisionEnd
  <2>2. \A k \in DOMAIN nodes' : nodes'[k] = pending \/ \E j \in DOMAIN nodes : nodes'[k] = nodes[j]
    <3>1. ASSUME NEW ns \in Seq(Records), nodes' = Append(ns, pending),
                 \A k \in DOMAIN ns : \E j \in DOMAIN nodes : ns[k] = nodes[j],
                 NEW k \in DOMAIN nodes'
          PROVE  nodes'[k] = pending \/ \E j \in DOMAIN nodes : nodes'[k] = nodes[j]
      <4>1. /\ DOMAIN ns = 1 .. Len(ns) /\ Len(ns) \in Nat
            /\ k \in 1 .. (Len(ns) + 1)
            /\ \A l \in 1 .. Len(ns) : nodes'[l] = ns[l]
            /\ nodes'[Len(ns) + 1] = pending
        BY <2>0, <3>1, LenProperties, AppendProperties
      <4>2. k \in DOMAIN ns \/ k = Len(ns) + 1
        BY <4>1
      <4> QED
        BY <3>1, <4>1, <4>2
    <3>2. CASE nodes' = Append(nodes, pending)
      BY <2>0, <3>1, <3>2
    <3>3. ASSUME NEW i \in DOMAIN nodes, nodes' = Append(Without(i), pending)
          PROVE  \A k \in DOMAIN nodes' :
                    nodes'[k] = pending \/ \E j \in DOMAIN nodes : nodes'[k] = nodes[j]
      <4>1. Without(i) \in Seq(Records)
        BY <2>0, WithoutOK
      <4>2. \A k \in DOMAIN Without(i) : \E j \in DOMAIN nodes : Without(i)[k] = nodes[j]
        BY <2>0, WithoutOthers
      <4> QED
        BY <3>1, <3>3, <4>1, <4>2
    <3> QED
      BY <1>5, <3>2, <3>3 DEF ProvisionEnd
  <2>3. ASSUME NEW k \in DOMAIN nodes', dev'[nodes'[k].dev].addr = nodes'[k].addr,
               NEW a \in Span(nodes'[k])
        PROVE  core'.rpl[a] <= dev'[nodes'[k].dev].seq
    <3>0. pending.dev \in Devices /\ dev'[pending.dev] = [addr |-> pending.addr, seq |-> 0]
      BY <2>0 DEF Records, PlacesInv
    <3>1. CASE nodes'[k] = pending
      <4>1. a \in Addresses /\ core.rpl[a] = 0
        BY <2>0, <2>3, <3>1 DEF HearInv, PlacesInv
      <4>2. core'.rpl[a] = 0
        BY <2>1, <4>1
      <4> QED
        BY <3>0, <3>1, <4>2
    <3>2. ASSUME NEW j \in DOMAIN nodes, nodes'[k] = nodes[j]
          PROVE  core'.rpl[a] <= dev'[nodes'[k].dev].seq
      <4>1. nodes[j] \in Records /\ nodes[j].dev \in Devices
        BY <2>0, WithoutOK DEF Records
      <4>2. nodes[j].addr \in Span(nodes[j]) /\ pending.addr \in Span(pending)
        BY <2>0, <4>1, SpanHasAddress
      <4>3. nodes[j].dev # pending.dev
        BY <2>0, <2>3, <3>0, <3>2, <4>2 DEF PlacesInv
      <4>4. dev'[nodes[j].dev] = dev[nodes[j].dev]
        BY <2>0, <4>1, <4>3 DEF PlacesInv
      <4>5. a \in Addresses /\ core.rpl[a] <= dev[nodes[j].dev].seq
        BY <2>3, <3>2, <4>4 DEF HearInv, NewNodeHeard, Present, PlacesInv, Span
      <4>6. dev[nodes[j].dev].seq \in Nat
        BY <4>1 DEF PlacesInv
      <4> QED
        BY <2>1, <3>2, <4>4, <4>5, <4>6
    <3> QED
      BY <2>2, <3>1, <3>2
  <2>4. NewNodeHeard'
    BY <2>3 DEF NewNodeHeard, Present, Span, ElementsAt
  <2> QED
    BY <2>0, <2>4 DEF HearInv, None
<1>6. CASE ProvisionFails
  BY <1>6 DEF ProvisionFails, HearInv, NewNodeHeard, Present, None
<1>7. ASSUME NEW i \in DOMAIN nodes, RemoveNode(i) PROVE HearInv'
  <2>0. nodes \in Seq(Records) /\ nodes[i] \in Records
    BY WithoutOK DEF TypeInv, NodesOK
  <2>1. \A a \in Addresses : core'.rpl[a] <= core.rpl[a]
    <3>1. {nodes[i].addr} \in SUBSET Addresses
      BY <2>0 DEF Records
    <3>2. \A a \in Addresses : core'.rpl[a] = IF a \in {nodes[i].addr} THEN 0 ELSE core.rpl[a]
      BY <1>7, <3>1, ForgetKeeps DEF RemoveNode, TypeInv
    <3> QED
      BY <3>2 DEF TypeInv, CoreOK
  <2>2. \A k \in DOMAIN nodes' : \E j \in DOMAIN nodes : nodes'[k] = nodes[j]
    BY <1>7, <2>0, WithoutOthers DEF RemoveNode
  <2>3. \A d \in Devices : dev'[d].addr # 0 => dev'[d] = dev[d]
    BY <1>7, <2>0 DEF RemoveNode, PlacesInv, Records
  <2> QED
    BY <1>7, <2>1, <2>2, <2>3, HearSmaller DEF RemoveNode
<1>8. ASSUME NEW i \in DOMAIN nodes, Import(i) PROVE HearInv'
  <2>0. nodes \in Seq(Records) /\ nodes[i] \in Records
    BY WithoutOK DEF TypeInv, NodesOK
  <2>1. \A a \in Addresses : core'.rpl[a] <= core.rpl[a]
    BY <1>8 DEF Import, TypeInv, CoreOK
  <2>2. \A k \in DOMAIN nodes' : \E j \in DOMAIN nodes : nodes'[k] = nodes[j]
    BY <1>8, <2>0, WithoutOthers DEF Import
  <2>3. \A d \in Devices : dev'[d].addr # 0 => dev'[d] = dev[d]
    BY <1>8, <2>0 DEF Import, PlacesInv, Records
  <2> QED
    BY <1>8, <2>1, <2>2, <2>3, HearSmaller DEF Import
<1>9. ASSUME NEW d \in Devices, FactoryReset(d) PROVE HearInv'
  <2>1. \A a \in Addresses : core'.rpl[a] <= core.rpl[a]
    BY <1>9 DEF FactoryReset, TypeInv, CoreOK
  <2>2. \A e \in Devices : dev'[e].addr # 0 => dev'[e] = dev[e]
    BY <1>9 DEF FactoryReset, PlacesInv
  <2> QED
    BY <1>9, <2>1, <2>2, HearSmaller DEF FactoryReset
<1>10. ASSUME NEW inside \in Inside, Reopen(inside) PROVE HearInv'
  <2>1. \A a \in Addresses : core'.rpl[a] <= core.rpl[a]
    <3>1. core'.rpl = EmptyList
      BY <1>10 DEF Reopen, Opened
    <3> QED
      BY <3>1 DEF EmptyList, TypeInv, CoreOK
  <2> QED
    BY <1>10, <2>1, HearSmaller DEF Reopen
<1>11. CASE UNCHANGED vars
  BY <1>0, <1>11 DEF vars
<1> QED
  BY <1>1, <1>2, <1>3, <1>4, <1>5, <1>6, <1>7, <1>8, <1>9, <1>10, <1>11 DEF Next

\* What a node sends next is accepted, whoever had its addresses before and however
\* that node left: also when its own records were not the ones deleted.
THEOREM NodesAreHeard == Spec => []NewNodeHeard
<1> DEFINE Inv == TypeInv /\ PlacesInv /\ HearInv
<1>1. Init => Inv
  <2>1. Init => HearInv
    BY DEF Init, HearInv, NewNodeHeard
  <2> QED
    BY <2>1, TypeInit, PlacesInit
<1>2. Inv /\ [Next]_vars => Inv'
  BY TypeStep, PlacesStep, HearStep
<1>3. Inv => NewNodeHeard
  BY DEF HearInv
<1> QED
  BY <1>1, <1>2, <1>3, PTL DEF Spec

-----------------------------------------------------------------------------
(***************************************************************************)
(* What was heard of a node stays in the replay list, but for the one the    *)
(* end of a provisioning takes for the node it removed.                     *)
(***************************************************************************)
KeptInv ==
    /\ heard \in [Addresses -> Nat]
    /\ pending # None => \A a \in Span(pending) : heard[a] = 0

\* Each address of a node that is below what was heard after the step was so before, or
\* is one of those the step is allowed to forget.
LEMMA ForgottenOnly ==
    ASSUME NEW S,
           \A k \in DOMAIN nodes' : dev'[nodes'[k].dev].addr = nodes'[k].addr =>
              \A a \in Span(nodes'[k]) : a \in Addresses /\ core'.rpl[a] < heard'[a] =>
                 \/ a \in S
                 \/ /\ core.rpl[a] < heard[a]
                    /\ \E i \in DOMAIN nodes : Present(i) /\ a \in Span(nodes[i])
    PROVE  Forgotten' \subseteq Forgotten \cup S
BY DEF Forgotten, Present, Span, ElementsAt

\* Nodes leave the database, and entries only for addresses no other node has.
LEMMA KeptWithout ==
    ASSUME TypeInv, PlacesInv, KeptInv, NEW i \in DOMAIN nodes,
           \A a \in Addresses : a # nodes[i].addr => core'.rpl[a] = core.rpl[a],
           heard' = heard,
           \A d \in Devices : dev'[d].addr # 0 => dev'[d].addr = dev[d].addr,
           nodes' = Without(i), pending' = pending
    PROVE  KeptInv' /\ Forgotten' \subseteq Forgotten
<1>0. nodes \in Seq(Records) /\ nodes[i] \in Records /\ nodes[i].addr \in Span(nodes[i])
  BY WithoutOK, SpanHasAddress DEF TypeInv, NodesOK
<1>1. ASSUME NEW k \in DOMAIN nodes', dev'[nodes'[k].dev].addr = nodes'[k].addr,
             NEW a \in Span(nodes'[k]), core'.rpl[a] < heard'[a]
      PROVE  /\ core.rpl[a] < heard[a]
             /\ \E j \in DOMAIN nodes : Present(j) /\ a \in Span(nodes[j])
  <2>1. PICK j \in DOMAIN nodes \ {i} : nodes'[k] = nodes[j]
    BY <1>0, WithoutOthers
  <2>2. nodes[j].dev \in Devices /\ nodes[j].addr # 0
    BY <1>0, <2>1, WithoutOK DEF Records, Addresses
  <2>3. a \in Addresses /\ a # nodes[i].addr
    BY <1>0, <1>1, <2>1 DEF PlacesInv, Disjoint
  <2>4. Present(j) /\ a \in Span(nodes[j])
    BY <1>1, <2>1, <2>2 DEF Present
  <2> QED
    BY <1>1, <2>3, <2>4
<1>2. Forgotten' \subseteq Forgotten \cup {}
  BY <1>1, ForgottenOnly
<1>3. Span(pending)' = Span(pending)
  BY DEF Span, ElementsAt
<1> QED
  BY <1>2, <1>3 DEF KeptInv, None

LEMMA KeptProvisionEnd ==
    ASSUME TypeInv, PlacesInv, KeptInv, TypeInv', ProvisionEnd
    PROVE  KeptInv' /\ Forgotten' \subseteq Forgotten \cup {r.addr : r \in Follower}
<1>0. /\ pending # None /\ pending' = None /\ heard' = heard
      /\ pending \in Records /\ nodes \in Seq(Records)
      /\ dev' = [dev EXCEPT ![pending.dev] = [addr |-> pending.addr, seq |-> 0]]
  BY DEF ProvisionEnd, TypeInv, NodesOK
<1>1. ASSUME NEW ns \in Seq(Records), nodes' = Append(ns, pending),
             NEW gone \in SUBSET Addresses, NEW S,
             \A a \in Addresses \ gone : core'.rpl[a] = core.rpl[a],
             \A k \in DOMAIN ns :
                \E j \in DOMAIN nodes : ns[k] = nodes[j] /\ Span(nodes[j]) \cap gone \subseteq S
      PROVE  KeptInv' /\ Forgotten' \subseteq Forgotten \cup S
  <2>1. /\ DOMAIN ns = 1 .. Len(ns) /\ Len(ns) \in Nat
        /\ DOMAIN nodes' = 1 .. (Len(ns) + 1)
        /\ \A l \in 1 .. Len(ns) : nodes'[l] = ns[l]
        /\ nodes'[Len(ns) + 1] = pending
    BY <1>0, <1>1, LenProperties, AppendProperties
  <2>2. ASSUME NEW k \in DOMAIN nodes', dev'[nodes'[k].dev].addr = nodes'[k].addr,
               NEW a \in Span(nodes'[k]), core'.rpl[a] < heard'[a], a \notin S
        PROVE  /\ core.rpl[a] < heard[a]
               /\ \E i \in DOMAIN nodes : Present(i) /\ a \in Span(nodes[i])
    <3>1. CASE k = Len(ns) + 1
      <4>1. heard[a] = 0 /\ a \in Addresses
        BY <1>0, <2>1, <2>2, <3>1 DEF KeptInv, PlacesInv
      <4>2. core'.rpl[a] \in Nat
        BY <4>1 DEF TypeInv, CoreOK
      <4> QED
        BY <1>0, <2>2, <4>1, <4>2
    <3>2. CASE k \in DOMAIN ns
      <4>1. PICK j \in DOMAIN nodes : ns[k] = nodes[j] /\ Span(nodes[j]) \cap gone \subseteq S
        BY <1>1, <3>2
      <4>2. nodes'[k] = nodes[j]
        BY <2>1, <3>2, <4>1
      <4>3. nodes[j] \in Records /\ nodes[j].dev \in Devices
        BY <1>0, WithoutOK DEF Records
      <4>4. nodes[j].addr \in Span(nodes[j]) /\ pending.addr \in Span(pending)
        BY <1>0, <4>3, SpanHasAddress
      <4>5. pending.dev \in Devices /\ dev'[pending.dev] = [addr |-> pending.addr, seq |-> 0]
        BY <1>0 DEF Records, PlacesInv
      <4>6. nodes[j].dev # pending.dev
        BY <1>0, <2>2, <4>2, <4>4, <4>5 DEF PlacesInv
      <4>7. dev'[nodes[j].dev] = dev[nodes[j].dev]
        BY <1>0, <4>3, <4>6 DEF PlacesInv
      <4>8. Present(j) /\ a \in Span(nodes[j]) /\ a \in Addresses \ gone
        BY <2>2, <4>1, <4>2, <4>7 DEF Present, PlacesInv
      <4> QED
        BY <1>0, <1>1, <2>2, <4>8
    <3> QED
      BY <2>1, <3>1, <3>2
  <2>3. Forgotten' \subseteq Forgotten \cup S
    BY <2>2, ForgottenOnly
  <2> QED
    BY <1>0, <2>3 DEF KeptInv, None
<1>2. CASE nodes' = Append(nodes, pending) /\ UNCHANGED <<file, core>>
  <2> DEFINE S    == {r.addr : r \in Follower}
             none == {}
  <2>1. \A a \in Addresses \ none : core'.rpl[a] = core.rpl[a]
    BY <1>2
  <2>2. ASSUME NEW k \in DOMAIN nodes
        PROVE  \E j \in DOMAIN nodes : nodes[k] = nodes[j] /\ Span(nodes[j]) \cap none \subseteq S
    OBVIOUS
  <2>3. none \in SUBSET Addresses
    OBVIOUS
  <2> HIDE DEF S, none
  <2>4. KeptInv' /\ Forgotten' \subseteq Forgotten \cup S
    BY <1>0, <1>1, <1>2, <2>1, <2>2, <2>3
  <2> QED
    BY <2>4 DEF S
<1>3. ASSUME NEW i \in DOMAIN nodes, nodes[i].dev = pending.dev,
             nodes' = Append(Without(i), pending), Forget({AfterRemoval(i).addr})
      PROVE  KeptInv' /\ Forgotten' \subseteq Forgotten \cup {r.addr : r \in Follower}
  <2> DEFINE S == {r.addr : r \in Follower}
             x == AfterRemoval(i)
  <2>1. Len(nodes) \in Nat /\ DOMAIN nodes = 1 .. Len(nodes) /\ Without(i) \in Seq(Records)
    BY <1>0, WithoutOK, LenProperties
  <2>2. x = nodes[i] \/ x \in Follower
    BY <1>3, <2>1 DEF AfterRemoval, Follower
  <2>3. x \in Records /\ nodes[i] \in Records /\ nodes[i].addr \in Span(nodes[i])
    BY <1>0, <2>1, SpanHasAddress DEF AfterRemoval
  <2>4. x = nodes[i] \/ x.addr \in S
    BY <2>2
  <2> HIDE DEF x, S
  <2>5. {x.addr} \in SUBSET Addresses
    BY <2>3 DEF Records
  <2>6. \A a \in Addresses \ {x.addr} : core'.rpl[a] = core.rpl[a]
    BY <1>3, <2>5, ForgetKeeps DEF TypeInv, x
  <2>7. ASSUME NEW k \in DOMAIN Without(i)
        PROVE  \E j \in DOMAIN nodes :
                  Without(i)[k] = nodes[j] /\ Span(nodes[j]) \cap {x.addr} \subseteq S
    <3>1. PICK j \in DOMAIN nodes \ {i} : Without(i)[k] = nodes[j]
      BY <1>0, WithoutOthers
    <3>2. Span(nodes[j]) \cap {nodes[i].addr} = {}
      BY <2>3, <3>1 DEF PlacesInv, Disjoint
    <3> QED
      BY <2>4, <3>1, <3>2
  <2>8. KeptInv' /\ Forgotten' \subseteq Forgotten \cup S
    BY <1>1, <1>3, <2>1, <2>5, <2>6, <2>7
  <2> QED
    BY <2>8 DEF S
<1> QED
  BY <1>2, <1>3 DEF ProvisionEnd

\* What a step other than the end of a provisioning leaves of what was heard.
Keeps == KeptInv' /\ Forgotten' \subseteq Forgotten

LEMMA KeptStep ==
    ASSUME TypeInv, PlacesInv, KeptInv, [Next]_vars, TypeInv'
    PROVE  Keeps \/ ProvisionEnd
<1>0. ASSUME UNCHANGED <<nodes, pending, heard>>, core'.rpl = core.rpl,
             \A d \in Devices : dev'[d].addr # 0 => dev'[d].addr = dev[d].addr
      PROVE  Keeps
  <2>1. \A i \in DOMAIN nodes : nodes[i].dev \in Devices /\ nodes[i].addr # 0
    BY WithoutOK DEF TypeInv, NodesOK, Records, Addresses
  <2>2. Forgotten' \subseteq Forgotten \cup {}
    BY <1>0, <2>1, ForgottenOnly DEF Present, Span, ElementsAt
  <2> QED
    BY <1>0, <2>2 DEF Keeps, KeptInv, Span, ElementsAt
<1>1. CASE Send
  BY <1>0, <1>1 DEF Send, TypeInv, CoreOK
<1>2. CASE IvUpdate
  BY <1>0, <1>2 DEF IvUpdate, TypeInv, CoreOK
<1>3. ASSUME NEW d \in Devices, NEW a \in Addresses, NEW s \in 1 .. MaxSeq, Receive(d, a, s)
      PROVE  Keeps
  <2>0. s \in Nat /\ s > core.rpl[a] /\ core.rpl[a] \in Nat
    BY <1>3, ReplayListAssumption DEF Receive, TypeInv, CoreOK
  <2>1. /\ nodes' = nodes /\ pending' = pending
        /\ \A b \in Addresses : core'.rpl[b] = IF b = a THEN s ELSE core.rpl[b]
        /\ heard' = [heard EXCEPT ![a] = IF s > @ THEN s ELSE @]
    BY <1>3 DEF Receive, TypeInv, CoreOK
  <2>2. \A e \in Devices : dev'[e].addr = dev[e].addr
    BY <1>3, <2>0 DEF Receive, PlacesInv
  <2>3. PICK j \in DOMAIN nodes : nodes[j] = Record(d, dev[d].addr) /\ a \in Span(nodes[j])
    BY <1>3 DEF Receive, PlacesInv, Record, Span
  <2>4. /\ heard[a] \in Nat /\ heard' \in [Addresses -> Nat]
        /\ heard'[a] = IF s > heard[a] THEN s ELSE heard[a]
        /\ \A b \in Addresses : b # a => heard'[b] = heard[b]
    BY <2>0, <2>1 DEF KeptInv
  <2>5. \A b \in Addresses : core'.rpl[b] < heard'[b] => core.rpl[b] < heard[b]
    BY <2>0, <2>1, <2>4
  <2>6. \A i \in DOMAIN nodes : nodes[i].dev \in Devices
    BY WithoutOK DEF TypeInv, NodesOK, Records
  <2>7. Forgotten' \subseteq Forgotten \cup {}
    BY <2>1, <2>2, <2>5, <2>6, ForgottenOnly DEF Present, Span, ElementsAt
  <2>8. pending # None => \A b \in Span(pending) : b # a /\ b \in Addresses
    BY <2>3 DEF PlacesInv
  <2>9. Span(pending)' = Span(pending)
    BY <2>1 DEF Span, ElementsAt
  <2> QED
    BY <2>1, <2>4, <2>7, <2>8, <2>9 DEF Keeps, KeptInv, None
<1>4. ASSUME NEW d \in Devices, NEW a \in Addresses, GiveAddress(d, a)
      PROVE  Keeps
  <2>1. /\ nodes' = nodes /\ dev' = dev /\ pending' = Record(d, a)
        /\ Forget(ElementsAt(d, a)) /\ ElementsAt(d, a) \subseteq Addresses
        /\ \A i \in DOMAIN nodes : Span(nodes[i]) \cap ElementsAt(d, a) = {}
        /\ heard' = [b \in Addresses |-> IF b \in ElementsAt(d, a) THEN 0 ELSE heard[b]]
    BY <1>4 DEF GiveAddress, IsAllocated, FreeAt, Given, Taken, Span
  <2>2. \A b \in Addresses : core'.rpl[b] = IF b \in ElementsAt(d, a) THEN 0 ELSE core.rpl[b]
    BY <2>1, ForgetKeeps DEF TypeInv
  <2>3. \A b \in Addresses \ ElementsAt(d, a) :
           core'.rpl[b] < heard'[b] => core.rpl[b] < heard[b]
    BY <2>1, <2>2
  <2>4. ASSUME NEW k \in DOMAIN nodes', dev'[nodes'[k].dev].addr = nodes'[k].addr,
               NEW b \in Span(nodes'[k]), b \in Addresses, core'.rpl[b] < heard'[b]
        PROVE  /\ core.rpl[b] < heard[b]
               /\ \E i \in DOMAIN nodes : Present(i) /\ b \in Span(nodes[i])
    <3>1. b \notin ElementsAt(d, a)
      BY <2>1, <2>4
    <3>2. Present(k) /\ k \in DOMAIN nodes /\ b \in Span(nodes[k])
      BY <2>1, <2>4 DEF Present
    <3> QED
      BY <2>3, <2>4, <3>1, <3>2
  <2>5. Forgotten' \subseteq Forgotten \cup {}
    BY <2>4, ForgottenOnly
  <2>6. Span(pending)' = ElementsAt(d, a)
    BY <2>1 DEF Span, Record, ElementsAt
  <2>7. heard' \in [Addresses -> Nat]
    BY <2>1 DEF KeptInv
  <2>8. \A b \in ElementsAt(d, a) : heard'[b] = 0
    BY <2>1
  <2> QED
    BY <2>5, <2>6, <2>7, <2>8 DEF Keeps, KeptInv
<1>5. CASE ProvisionFails
  <2>1. Forgotten' \subseteq Forgotten
    BY <1>5 DEF ProvisionFails, Forgotten, Present, ElementsAt
  <2> QED
    BY <1>5, <2>1 DEF ProvisionFails, Keeps, KeptInv, None
<1>6. ASSUME NEW i \in DOMAIN nodes, RemoveNode(i) PROVE Keeps
  <2>0. nodes[i] \in Records /\ {nodes[i].addr} \in SUBSET Addresses /\ nodes[i].dev \in Devices
    BY WithoutOK DEF TypeInv, NodesOK, Records
  <2>1. \A a \in Addresses : a # nodes[i].addr => core'.rpl[a] = core.rpl[a]
    BY <1>6, <2>0, ForgetKeeps DEF RemoveNode, TypeInv
  <2>2. \A d \in Devices : dev'[d].addr # 0 => dev'[d].addr = dev[d].addr
    BY <1>6, <2>0 DEF RemoveNode, PlacesInv
  <2> QED
    BY <1>6, <2>1, <2>2, KeptWithout DEF RemoveNode, Keeps
<1>7. ASSUME NEW i \in DOMAIN nodes, Import(i) PROVE Keeps
  <2>0. nodes[i] \in Records /\ nodes[i].dev \in Devices
    BY WithoutOK DEF TypeInv, NodesOK, Records
  <2>2. \A d \in Devices : dev'[d].addr # 0 => dev'[d].addr = dev[d].addr
    BY <1>7, <2>0 DEF Import, PlacesInv
  <2> QED
    BY <1>7, <2>2, KeptWithout DEF Import, Keeps
<1>8. ASSUME NEW d \in Devices, FactoryReset(d) PROVE Keeps
  <2>1. \A e \in Devices : dev'[e].addr # 0 => dev'[e].addr = dev[e].addr
    BY <1>8 DEF FactoryReset, PlacesInv
  <2> QED
    BY <1>0, <1>8, <2>1 DEF FactoryReset
<1>9. ASSUME NEW inside \in Inside, Reopen(inside) PROVE Keeps
  <2>1. core'.rpl = EmptyList /\ heard' = EmptyList /\ pending' = None
    BY <1>9 DEF Reopen, Opened
  <2>2. \A a \in Addresses : ~ (core'.rpl[a] < heard'[a])
    BY <2>1 DEF EmptyList
  <2>3. Forgotten' = {}
    BY <2>2 DEF Forgotten
  <2>4. EmptyList \in [Addresses -> Nat]
    BY DEF EmptyList
  <2> QED
    BY <2>1, <2>3, <2>4 DEF Keeps, KeptInv, None
<1>10. CASE UNCHANGED vars
  BY <1>0, <1>10 DEF vars
<1> QED
  BY <1>1, <1>2, <1>3, <1>4, <1>5, <1>6, <1>7, <1>8, <1>9, <1>10 DEF Next

\* What was accepted from a node is not accepted again while the network is open, whatever
\* nodes come, go and take over addresses; but for the one node that stands, in the array,
\* behind a device that is provisioned again (mesh_provision_process_provision_end).
THEOREM OnlyFollowerIsForgotten == Spec => OnlyFollowerForgotten
<1> DEFINE Inv == TypeInv /\ PlacesInv /\ KeptInv
           Step == \/ Forgotten' \subseteq Forgotten
                   \/ ProvisionEnd /\ Forgotten' \subseteq Forgotten \cup {r.addr : r \in Follower}
<1>1. Init => Inv
  <2>1. Init => KeptInv
    BY DEF Init, KeptInv, EmptyList
  <2> QED
    BY <2>1, TypeInit, PlacesInit
<1>2. Inv /\ [Next]_vars => Inv' /\ Step
  <2> SUFFICES ASSUME Inv, [Next]_vars PROVE Inv' /\ Step
    OBVIOUS
  <2>1. TypeInv' /\ PlacesInv'
    BY TypeStep, PlacesStep
  <2>2. CASE ProvisionEnd
    BY <2>1, <2>2, KeptProvisionEnd
  <2>3. CASE Keeps
    BY <2>1, <2>3 DEF Keeps
  <2> QED
    BY <2>1, <2>2, <2>3, KeptStep
<1>3. Inv /\ [Next]_vars => Inv' /\ [Step]_vars
  BY <1>2
<1> QED
  BY <1>1, <1>3, PTL DEF Spec, OnlyFollowerForgotten
=============================================================================
