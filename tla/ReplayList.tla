------------------------------ MODULE ReplayList ------------------------------
(***************************************************************************)
(* The file in which the client keeps the IV index and the last sequence    *)
(* numbers (mesh_process_iv_changed, mesh_process_seq_changed, mesh_del_seq, *)
(* download_iv and download_rpl_list of                                     *)
(* src/mesh_client_lib/wiced_mesh_client.c), the replay list of the mesh     *)
(* core it belongs to, and the handlers that give addresses to nodes, create *)
(* and remove them.                                                        *)
(*                                                                         *)
(* The mesh core is not part of the repository.  It reports a sequence      *)
(* number of its own before it uses it, under the address 0, and one it     *)
(* accepted after it; it reports a new IV index and goes on from 0.         *)
(*                                                                         *)
(* Abstracted: the messages of a device are numbered through, whatever the  *)
(* IV index; what is between giving an address and the end of provisioning  *)
(* (module Provisioning) and between the reset of a node and its removal    *)
(* (module KeyRefresh).  Left out: the flag of the previous IV index, the   *)
(* width of the numbers, failures of the file system, and the removal of    *)
(* the file with the last network.                                         *)
(***************************************************************************)
EXTENDS Naturals, Sequences

CONSTANTS
    Devices,
    Elements,      \* how many elements, and so addresses, a device has
    MaxAddress,    \* the unicast addresses of nodes are 2 .. MaxAddress
    MaxSeq,        \* sequence numbers a device uses
    MaxIv,         \* IV updates
    MaxGiven,      \* addresses given
    MaxRestarts,   \* times the network is opened again
    Inside         \* whether the process may end inside mesh_del_seq: subset of BOOLEAN

ASSUME ReplayListAssumption ==
    /\ Elements \in [Devices -> Nat \ {0}]
    /\ {MaxAddress, MaxSeq, MaxIv, MaxGiven, MaxRestarts} \subseteq Nat
    /\ Inside \subseteq BOOLEAN

VARIABLES
    file,     \* the IV index and a number for each address with a record
    core,     \* the IV index, the own sequence number, and the replay list
    nodes,    \* the database: the nodes in the order of the array
    pending,  \* the device that is being provisioned and its address
    dev,      \* the address of each device and the number of its last message
    heard,    \* per address, the last message accepted since the network was opened
    last,     \* the last IV index and sequence number the client used
    used      \* how much of each bound was used

vars == <<file, core, nodes, pending, dev, heard, last, used>>

Own       == 0     \* the address of the client's own record
Addresses == 2 .. MaxAddress
Nobody    == "nobody"
None      == [dev |-> Nobody, addr |-> 0]

EmptyFile == [iv |-> 0, seq |-> [a \in {} |-> 0]]
EmptyList == [a \in Addresses |-> 0]

ElementsAt(d, a) == a .. (a + Elements[d] - 1)

-----------------------------------------------------------------------------
(* The file                                                                *)

\* Mutant of SeqChanged: a record that exists is left as it is.
SeqChangedOnce(f, a, s) ==
    IF a \in DOMAIN f.seq THEN f
    ELSE [f EXCEPT !.seq = [b \in DOMAIN @ \cup {a} |-> IF b = a THEN s ELSE @[b]]]

\* mesh_process_seq_changed
SeqChanged(f, a, s) ==
    [f EXCEPT !.seq = [b \in DOMAIN @ \cup {a} |-> IF b = a THEN s ELSE @[b]]]

\* Mutant of IvChanged: the record is only written when the file is new.
IvChangedOnce(f, iv) == IF f = EmptyFile THEN [f EXCEPT !.iv = iv] ELSE f

\* mesh_process_iv_changed
IvChanged(f, iv) == [f EXCEPT !.iv = iv]

\* Mutant of DelSeq: the record is cleared, not taken out.
DelSeqClears(f, gone) ==
    [f EXCEPT !.seq = [b \in DOMAIN @ |-> IF b \in gone THEN 0 ELSE @[b]]]

\* mesh_del_seq of one address after the other
DelSeq(f, gone) == [f EXCEPT !.seq = [b \in DOMAIN @ \ gone |-> @[b]]]

\* wiced_bt_mesh_core_del_seq
CoreDelSeq(gone) == [a \in Addresses |-> IF a \in gone THEN 0 ELSE core.rpl[a]]

Forget(gone) ==
    /\ file' = DelSeq(file, gone)
    /\ core' = [core EXCEPT !.rpl = CoreDelSeq(gone)]

\* download_rpl_list: only the own number is passed to the core.
OwnSeq(f) == IF Own \in DOMAIN f.seq THEN f.seq[Own] ELSE 0

\* configure_local_device: what the core knows when the network was opened.
Opened(f) == [iv |-> f.iv, seq |-> OwnSeq(f), rpl |-> EmptyList]

-----------------------------------------------------------------------------
(* The database                                                            *)

Record(d, a) == [dev |-> d, addr |-> a]

Taken(a) == \E i \in DOMAIN nodes : a \in ElementsAt(nodes[i].dev, nodes[i].addr)

\* Mutant of FreeAt: only the primary addresses of the nodes are compared.
FreeAtPrimary(d, a) ==
    ElementsAt(d, a) \subseteq Addresses
    /\ \A i \in DOMAIN nodes : nodes[i].addr \notin ElementsAt(d, a)

FreeAt(d, a) ==
    ElementsAt(d, a) \subseteq Addresses /\ \A b \in ElementsAt(d, a) : ~ Taken(b)

\* wiced_bt_mesh_db_alloc_unicast_addr: the lowest that has room for the elements.
IsAllocated(d, a) == FreeAt(d, a) /\ \A b \in 2 .. (a - 1) : ~ FreeAt(d, b)

Without(i) == SubSeq(nodes, 1, i - 1) \o SubSeq(nodes, i + 1, Len(nodes))

\* What node i of the array reads as once wiced_bt_mesh_db_node_remove moved the
\* later ones down: the next node, or still the removed one when it was the last.
AfterRemoval(i) == IF i = Len(nodes) THEN nodes[i] ELSE nodes[i + 1]

-----------------------------------------------------------------------------
Bounds == [ivs |-> MaxIv, given |-> MaxGiven, restarts |-> MaxRestarts]

Within(b) == used[b] < Bounds[b]
Count(b)  == used' = [used EXCEPT ![b] = @ + 1]

Init ==
    /\ file = EmptyFile
    /\ core = Opened(EmptyFile)
    /\ nodes = <<>>
    /\ pending = None
    /\ dev = [d \in Devices |-> [addr |-> 0, seq |-> 0]]
    /\ heard = EmptyList
    /\ last = [iv |-> 0, seq |-> 0]
    /\ used = [b \in DOMAIN Bounds |-> 0]

\* The client sends a message.
Send ==
    /\ core.seq < MaxSeq
    /\ core' = [core EXCEPT !.seq = @ + 1]
    /\ file' = SeqChanged(file, Own, core.seq + 1)
    /\ last' = [iv |-> core.iv, seq |-> core.seq + 1]
    /\ UNCHANGED <<nodes, pending, dev, heard, used>>

IvUpdate ==
    /\ Within("ivs") /\ Count("ivs")
    /\ core' = [core EXCEPT !.iv = @ + 1, !.seq = 0]
    /\ file' = IvChanged(file, core.iv + 1)
    /\ UNCHANGED <<nodes, pending, dev, heard, last>>

\* Message s of the element at address a of device d arrives, for the first time or again.
Receive(d, a, s) ==
    /\ dev[d].addr # 0 /\ a \in ElementsAt(d, dev[d].addr)
    /\ s \in 1 .. (dev[d].seq + 1) /\ s <= MaxSeq
    /\ s > core.rpl[a]
    /\ core' = [core EXCEPT !.rpl[a] = s]
    /\ file' = SeqChanged(file, a, s)
    /\ heard' = [heard EXCEPT ![a] = IF s > @ THEN s ELSE @]
    /\ dev' = [dev EXCEPT ![d].seq = IF s > @ THEN s ELSE @]
    /\ UNCHANGED <<nodes, pending, last, used>>

\* Mutant of Given: the records of the further elements are kept.
GivenPrimary(d, a) == {a}

\* The addresses mesh_provision_process_device_caps makes the file and the core forget.
Given(d, a) == ElementsAt(d, a)

\* mesh_provision_process_device_caps
GiveAddress(d, a) ==
    /\ Within("given") /\ Count("given")
    /\ pending = None /\ dev[d].addr = 0
    /\ IsAllocated(d, a)
    /\ pending' = Record(d, a)
    /\ Forget(Given(d, a))
    /\ heard' = [b \in Addresses |-> IF b \in ElementsAt(d, a) THEN 0 ELSE heard[b]]
    /\ UNCHANGED <<nodes, dev, last>>

\* mesh_provision_process_provision_end: a record of the same device is removed.
\* The node it goes on with is read after the removal.
ProvisionEnd ==
    /\ pending # None
    /\ dev' = [dev EXCEPT ![pending.dev] = [addr |-> pending.addr, seq |-> 0]]
    /\ pending' = None
    /\ \/ /\ \A i \in DOMAIN nodes : nodes[i].dev # pending.dev
          /\ nodes' = Append(nodes, pending)
          /\ UNCHANGED <<file, core>>
       \/ \E i \in DOMAIN nodes :
          /\ nodes[i].dev = pending.dev
          /\ nodes' = Append(Without(i), pending)
          /\ Forget({AfterRemoval(i).addr})
    /\ UNCHANGED <<heard, last, used>>

ProvisionFails ==
    /\ pending # None
    /\ pending' = None
    /\ UNCHANGED <<file, core, nodes, dev, heard, last, used>>

\* The end of mesh_key_refresh_phase3_completed: a node that was reset is removed.
RemoveNode(i) ==
    /\ nodes' = Without(i)
    /\ dev' = IF dev[nodes[i].dev].addr = nodes[i].addr
              THEN [dev EXCEPT ![nodes[i].dev] = [addr |-> 0, seq |-> 0]] ELSE dev
    /\ Forget({nodes[i].addr})
    /\ UNCHANGED <<pending, heard, last, used>>

\* A database is imported from which another provisioner removed a node.
Import(i) ==
    /\ nodes' = Without(i)
    /\ dev' = IF dev[nodes[i].dev].addr = nodes[i].addr
              THEN [dev EXCEPT ![nodes[i].dev] = [addr |-> 0, seq |-> 0]] ELSE dev
    /\ UNCHANGED <<file, core, pending, heard, last, used>>

\* A device that is not being provisioned is reset by hand; its record stays.
FactoryReset(d) ==
    /\ dev[d].addr # 0
    /\ dev' = [dev EXCEPT ![d] = [addr |-> 0, seq |-> 0]]
    /\ UNCHANGED <<file, core, nodes, pending, heard, last, used>>

\* The network is closed, or the process ends, and it is opened again.  Inside
\* mesh_del_seq the file is empty between the two calls of fopen and fclose.
Reopen(inside) ==
    /\ Within("restarts") /\ Count("restarts")
    /\ inside => \E a \in Addresses : a \in DOMAIN file.seq
    /\ file' = IF inside THEN EmptyFile ELSE file
    /\ core' = Opened(file')
    /\ pending' = None
    /\ heard' = EmptyList
    /\ UNCHANGED <<nodes, dev, last>>

Next ==
    \/ Send
    \/ IvUpdate
    \/ \E d \in Devices, a \in Addresses, s \in 1 .. MaxSeq : Receive(d, a, s)
    \/ \E d \in Devices, a \in Addresses : GiveAddress(d, a)
    \/ ProvisionEnd
    \/ ProvisionFails
    \/ \E i \in DOMAIN nodes : RemoveNode(i) \/ Import(i)
    \/ \E d \in Devices : FactoryReset(d)
    \/ \E inside \in Inside : Reopen(inside)

Spec == Init /\ [][Next]_vars

-----------------------------------------------------------------------------
(* Properties                                                              *)

\* The type invariant: no record of the file is for an address no element has, or holds
\* the number 0, which download_rpl_list could not tell from none.
TypeOK ==
    /\ file.iv \in Nat /\ core.iv \in Nat /\ core.seq \in Nat
    /\ DOMAIN file.seq \subseteq Addresses \cup {Own}
    /\ \A a \in DOMAIN file.seq : file.seq[a] \in Nat \ {0}
    /\ core.rpl \in [Addresses -> Nat] /\ heard \in [Addresses -> Nat]
    /\ \A i \in DOMAIN nodes : nodes[i].dev \in Devices /\ nodes[i].addr \in Addresses
    /\ pending = None \/ (pending.dev \in Devices /\ pending.addr \in Addresses)
    /\ \A d \in Devices : dev[d].addr \in Addresses \cup {0} /\ dev[d].seq \in Nat

Before(x, y) == x.iv < y.iv \/ (x.iv = y.iv /\ x.seq < y.seq)

\* The client never uses a sequence number again under the same IV index, also after
\* the network was closed, or the process ended, and it was opened again.
OwnSequenceFresh == [][Send => Before(last, last')]_vars

Present(i) == dev[nodes[i].dev].addr = nodes[i].addr

\* What a node sends next is accepted, whoever had its addresses before.
NewNodeHeard ==
    \A i \in DOMAIN nodes : Present(i) =>
        \A a \in ElementsAt(nodes[i].dev, nodes[i].addr) : core.rpl[a] <= dev[nodes[i].dev].seq

\* The addresses of nodes from which the client would accept a message again.
Forgotten ==
    {a \in Addresses :
        /\ core.rpl[a] < heard[a]
        /\ \E i \in DOMAIN nodes : Present(i) /\ a \in ElementsAt(nodes[i].dev, nodes[i].addr)}

\* The node that moves into the place of the device that is being provisioned again.
Follower == {nodes[i + 1] : i \in {j \in 1 .. (Len(nodes) - 1) : nodes[j].dev = pending.dev}}

\* While the network is open the client comes to accept an old message of a node only at
\* one place, the end of a provisioning of a device that has a record before another one:
\* mesh_provision_process_provision_end reads the address to forget after the array has
\* moved (5030-5034), and then of that other node only, at its primary address.  No
\* removal, import, reset or other provisioning makes it forget what it heard of a node
\* that stays, whatever addresses are given again.
OnlyFollowerForgotten ==
    [][\/ Forgotten' \subseteq Forgotten
       \/ ProvisionEnd /\ Forgotten' \subseteq Forgotten \cup {r.addr : r \in Follower}]_vars

\* The file has for every address the number the core has.
FileFollowsCore ==
    \A a \in Addresses : core.rpl[a] # 0 => a \in DOMAIN file.seq /\ file.seq[a] = core.rpl[a]
=============================================================================
