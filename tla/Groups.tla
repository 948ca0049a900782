------------------------------- MODULE Groups -------------------------------
(***************************************************************************)
(* Groups and the commands that move components in and out of them          *)
(* (src/mesh_client_lib/wiced_mesh_client.c and wiced_bt_mesh_db.c): each   *)
(* command queues one message per model, the state RECONFIGURATION sends    *)
(* them one after the other, and the database follows the answers.          *)
(*                                                                         *)
(* The nodes and the mesh core are external.  Abstracted: every node is one *)
(* component with one element; a publication is its address, that of a      *)
(* group, 0xFFFF or none; a model is of one of four kinds, after the tables *)
(* of models that are configured.  Left out: the loss of the proxy          *)
(* connection and the other users of the queue (module Provisioning),       *)
(* blocked nodes, virtual addresses, publications to a node (they are       *)
(* treated as those to another group), and the second message of 9125, for  *)
(* the second element of a light.                                           *)
(***************************************************************************)
EXTENDS Naturals, Sequences, FiniteSets, Functions

CONSTANTS
    ModelSeq,        \* the models of the network, in the order of the database
    NodeOf,          \* the node a model belongs to
    Kind,            \* "vendor", "server", "client" or "sensor"
    GroupNames,
    MaxAddress,      \* group addresses are 1..MaxAddress
    DupKinds,        \* the kinds of message that may be answered twice
    MaxCreates,      \* calls of mesh_client_group_create
    MaxCommands,     \* the other calls
    MaxFaults        \* messages and answers lost, rejected or answered twice

Models  == Range(ModelSeq)
Nodes   == {NodeOf[m] : m \in Models}
Address == 1..MaxAddress
None    == 0                  \* no publication, no parent
AllNodes == MaxAddress + 1    \* stands for 0xFFFF
Publication == AllNodes + 1   \* no address: what a model publishes to, see About
OpKinds == {"ADD", "DELETE", "PUB"}

ASSUME GroupsAssumption ==
    /\ ModelSeq \in Seq(Models) /\ IsInjective(ModelSeq)
    /\ DOMAIN NodeOf = Models
    /\ Kind \in [Models -> {"vendor", "server", "client", "sensor"}]
    /\ DupKinds \subseteq OpKinds
    /\ {MaxAddress, MaxCreates, MaxCommands, MaxFaults} \subseteq Nat

VARIABLES
    cl,        \* the client
    dev,       \* what the nodes are configured to
    requests,  \* the messages on their way, in the order they were sent
    replies,   \* the answers on their way
    job,       \* the last command, and whether it met with no fault and no stray answer
    doubt,     \* what was lost, rejected as a subscription, or answered twice
    used       \* how much of each bound was used

vars == <<cl, dev, requests, replies, job, doubt, used>>

Op(kind, m, a) == [kind |-> kind, model |-> m, addr |-> a]
Ops == [kind : OpKinds, model : Models, addr : 0..AllNodes]

-----------------------------------------------------------------------------
(* The tables of models, and the groups of the database                    *)

NeedsSub(m)   == Kind[m] \in {"vendor", "server"}
DefaultSub(m) == Kind[m] \in {"server", "sensor"}
DefaultPub(m) == Kind[m] \in {"client", "sensor"}

GroupsAt(c, a) == {g \in c.groups : g.addr = a}

\* The parent of the group at a, if the database holds a group at that address.
Parent(c, a) ==
    LET up == {g.parent : g \in GroupsAt(c, a)}
    IN  IF up # {} /\ \A p \in up : GroupsAt(c, p) # {} THEN CHOOSE p \in up : TRUE
        ELSE None

Top(list) == list[Len(list)]

\* get_group_list: the group at a and its ancestors, for as long as there are groups.
GroupList(c, a) ==
    LET list[n \in 0..Cardinality(c.groups)] ==
            IF n = 0 THEN <<a>>
            ELSE LET p == Parent(c, Top(list[n - 1]))
                 IN  IF p = None THEN list[n - 1] ELSE Append(list[n - 1], p)
    IN  list[Cardinality(c.groups)]

\* Otherwise get_group_list does not return.
ListEnds(c, a) == Parent(c, Top(GroupList(c, a))) = None

Free(c) == {a \in Address : GroupsAt(c, a) = {}}

\* Mutant of NewAddress: the address above all that are taken.
NewAddressAbove(c) == CHOOSE a \in 1..MaxAddress + 1 :
    /\ \A g \in c.groups : g.addr < a
    /\ a = 1 \/ GroupsAt(c, a - 1) # {}

\* wiced_bt_mesh_db_alloc_group_addr
NewAddress(c) == CHOOSE a \in Free(c) : \A b \in Free(c) : a <= b

Subscribed(c, m, a) == a \in c.sub[m]
InGroup(c, m, a)    == Subscribed(c, m, a) \/ c.pub[m] = a

\* wiced_bt_mesh_db_get_all_models_of_element: for the address 0, all of them.
Listed(c, m, a) == a = None \/ InGroup(c, m, a)

\* wiced_bt_mesh_db_group_get_addr: 0xFFFF for the name of the network, 0 for a name
\* that is not there.
NamedAddresses(c) == {None, AllNodes} \cup {g.addr : g \in c.groups}

-----------------------------------------------------------------------------
(* The messages a command queues                                           *)

\* What F has for the elements of s, one after the other.
ForEach(s, F) ==
    LET upTo[i \in 0 .. Len(s)] == IF i = 0 THEN <<>> ELSE upTo[i - 1] \o F[s[i]]
    IN  upTo[Len(s)]

\* What F has for the models of the node n.
ForNode(n, F) == ForEach(ModelSeq, [m \in Models |-> IF NodeOf[m] = n THEN F[m] ELSE <<>>])

When(b, op) == IF b THEN <<op>> ELSE <<>>

Subscribe(c, m, list) ==
    IF ~ NeedsSub(m) THEN <<>>
    ELSE ForEach(list, [a \in Address |-> When(~ Subscribed(c, m, a), Op("ADD", m, a))])

\* A publication follows to the group; one to the whole network is always sent anew.
Republish(c, m, a) ==
    When(c.pub[m] # None /\ (c.pub[m] = AllNodes \/ c.pub[m] # a), Op("PUB", m, a))

\* Mutant of AddOps: the models are not subscribed to the groups the group is in.
AddOpsOneGroup(c, n, a, list) ==
    ForNode(n, [m \in Models |->
        Subscribe(c, m, IF list = <<>> THEN <<>> ELSE <<a>>) \o Republish(c, m, a)])

\* mesh_client_add_component_to_group; list holds the group at a and those around it.
AddOps(c, n, a, list) ==
    ForNode(n, [m \in Models |-> Subscribe(c, m, list) \o Republish(c, m, a)])

\* Where a model publishes to after it left the group g.
PubAfter(m, g) ==
    CASE Kind[m] = "server" -> None
      [] Kind[m] # "server" -> IF g.parent # None THEN g.parent ELSE AllNodes

\* mesh_client_remove_component_from_group
RemoveOps(c, n, g) ==
    ForNode(n, [m \in Models |->
        When(Subscribed(c, m, g.addr), Op("DELETE", m, g.addr))
        \o When(c.pub[m] = g.addr, Op("PUB", m, PubAfter(m, g)))])

\* mesh_client_move_component_to_group
MoveOps(c, n, from, to) ==
    ForNode(n, [m \in Models |->
        Subscribe(c, m, <<to>>)
        \o When(c.pub[m] \in {AllNodes, from}, Op("PUB", m, to))])
    \o ForNode(n, [m \in Models |-> When(InGroup(c, m, from), Op("DELETE", m, from))])

\* mesh_client_group_delete
DeleteOps(c, a) ==
    ForEach(ModelSeq, [m \in Models |->
        IF ~ Listed(c, m, a) THEN <<>>
        ELSE IF DefaultSub(m) THEN <<Op("DELETE", m, a)>>
        ELSE When(DefaultPub(m), Op("PUB", m, None))])

-----------------------------------------------------------------------------
(* The queue                                                               *)

\* The end of a command: RECONFIGURATION if there is something to send.
Reconfigure(c, ops) ==
    IF ops = <<>> THEN c
    ELSE [c EXCEPT !.queue = ops, !.state = "RECONFIGURATION", !.timer = TRUE]

StartNextOp(c) ==
    LET rest == Tail(c.queue)
    IN  [c EXCEPT !.queue = rest,
                  !.timer = @ \/ rest # <<>>,
                  !.state = IF rest = <<>> THEN "IDLE" ELSE @]

\* Mutant of Answers: the address is not compared.
AnswersAnyGroup(r, op) == op.model = r.model /\ op.kind # "PUB" /\ r.kind # "PUB"

\* An answer to a subscription does not say whether it was added or deleted.
Answers(r, op) ==
    /\ op.model = r.model /\ op.addr = r.addr
    /\ op.kind # "PUB" /\ r.kind # "PUB"

\* mesh_configure_model_sub_status: the status of the answer is not looked at.
SubStatus(c, r) ==
    IF c.queue = <<>> \/ ~ Answers(r, Head(c.queue)) THEN c
    ELSE StartNextOp([c EXCEPT !.sub[r.model] =
             IF Head(c.queue).kind = "ADD" THEN @ \cup {r.addr} ELSE @ \ {r.addr}])

PubMatches(c, r) ==
    /\ c.queue # <<>>
    /\ Head(c.queue).kind = "PUB" /\ NodeOf[Head(c.queue).model] = NodeOf[r.model]

\* Mutant of PubStatus: the status of the answer is not looked at.
PubStatusAnyway(c, r) ==
    IF PubMatches(c, r) THEN StartNextOp([c EXCEPT !.pub[r.model] = r.addr]) ELSE c

\* mesh_configure_model_pub_status: any answer of the element is taken.
PubStatus(c, r) ==
    IF ~ PubMatches(c, r) THEN c
    ELSE StartNextOp(IF r.ok THEN [c EXCEPT !.pub[r.model] = r.addr] ELSE c)

Cleaned(c, n) ==
    [c EXCEPT !.queue = ForEach(@, [o \in Range(@) |-> When(NodeOf[o.model] # n, o)])]

\* Mutant of Unreachable: only the rest of the queue is taken care of.
UnreachableWaits(c, n) ==
    LET rest == Cleaned(c, n)
    IN  IF rest.queue # <<>> THEN [rest EXCEPT !.timer = TRUE] ELSE rest

\* A message to the node n was given up while the client was in RECONFIGURATION.
Unreachable(c, n) ==
    LET rest == Cleaned(c, n)
    IN  IF rest.queue # <<>> THEN [rest EXCEPT !.timer = TRUE]
        ELSE [rest EXCEPT !.state = "IDLE"]

-----------------------------------------------------------------------------
Idle == [what |-> "none", node |-> None, list |-> <<>>, group |-> None, ok |-> FALSE]

Published(m) == IF Kind[m] = "server" THEN None ELSE AllNodes

Init ==
    /\ cl = [state |-> "IDLE", queue |-> <<>>, timer |-> FALSE, groups |-> {},
             sub |-> [m \in Models |-> {}], pub |-> [m \in Models |-> Published(m)]]
    /\ dev = [sub |-> cl.sub, pub |-> cl.pub]
    /\ requests = <<>> /\ replies = {}
    /\ job = Idle /\ doubt = {}
    /\ used = [creates |-> 0, commands |-> 0, faults |-> 0]

Spend(what, max) == used[what] < max /\ used' = [used EXCEPT ![what] = @ + 1]

Channel == <<dev, requests, replies, doubt>>

(***************************************************************************)
(* The calls of the application                                            *)
(***************************************************************************)

GroupCreate(name, parent) ==
    /\ Spend("creates", MaxCreates)
    /\ \A g \in cl.groups : g.name # name
    /\ cl.queue = <<>> \/ cl.state = "IDLE"
    /\ parent = None \/ GroupsAt(cl, parent) # {}
    /\ Free(cl) # {}
    /\ cl' = [cl EXCEPT !.groups = @ \cup
                 {[name |-> name, addr |-> NewAddress(cl), parent |-> parent]}]
    /\ UNCHANGED <<Channel, job>>

\* Nothing of an earlier command is on its way.
Quiet == requests = <<>> /\ replies = {}

Command(what, n, list, group, ops) ==
    /\ Spend("commands", MaxCommands)
    /\ cl' = Reconfigure(cl, ops)
    /\ job' = [what |-> what, node |-> n, list |-> list, group |-> group, ok |-> Quiet]
    /\ UNCHANGED Channel

\* get_group_list has no list for the name of the network.
AddComponentToGroup(n, a) ==
    /\ cl.state = "IDLE" /\ a # None /\ ListEnds(cl, a)
    /\ LET list == IF a = AllNodes THEN <<>> ELSE GroupList(cl, a)
       IN  Command("add", n, list, a, AddOps(cl, n, a, list))

RemoveComponentFromGroup(n, g) ==
    /\ cl.state = "IDLE"
    /\ Command("remove", n, <<>>, g.addr, RemoveOps(cl, n, g))

MoveComponentToGroup(n, from, to) ==
    /\ cl.state = "IDLE" /\ from # to /\ from.parent = to.parent
    /\ Command("move", n, <<to.addr>>, from.addr, MoveOps(cl, n, from.addr, to.addr))

\* mesh_client_configure_publication of one model
ConfigurePublication(m, a) ==
    /\ cl.state = "IDLE"
    /\ a \in {None, AllNodes} \/ GroupsAt(cl, a) # {}
    /\ Command("publish", m, <<a>>, None, <<Op("PUB", m, a)>>)

\* The record goes at once; the messages follow.
GroupDelete(a) ==
    /\ cl.state = "IDLE"
    /\ Spend("commands", MaxCommands)
    /\ cl' = Reconfigure([cl EXCEPT !.groups = @ \ GroupsAt(cl, a)], DeleteOps(cl, a))
    /\ job' = [Idle EXCEPT !.what = "delete", !.group = a, !.ok = Quiet]
    /\ UNCHANGED Channel

\* While another command runs, only a group with no member in the database.
GroupDeleteBusy(a) ==
    /\ cl.state # "IDLE"
    /\ \A m \in Models : Listed(cl, m, a) => ~ DefaultSub(m) /\ ~ DefaultPub(m)
    /\ Spend("commands", MaxCommands)
    /\ cl' = [cl EXCEPT !.groups = @ \ GroupsAt(cl, a)]
    /\ UNCHANGED <<Channel, job>>

(***************************************************************************)
(* The timer, the core and the nodes                                       *)
(***************************************************************************)

Send ==
    /\ cl.timer
    /\ cl' = [cl EXCEPT !.timer = FALSE]
    /\ requests' = IF cl.queue = <<>> THEN requests ELSE Append(requests, Head(cl.queue))
    /\ UNCHANGED <<dev, replies, job, doubt, used>>

Reply(op, ok) ==
    [kind |-> op.kind, model |-> op.model, addr |-> op.addr, ok |-> ok, again |-> FALSE]

Configured(d, op) ==
    CASE op.kind = "ADD"    -> [d EXCEPT !.sub[op.model] = @ \cup {op.addr}]
      [] op.kind = "DELETE" -> [d EXCEPT !.sub[op.model] = @ \ {op.addr}]
      [] op.kind = "PUB"    -> [d EXCEPT !.pub[op.model] = op.addr]

Carry ==
    /\ requests # <<>>
    /\ dev' = Configured(dev, Head(requests))
    /\ requests' = Tail(requests)
    /\ replies' = replies \cup {Reply(Head(requests), TRUE)}
    /\ UNCHANGED <<cl, job, doubt, used>>

\* What a message is about: a subscription of a model, or its publication.
About(op) == <<op.model, IF op.kind = "PUB" THEN Publication ELSE op.addr>>

\* A node has no room for another subscription, or rejects a publication.
Reject ==
    /\ requests # <<>> /\ Head(requests).kind # "DELETE"
    /\ Spend("faults", MaxFaults)
    /\ requests' = Tail(requests)
    /\ replies' = replies \cup {Reply(Head(requests), FALSE)}
    /\ doubt' = IF Head(requests).kind = "ADD" THEN doubt \cup {About(Head(requests))} ELSE doubt
    /\ job' = [job EXCEPT !.ok = FALSE]
    /\ UNCHANGED <<cl, dev>>

Status(r) == IF r.kind = "PUB" THEN PubStatus(cl, r) ELSE SubStatus(cl, r)

Receive ==
    \E r \in replies :
        /\ cl' = Status(r)
        /\ replies' = replies \ {r}
        /\ UNCHANGED <<dev, requests, job, doubt, used>>

\* The same answer comes again later.
ReceiveFirst ==
    \E r \in replies :
        /\ r.kind \in DupKinds /\ ~ r.again /\ Spend("faults", MaxFaults)
        /\ cl' = Status(r)
        /\ replies' = (replies \ {r}) \cup {[r EXCEPT !.again = TRUE]}
        /\ doubt' = doubt \cup {About(r)}
        /\ UNCHANGED <<dev, requests, job>>

\* With the message goes whatever else is on its way to or from the node.
GiveUp(op) ==
    /\ Spend("faults", MaxFaults)
    /\ cl' = IF cl.state = "RECONFIGURATION" THEN Unreachable(cl, NodeOf[op.model]) ELSE cl
    /\ job' = [job EXCEPT !.ok = FALSE]
    /\ doubt' = doubt \cup
           {About(o) : o \in {x \in Range(requests) \cup replies :
                                 NodeOf[x.model] = NodeOf[op.model]}}
    /\ UNCHANGED dev

LoseRequest ==
    /\ requests # <<>> /\ GiveUp(Head(requests))
    /\ requests' = Tail(requests)
    /\ UNCHANGED replies

LoseReply ==
    \E r \in replies :
        ~ r.again /\ GiveUp(r) /\ replies' = replies \ {r} /\ UNCHANGED requests

Call ==
    \/ \E name \in GroupNames, parent \in {None} \cup Address : GroupCreate(name, parent)
    \/ \E a \in NamedAddresses(cl) :
           GroupDelete(a) \/ GroupDeleteBusy(a) \/ \E n \in Nodes : AddComponentToGroup(n, a)
    \/ \E n \in Nodes :
           \/ \E g \in cl.groups : RemoveComponentFromGroup(n, g)
           \/ \E from, to \in cl.groups : MoveComponentToGroup(n, from, to)
    \/ \E m \in Models, a \in 0..AllNodes : ConfigurePublication(m, a)

Progress == Send \/ Carry \/ Receive

Next == Call \/ Progress \/ Reject \/ ReceiveFirst \/ LoseRequest \/ LoseReply

Spec     == Init /\ [][Next]_vars
FairSpec == Spec /\ WF_vars(Progress)

-----------------------------------------------------------------------------
\* The type invariant: every address the database and the messages hold is in range.
TypeOK ==
    /\ cl.state \in {"IDLE", "RECONFIGURATION"}
    /\ cl.queue \in Seq(Ops) /\ cl.timer \in BOOLEAN
    /\ cl.groups \subseteq [name : GroupNames, addr : Address, parent : {None} \cup Address]
    /\ \A where \in {cl, dev} :
           /\ where.sub \in [Models -> SUBSET Address]
           /\ where.pub \in [Models -> 0..AllNodes]
    /\ requests \in Seq(Ops)
    /\ replies \subseteq [kind : OpKinds, model : Models, addr : 0..AllNodes, ok : BOOLEAN,
                    again : BOOLEAN]
    /\ doubt \subseteq Models \X (0..Publication)

Differences ==
    {d \in Models \X Address : (d[2] \in cl.sub[d[1]]) # (d[2] \in dev.sub[d[1]])}
    \cup {<<m, Publication>> : m \in {x \in Models : cl.pub[x] # dev.pub[x]}}

\* The database, which decides what later commands send, differs from the nodes only
\* in what is being exchanged, and in the very subscription or publication that a
\* lost message, a rejected subscription or a second answer left in doubt:
\* mesh_configure_model_sub_status and mesh_configure_model_pub_status record what the
\* node does, through all commands that follow one another.
DatabaseFollowsNodes ==
    Differences \subseteq doubt \cup {About(op) : op \in Range(requests) \cup replies}

\* A command that began with nothing of an earlier one on its way, and all of whose
\* messages were answered, did what it says when the client is idle again: an added
\* component is in the group and in all groups around it, and a removed or moved one
\* is in the group no more (the commands of 8501, 8637 and 8748), whatever groups were
\* created and deleted meanwhile.
JobDone(c) ==
    LET mine == {m \in Models : NodeOf[m] = job.node}
    IN  CASE job.what = "add" ->
               \A m \in mine : /\ NeedsSub(m) => Range(job.list) \subseteq c.sub[m]
                               /\ c.pub[m] \in {None, job.group}
          [] job.what = "remove" -> \A m \in mine : ~ InGroup(c, m, job.group)
          [] job.what = "move" ->
               \A m \in mine : /\ NeedsSub(m) => job.list[1] \in c.sub[m]
                               /\ ~ InGroup(c, m, job.group)
          [] job.what = "publish" -> c.pub[job.node] = job.list[1]
          [] job.what = "delete" ->
               \A m \in Models : Kind[m] \in {"server", "client"} =>
                   /\ ~ Subscribed(c, m, job.group)
                   /\ Kind[m] = "client" => c.pub[m] = None \/ c.pub[m] # job.group
          [] OTHER -> TRUE

CommandDone == cl.state = "IDLE" /\ job.ok => JobDone(cl)

\* wiced_mesh_client.h:193: "The group is empty when it is created."
NewGroupEmpty ==
    [][\A g \in cl'.groups \ cl.groups :
           /\ \A h \in cl'.groups : h.parent # g.addr
           /\ \A m \in Models : ~ InGroup(cl', m, g.addr)]_vars

\* RECONFIGURATION ends, whatever is lost or rejected: until then every command but
\* the deletion of an empty group is refused.
CommandsEnd == cl.state = "RECONFIGURATION" ~> cl.state = "IDLE"
=============================================================================
