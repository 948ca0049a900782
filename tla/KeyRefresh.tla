----------------------------- MODULE KeyRefresh -----------------------------
(***************************************************************************)
(* Removing nodes from the mesh and refreshing the keys of the others: the *)
(* client (KeyRefreshClient) together with what it talks to, the mesh core *)
(* that carries its messages, the nodes, and the user of its interface.    *)
(*                                                                         *)
(* The core library, the GATT connection and the nodes' Configuration      *)
(* Servers are not part of the repository.  They are modelled by what the  *)
(* client relies on: the core answers every operation it accepted with a   *)
(* status or, after its retransmissions, with TX_COMPLETE; a node follows  *)
(* the Key Refresh procedure of the mesh profile; its answers arrive in    *)
(* the order it sent them (replay protection drops any other).             *)
(***************************************************************************)
EXTENDS KeyRefreshClient

CONSTANTS
    Removable,       \* the nodes the user may remove
    Proxies,         \* the nodes that accept the client's GATT connection
    Flaky,           \* the nodes that may be out of reach of a message
    AckLoss,         \* TRUE if an answer can be lost on its way back
    MaxConnects,     \* calls of connect_network
    MaxDisconnects,  \* calls of disconnect_network
    MaxDrops,        \* spontaneous losses of the connection
    MaxDups,         \* answers delivered twice (to a retransmission)
    MaxCrashes,      \* crashes inside mesh_reset_node
    MaxReopens       \* restarts of the client between two events

ASSUME MeshAssumption ==
    /\ Removable \subseteq Nodes \ {Local}
    /\ Proxies \subseteq Nodes \ {Local}
    /\ Flaky \subseteq Nodes \ {Local}
    /\ AckLoss \in BOOLEAN
    /\ {MaxConnects, MaxDisconnects, MaxDrops, MaxDups, MaxCrashes, MaxReopens} \subseteq Nat

VARIABLES
    cl,        \* the client
    dev,       \* the nodes
    inflight,  \* the operations the core is transmitting
    replies,   \* the statuses on their way to the client, by node
    link,      \* the GATT connection: "down", "connecting" or "up"
    proxy,     \* the node it goes to
    used       \* how much of each bound was used

vars == <<cl, dev, inflight, replies, link, proxy, used>>

Bounds == [connects |-> MaxConnects, disconnects |-> MaxDisconnects, drops |-> MaxDrops,
           dups |-> MaxDups, crashes |-> MaxCrashes, reopens |-> MaxReopens]

Within(b) == used[b] < Bounds[b]
Count(b)  == used' = [used EXCEPT ![b] = @ + 1]

-----------------------------------------------------------------------------
(* The nodes.  cur is the newest generation of the network key a node has, *)
(* old the one before it, kept until the node leaves the procedure.        *)

Device == [member : BOOLEAN, phase : {NORMAL, FIRST, SECOND},
           cur : Nat, old : Nat, app : [AppKeys -> Nat]]

FreshDevice(g) ==
    [member |-> TRUE, phase |-> NORMAL, cur |-> g, old |-> g, app |-> [k \in AppKeys |-> g]]

Held(d)  == IF d.phase = NORMAL THEN {d.cur} ELSE {d.old, d.cur}
TxKey(d) == IF d.phase = FIRST THEN d.old ELSE d.cur

\* Whether a node accepts an operation, and what it is afterwards.
Accepts(d, o) ==
    CASE o.kind = "KEY_UPDATE" /\ o.key = NetKey ->
            d.phase = NORMAL \/ (d.phase = FIRST /\ d.cur = o.val)
      [] o.kind = "KEY_UPDATE" /\ o.key # NetKey -> d.phase = FIRST
      [] o.kind = "KR_PHASE_SET" -> d.phase # NORMAL \/ o.val = THIRD
      [] OTHER -> TRUE

After(d, o) ==
    CASE ~ Accepts(d, o) -> d
      [] o.kind = "KEY_UPDATE" /\ o.key = NetKey /\ Accepts(d, o) ->
            IF d.phase = FIRST THEN d
            ELSE [d EXCEPT !.phase = FIRST, !.old = d.cur, !.cur = o.val]
      [] o.kind = "KEY_UPDATE" /\ o.key # NetKey /\ Accepts(d, o) ->
            [d EXCEPT !.app[o.key] = o.val]
      [] o.kind = "KR_PHASE_SET" /\ Accepts(d, o) ->
            [d EXCEPT !.phase = IF o.val = SECOND THEN SECOND ELSE NORMAL]
      [] o.kind = "NODE_RESET" -> [d EXCEPT !.member = FALSE]
      [] OTHER -> d

\* A message reaches the local node always, another node if the client is
\* connected and the node has the key the local node sends with.
Reaches(o) ==
    IF o.kind = "FILTER_ADD" THEN link = "up" /\ dev[proxy].member
    ELSE \/ o.dst = Local
         \/ /\ link = "up"
            /\ dev[o.dst].member
            /\ TxKey(dev[Local]) \in Held(dev[o.dst])

Answer(o) ==
    LET n == IF o.kind = "FILTER_ADD" THEN proxy ELSE o.dst
    IN  [kind |-> o.kind, src |-> n, key |-> o.key, ok |-> Accepts(dev[n], o),
         phase |-> IF o.kind = "KR_PHASE_SET" THEN After(dev[n], o).phase ELSE NORMAL]

Answers(st, o) ==
    st.kind = o.kind /\ st.key = o.key /\ (o.kind = "FILTER_ADD" \/ st.src = o.dst)

\* An answer to o is on its way.
Answered(o) ==
    \E n \in Nodes : \E i \in DOMAIN replies[n] : Answers(replies[n][i], o)

\* Releasing an event cancels its transmission, unless the core runs behind
\* the HCI connection of a CLIENTCONTROL host.
Outstanding(c, ops) ==
    IF ClientControl THEN ops ELSE {o \in ops : \E i \in DOMAIN c.queue : c.queue[i] = o}

-----------------------------------------------------------------------------
Init ==
    /\ cl = ClientInit
    /\ dev = [n \in Nodes |-> FreshDevice(0)]
    /\ inflight = {}
    /\ replies = [n \in Nodes |-> <<>>]
    /\ link = "down"
    /\ proxy = Local
    /\ used = [b \in DOMAIN Bounds |-> 0]

(* The client's own thread: its timer and the events the core calls it with. *)

\* provision_timer_cb: the head is sent and stays in the queue.
OpTimer ==
    /\ cl.timer /\ ~ cl.nullDeref
    /\ cl' = [cl EXCEPT !.timer = FALSE]
    /\ inflight' = inflight \cup (IF cl.queue = <<>> THEN {} ELSE {Head(cl.queue)})
    /\ UNCHANGED <<dev, replies, link, proxy, used>>

\* The oldest answer of n reaches the client.
Arrives(n) == replies[n] # <<>> /\ replies' = [replies EXCEPT ![n] = Tail(@)]

\* An answer may arrive twice: the node answers a retransmission again.
DeliverStatus(n) ==
    /\ replies[n] # <<>> /\ ~ cl.nullDeref
    /\ LET st == Head(replies[n])
       IN  /\ \E unwritten \in BOOLEAN : cl' = OnStatus(cl, st, unwritten)
           /\ inflight' = Outstanding(cl', {o \in inflight : ~ Answers(st, o)})
    /\ \/ Arrives(n) /\ UNCHANGED used
       \/ UNCHANGED replies /\ n # Local /\ Within("dups") /\ Count("dups")
    /\ UNCHANGED <<dev, link, proxy>>

\* The core gives up on an operation: the node did not get it or, where an
\* answer can be lost, got it and its answer did not arrive.
GivesUp(o) ==
    /\ o \in inflight /\ o.dst # Local /\ ~ cl.nullDeref
    /\ o.dst \in Flaky \/ ~ Reaches(o)
    /\ ~ Answered(o)
    /\ UNCHANGED replies

TxFailed(o) ==
    /\ GivesUp(o)
    /\ cl' = OnTxFailed(cl, o.dst)
    /\ inflight' = Outstanding(cl', inflight \ {o})
    /\ UNCHANGED <<dev, link, proxy, used>>

LinkUp(p) ==
    /\ link = "connecting" /\ dev[p].member /\ ~ cl.nullDeref
    /\ link' = "up" /\ proxy' = p
    /\ cl' = OnLinkUp(cl)
    /\ UNCHANGED <<dev, inflight, replies, used>>

LinkDown ==
    /\ link' = IF Reconnects(cl) THEN "connecting" ELSE "down"
    /\ proxy' = Local
    /\ cl' = OnLinkDown(cl)
    /\ inflight' = Outstanding(cl', inflight)
    /\ UNCHANGED dev

ConnectFailed ==
    /\ link = "connecting" /\ ~ cl.nullDeref
    /\ LinkDown
    /\ UNCHANGED <<replies, used>>

\* Answers on their way are lost with the connection or the session.
AnswersLosable == AckLoss \/ \A n \in Nodes \ {Local} : replies[n] = <<>>

LocalRepliesOnly == [n \in Nodes |-> IF n = Local THEN replies[n] ELSE <<>>]

\* The connection breaks by itself, or because the proxy was reset.
LinkLost ==
    /\ link = "up" /\ ~ cl.nullDeref
    /\ \/ dev[proxy].member /\ Within("drops") /\ Count("drops")
       \/ ~ dev[proxy].member /\ UNCHANGED used
    /\ AnswersLosable
    /\ replies' = LocalRepliesOnly
    /\ LinkDown

(* The nodes and the radio. *)

NodeHandles(o) ==
    /\ o \in inflight /\ Reaches(o) /\ ~ Answered(o)
    /\ dev' = IF o.kind = "FILTER_ADD" THEN dev ELSE [dev EXCEPT ![o.dst] = After(@, o)]
    /\ replies' = [replies EXCEPT ![Answer(o).src] = Append(@, Answer(o))]
    /\ UNCHANGED <<cl, inflight, link, proxy, used>>

LoseStatus(n) ==
    /\ AckLoss /\ replies[n] # <<>> /\ n # Local
    /\ replies' = [replies EXCEPT ![n] = Tail(@)]
    /\ UNCHANGED <<cl, dev, inflight, link, proxy, used>>

(* The user. *)

\* mesh_client_connect_network with use_proxy
ConnectNetwork ==
    /\ cl.state = "IDLE" /\ link # "up" /\ ~ cl.nullDeref /\ Within("connects")
    /\ cl' = [cl EXCEPT !.state = "NETWORK_CONNECT"]
    /\ link' = "connecting"
    /\ Count("connects")
    /\ UNCHANGED <<dev, inflight, replies, proxy>>

\* mesh_client_disconnect_network: the queue stays as it is, and a connection
\* attempt goes on.
DisconnectNetwork ==
    /\ ~ cl.nullDeref /\ Within("disconnects")
    /\ AnswersLosable
    /\ cl' = [cl EXCEPT !.state = "IDLE"]
    /\ link' = IF link = "up" THEN "down" ELSE link
    /\ proxy' = Local
    /\ replies' = LocalRepliesOnly
    /\ Count("disconnects")
    /\ UNCHANGED <<dev, inflight>>

\* mesh_client_reset_device
ResetDevice(n) ==
    /\ n \in cl.nodes \ cl.blocked /\ n # Local
    /\ cl.state = "IDLE" /\ ~ cl.nullDeref
    /\ cl' = ResetNode(cl, n)
    /\ inflight' = Outstanding(cl', inflight)
    /\ UNCHANGED <<dev, replies, link, proxy, used>>

(* Ends of the session. *)

\* network_open gives the local node the old keys and the phase of the
\* database, then sends it the new keys; the phase is set before the
\* application keys, which a node no longer takes then.
LocalDevice(c) ==
    LET old == c.gen - 1
    IN  CASE c.netPhase = NORMAL -> FreshDevice(c.gen)
          [] c.netPhase = FIRST  -> [FreshDevice(c.gen) EXCEPT !.phase = FIRST, !.old = old]
          [] c.netPhase = SECOND -> [FreshDevice(c.gen) EXCEPT
                                       !.phase = SECOND, !.old = old,
                                       !.app = [k \in AppKeys |-> old]]
          [] c.netPhase = THIRD  -> [FreshDevice(c.gen) EXCEPT
                                       !.app = [k \in AppKeys |-> old]]

Restarted(c) ==
    /\ cl' = Reopened(c)
    /\ dev' = [dev EXCEPT ![Local] = LocalDevice(c)]
    /\ inflight' = {} /\ replies' = [n \in Nodes |-> <<>>]
    /\ link' = "down" /\ proxy' = Local

Reopen ==
    /\ Within("reopens") /\ Count("reopens")
    /\ AnswersLosable
    /\ Restarted(cl)

\* mesh_reset_node stores the database when it has blocked the node, and again
\* when it has new keys: the process may end in between.
CrashInResetNode(n) ==
    /\ n \in cl.nodes \ cl.blocked /\ n # Local
    /\ cl.state = "IDLE" /\ ~ cl.nullDeref
    /\ Within("crashes") /\ Count("crashes")
    /\ Restarted([cl EXCEPT !.blocked = @ \cup {n}])

Next ==
    \/ OpTimer
    \/ \E n \in Nodes : DeliverStatus(n) \/ LoseStatus(n)
    \/ \E o \in inflight : NodeHandles(o) \/ TxFailed(o)
    \/ \E p \in Proxies : LinkUp(p)
    \/ ConnectFailed
    \/ LinkLost
    \/ ConnectNetwork
    \/ DisconnectNetwork
    \/ \E n \in Removable : ResetDevice(n) \/ CrashInResetNode(n)
    \/ Reopen

Spec == Init /\ [][Next]_vars

(* The client's timer fires and the statuses that arrive are delivered; the  *)
(* core resolves every operation; a connection attempt has an outcome and a  *)
(* reset proxy drops the connection.  Deliveries and failures are named by   *)
(* what they do to replies and inflight, which the handlers always allow.    *)
Fairness ==
    /\ WF_vars(OpTimer)
    /\ WF_replies(~ cl.nullDeref /\ \E n \in Nodes : Arrives(n))
    /\ WF_<<inflight, replies>>(\E o \in inflight :
          \/ NodeHandles(o)
          \/ GivesUp(o) /\ \E rest \in SUBSET (inflight \ {o}) : inflight' = rest)
    /\ WF_vars(\/ ConnectFailed
               \/ \E p \in Proxies : LinkUp(p)
               \/ LinkLost /\ ~ dev[proxy].member)

FairSpec == Spec /\ Fairness

-----------------------------------------------------------------------------
(* Properties *)

\* The values of the variables.
TypeOK ==
    /\ cl \in Client
    /\ dev \in [Nodes -> Device]
    /\ inflight \subseteq Op
    /\ replies \in [Nodes -> Seq(Status)]
    /\ link \in {"down", "connecting", "up"}
    /\ proxy \in Nodes
    /\ used \in [DOMAIN Bounds -> Nat]

\* A blocked node is never sent a new key or a phase change: mesh_reset_node
\* clears what was pending for it and nothing is scheduled for it again, over
\* all phases, restarts and resumptions of the refresh.
NoKeyToBlocked ==
    \A i \in DOMAIN cl.queue :
        cl.queue[i].kind \in {"KEY_UPDATE", "KR_PHASE_SET"} => cl.queue[i].dst \notin cl.blocked

\* The control block and the database agree on where the refresh is: the
\* handlers and completions of one phase never run on a key in another.
StateMatchesPhase ==
    /\ cl.state = "KR1" => cl.netPhase = FIRST
    /\ cl.state = "KR2" => cl.netPhase = SECOND
    /\ cl.state = "KR3" => cl.netPhase = THIRD

\* The network switches to the new keys only when every node it waits for has
\* all of them: none is cut off by the switch.
SwitchSafe ==
    cl.netPhase \in {SECOND, THIRD} =>
        \A n \in Participants(cl) :
            /\ dev[n].cur = cl.gen
            /\ \A k \in AppKeys : <<k, n>> \in Slots => dev[n].app[k] = cl.gen

\* Keys are renewed only when the nodes have the ones before: the client keeps
\* one old key, and a node two generations behind could not be reached again.
OneKeyBehind ==
    \A n \in Participants(cl) : dev[n].cur = cl.gen \/ dev[n].cur + 1 = cl.gen

\* A phase set that waits asks for the phase the network is in, however often the
\* refresh was suspended, taken up again or started over: the status handlers
\* record the answer as the phase of their state, not as the one that was set.
PhaseSetsCurrent ==
    \A i \in DOMAIN cl.queue :
        cl.queue[i].kind = "KR_PHASE_SET" /\ cl.queue[i].dst \in Participants(cl)
            => cl.queue[i].val = cl.netPhase

\* When the refresh is over, no node that was removed can listen in: it does not
\* have the key the network then uses, even if it never obeyed the Node Reset.
RevokedHaveNoKey ==
    cl.netPhase = NORMAL =>
        \A n \in (Nodes \ cl.nodes) \cup cl.blocked : dev[n].member => dev[n].cur # cl.gen

\* In a KEY_REFRESH state the client waits for an operation.
WaitsForScheduled ==
    cl.state \in KrStates => cl.queue # <<>>

\* When the refresh is over, the nodes that stay do not accept the old key any
\* more: what is sent with a key a removed node has reaches none of them.
OldKeyRetired ==
    cl.netPhase = NORMAL => \A n \in Participants(cl) : dev[n].phase = NORMAL

\* Every attempt at a refresh ends, completed or given up until the next one:
\* the client accepts commands again.
RefreshAttemptEnds == cl.state \in KrStates ~> cl.state = "IDLE"

\* While the client stays connected and every node that stays can be reached, an
\* attempt carries the refresh through to its end; removed nodes need not answer.
RefreshCompletes ==
    (cl.state \in KrStates /\ link = "up")
        ~> (cl.netPhase = NORMAL \/ (cl.nodes \ cl.blocked) \cap Flaky # {})

\* A call of connect_network leaves NETWORK_CONNECT again.
ConnectEnds == cl.state = "NETWORK_CONNECT" ~> cl.state # "NETWORK_CONNECT"
=============================================================================
