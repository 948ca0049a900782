---------------------------- MODULE Provisioning ----------------------------
(***************************************************************************)
(* Provisioning a device over PB-GATT, connecting to it, configuring it and *)
(* resetting it when that fails (src/mesh_client_lib/wiced_mesh_client.c),  *)
(* with the other users of the same control block: the network connection,  *)
(* connect_component, a later reconfiguration and the unfinished refresh of *)
(* the keys.  A C function that changes the control block is an operator on *)
(* the record cl, as in KeyRefreshClient.                                   *)
(*                                                                         *)
(* The mesh core, the connections and the devices are not part of the       *)
(* repository; they are the actions of the last sections.                   *)
(*                                                                         *)
(* Abstracted: the messages that configure a node are one SET, one APP_KEY  *)
(* and one BIND, and NET_KEY during a refresh; the messages of a key        *)
(* refresh (module KeyRefresh) are one REFRESH to the local node, and the   *)
(* three refresh states are the state KEY_REFRESH.                          *)
(* Left out: remote provisioners, certificates, out of band data, large     *)
(* composition data, the opcodes aggregator, low-power nodes, and           *)
(* allocation failures.                                                    *)
(***************************************************************************)
EXTENDS Naturals, Sequences, FiniteSets

CONSTANTS
    Devices,            \* the devices
    Known,              \* those in the database at the start, in address order
    GattProxies,        \* the devices that keep their GATT proxy feature
    Rejects,            \* the kinds of message a device may reject
    DupKinds,           \* the kinds of message that may be answered twice
    Finishes,           \* whether a key refresh runs to its end: subset of BOOLEAN
    Overlaps,           \* whether provisioning is asked for while the link of an
                        \* earlier one is still there: subset of BOOLEAN
    MAX_CONNECT_RETRIES,\* 4 in the code
    MaxProvisions,      \* calls of mesh_client_provision
    MaxConnects,        \* calls of mesh_client_connect_network
    MaxDisconnects,     \* calls of mesh_client_disconnect_network
    MaxCommands,        \* calls of connect_component and configure_publication
    MaxResets,          \* factory resets by hand
    MaxDrops,           \* connections and answers lost
    MaxDups             \* answers given twice

Local     == 1     \* the client's own address
Broadcast == 0     \* stands for 0xFFFF, the destination of a filter message

ConfigKinds == {"SET", "NET_KEY", "APP_KEY", "BIND"}
OpKinds     == ConfigKinds \cup {"FILTER_ADD", "NODE_RESET", "REFRESH"}
Required    == {"SET", "APP_KEY", "BIND"}

NoDevice == "none"

ASSUME ProvisioningAssumption ==
    /\ IsFiniteSet(Devices) /\ NoDevice \notin Devices
    /\ Known \in Seq(Devices)
    /\ \A i, j \in DOMAIN Known : Known[i] = Known[j] => i = j
    /\ GattProxies \subseteq Devices
    /\ Rejects \subseteq {"APP_KEY", "BIND"}
    /\ DupKinds \subseteq ConfigKinds \cup {"COMP_GET"}
    /\ Finishes \subseteq BOOLEAN /\ Finishes # {}
    /\ Overlaps \subseteq BOOLEAN
    /\ MAX_CONNECT_RETRIES \in Nat \ {0}
    /\ {MaxProvisions, MaxConnects, MaxDisconnects, MaxCommands, MaxResets,
        MaxDrops, MaxDups} \subseteq Nat

VARIABLES
    cl,        \* the client
    dev,       \* the devices
    inflight,  \* the messages the core is transmitting
    replies,   \* the answers on their way, by source address
    used       \* how much of each bound was used

vars == <<cl, dev, inflight, replies, used>>

States ==
    {"IDLE", "CONNECTING", "PROVISIONING", "PROVISION_DISCONNECTING",
     "NODE_CONNECTING", "GET_REMOTE_COMPOSITION_DATA", "CONFIGURATION",
     "CONFIGURE_DISCONNECTING", "NETWORK_CONNECT", "WAIT_NODE_IDENTITY",
     "WAIT_DISCONNECT", "WAIT_CONNECT", "RECONFIGURATION", "KEY_REFRESH"}

Msg(kind, dst) == [kind |-> kind, dst |-> dst]
FilterAdd      == Msg("FILTER_ADD", Broadcast)

Record(d, a) == [uuid |-> d, addr |-> a, complete |-> FALSE, blocked |-> FALSE]

(***************************************************************************)
(* link is the GATT proxy connection as the client knows it: "down", asked *)
(* for by "node" identity or by "net", "up", or "closing" on its request;  *)
(* proxy_conn_id # 0 is Connected.  plink is the provisioning link.  told  *)
(* is the last outcome the application heard of for each device.           *)
(***************************************************************************)
Down   == [st |-> "down", peer |-> 0]
PbDown == [st |-> "down", dev |-> NoDevice, addr |-> 0]

ClientInit ==
    [state |-> "IDLE", uuid |-> NoDevice, addr |-> 0, over_gatt |-> FALSE,
     proxy_addr |-> 0, retries |-> 0, queue |-> <<>>, timer |-> FALSE,
     remote_comp |-> FALSE, completed_sent |-> FALSE, last_status |-> "NONE",
     refresh |-> FALSE, link |-> Down, plink |-> PbDown,
     told |-> [d \in Devices \cup {NoDevice} |-> "none"],
     db |-> {[Record(Known[i], i + 1) EXCEPT !.complete = TRUE] : i \in DOMAIN Known}]

Connected(c) == c.link.st \in {"up", "closing"}
NodesAt(c, a) == {r \in c.db : r.addr = a}

-----------------------------------------------------------------------------
(* Connections                                                             *)

\* mesh_client_connect_proxy: by node identity it goes to the node cl.addr.
ConnectProxy(c, by) ==
    IF Connected(c) THEN c
    ELSE [c EXCEPT !.link = [st |-> by, peer |-> IF by = "node" THEN c.addr ELSE 0]]

ProxyDisconnect(c) ==
    IF c.link.st = "up" THEN [c EXCEPT !.link.st = "closing"] ELSE c

\* mesh_client_provision_connect.  The core looks for one device at a time: a proxy
\* it was still looking for is given up.
ProvisionConnect(c) ==
    [c EXCEPT !.plink = [st |-> "connecting", dev |-> c.uuid, addr |-> 0],
              !.link  = IF Connected(c) THEN @ ELSE Down]

-----------------------------------------------------------------------------
(* The pending operation queue, and what the application is told           *)

Enqueue(c, ops) == [c EXCEPT !.queue = @ \o ops]

\* The operations of a queue that do not go to a, in their order.
Without(queue, a) ==
    LET kept[i \in 0 .. Len(queue)] ==
            IF i = 0 THEN <<>>
            ELSE IF queue[i].dst = a THEN kept[i - 1] ELSE Append(kept[i - 1], queue[i])
    IN  kept[Len(queue)]

\* clean_pending_op_queue of everything, and of one destination.
CleanAll(c) == [c EXCEPT !.queue = <<>>]
Clean(c, a) == [c EXCEPT !.queue = Without(@, a)]

\* mesh_reset_node: its queue is never empty, so that the timer is started.
ResetNode(c, a) ==
    [Clean(c, a) EXCEPT
        !.retries = 0,
        !.db      = {IF r.addr = a THEN [r EXCEPT !.blocked = TRUE] ELSE r : r \in @},
        !.queue   = @ \o <<Msg("NODE_RESET", a), Msg("REFRESH", Local)>>,
        !.refresh = TRUE,
        !.state   = "KEY_REFRESH",
        !.timer   = TRUE]

\* Mutant of NotifyStatus: the application is told again after the end was reported.
NotifyStatusAgain(c, status) ==
    LET heard == IF status \notin {"SUCCESS", "FAILED"} THEN c
                 ELSE [c EXCEPT !.told[c.uuid] = status]
        reset == IF /\ status = "FAILED"
                    /\ c.last_status \in {"END", "CONFIGURING"}
                    /\ NodesAt(c, c.addr) # {}
                 THEN ResetNode(heard, c.addr) ELSE heard
    IN  [reset EXCEPT !.last_status = status,
                      !.completed_sent = @ \/ status \in {"SUCCESS", "FAILED"}]

\* provision_status_notify
NotifyStatus(c, status) ==
    LET heard == IF c.completed_sent \/ status \notin {"SUCCESS", "FAILED"} THEN c
                 ELSE [c EXCEPT !.told[c.uuid] = status]
        reset == IF /\ status = "FAILED"
                    /\ c.last_status \in {"END", "CONFIGURING"}
                    /\ NodesAt(c, c.addr) # {}
                 THEN ResetNode(heard, c.addr) ELSE heard
    IN  [reset EXCEPT !.last_status = status,
                      !.completed_sent = @ \/ status \in {"SUCCESS", "FAILED"}]

Fail(c) == NotifyStatus(CleanAll([c EXCEPT !.state = "IDLE"]), "FAILED")

\* wiced_bt_mesh_db_node_config_complete
ConfigComplete(c, a) ==
    [c EXCEPT !.db = {IF r.addr = a THEN [r EXCEPT !.complete = TRUE] ELSE r : r \in @}]

\* configure_execute_pending_operation: an empty queue ends the configuration of
\* the node whose composition data is kept.
Execute(c) ==
    IF c.queue # <<>> THEN [c EXCEPT !.timer = TRUE]
    ELSE IF c.remote_comp
         THEN NotifyStatus(ConfigComplete([c EXCEPT !.remote_comp = FALSE], c.addr), "SUCCESS")
         ELSE c

\* What start_next_op does with an empty queue.
QueueDone(c) ==
    CASE c.queue # <<>> -> c
      [] c.queue = <<>> /\ c.state = "CONFIGURATION" ->
            IF /\ Connected(c) /\ c.over_gatt
               /\ \E r \in NodesAt(c, c.addr) : r.uuid \notin GattProxies
            THEN ProxyDisconnect([c EXCEPT !.state = "CONFIGURE_DISCONNECTING"])
            ELSE [c EXCEPT !.state = "IDLE",
                           !.proxy_addr = IF c.over_gatt THEN c.addr ELSE @]
      [] c.queue = <<>> /\ c.state = "KEY_REFRESH" -> c
      [] OTHER -> [c EXCEPT !.state = "IDLE"]

StartNextOp(c) ==
    QueueDone(Execute([c EXCEPT !.queue = IF @ = <<>> THEN @ ELSE Tail(@)]))

HeadIs(c, kind, src) ==
    c.queue # <<>> /\ Head(c.queue).kind = kind /\ Head(c.queue).dst = src

HeadIsFilter(c) == HeadIs(c, "FILTER_ADD", Broadcast)

AddFilter(c) == Execute(Enqueue(c, <<FilterAdd>>))

-----------------------------------------------------------------------------
(* The key refresh, as far as it shares the control block                  *)

\* mesh_key_refresh_continue
ContinueRefresh(c) ==
    [Enqueue(c, <<Msg("REFRESH", Local)>>) EXCEPT !.state = "KEY_REFRESH"]

\* The end of the last phase, or of the attempt: finished removes the blocked nodes.
RefreshDone(c, finished) ==
    IF c.queue # <<>> THEN c
    ELSE [c EXCEPT !.state   = "IDLE",
                   !.refresh = @ /\ ~ finished,
                   !.db      = IF finished THEN {r \in @ : ~ r.blocked} ELSE @]

RefreshStatus(c, r, finished) ==
    CASE r.kind = "FILTER_ADD" ->
            RefreshDone(Execute(IF HeadIsFilter(c) THEN StartNextOp(c) ELSE c), finished)
      [] r.kind \in {"NODE_RESET", "REFRESH"} /\ HeadIs(c, r.kind, r.src) ->
            RefreshDone(StartNextOp(c), finished)
      [] OTHER -> c

RefreshTxFailed(c, m, finished) ==
    IF c.queue = <<>> \/ Head(c.queue) # m THEN c
    ELSE LET rest == Clean(c, m.dst)
         IN  IF rest.queue # <<>> THEN Execute(rest) ELSE RefreshDone(rest, finished)

RefreshLink(c, up) ==
    IF up THEN AddFilter(c)
    ELSE LET again == [c EXCEPT !.retries = @ + 1]
         IN  IF c.retries < MAX_CONNECT_RETRIES - 1 THEN ConnectProxy(again, "net")
             ELSE [again EXCEPT !.state = "IDLE"]

-----------------------------------------------------------------------------
(* Statuses of the node under configuration                                *)

\* Mutants of KeyStatus: an answer is matched by its source alone; a rejection is
\* not looked at.
KeyStatusAnyKind(c, r) ==
    IF c.queue # <<>> /\ Head(c.queue).dst = r.src THEN StartNextOp(c) ELSE c

KeyStatusAccepts(c, r) == IF HeadIs(c, r.kind, r.src) THEN StartNextOp(c) ELSE c

\* mesh_configure_net_key_status and mesh_configure_app_key_status: an answer to
\* another operation is taken for a low-power node's during a refresh.
KeyStatus(c, r) ==
    LET next      == StartNextOp(c)
        continued == IF next.queue = <<>> THEN ContinueRefresh(next) ELSE next
    IN  CASE ~ HeadIs(c, r.kind, r.src) -> IF c.refresh THEN Execute(continued) ELSE c
          [] /\ HeadIs(c, r.kind, r.src)
             /\ r.kind = "APP_KEY" /\ ~ r.ok /\ c.addr = r.src /\ NodesAt(c, r.src) # {} ->
                NotifyStatus(Clean([c EXCEPT !.state = "IDLE"], r.src), "FAILED")
          [] OTHER -> next

\* mesh_configure_model_app_bind_status
BindStatus(c, r) ==
    IF ~ HeadIs(c, "BIND", r.src) THEN c
    ELSE IF ~ r.ok /\ c.state = "CONFIGURATION"
         THEN LET stopped == Clean([c EXCEPT !.state = "IDLE"], r.src)
              IN  IF NodesAt(c, r.src) # {} THEN ResetNode(stopped, r.src) ELSE stopped
         ELSE StartNextOp(c)

\* The other configuration statuses, as mesh_configure_model_sub_status.
SetStatus(c, r) == IF HeadIs(c, "SET", r.src) THEN StartNextOp(c) ELSE c

\* mesh_configure_filter_status
FilterStatus(c, r) ==
    IF HeadIsFilter(c)
    THEN [StartNextOp(c) EXCEPT !.proxy_addr = r.src, !.over_gatt = TRUE]
    ELSE c

ConfigStatus(c, r) ==
    CASE r.kind \in {"NET_KEY", "APP_KEY"} -> KeyStatus(c, r)
      [] r.kind = "BIND" -> BindStatus(c, r)
      [] r.kind = "SET" -> SetStatus(c, r)
      [] OTHER -> c

\* Mutant of ConfigOps: the filter message is never queued.
ConfigOpsNoFilter(c) ==
    <<Msg("SET", c.addr), Msg("APP_KEY", c.addr), Msg("BIND", c.addr)>>

\* The operations configure_queue_remote_device_operations queues.
ConfigOps(c) ==
    <<Msg("SET", c.addr)>>
    \o (IF c.refresh THEN <<Msg("NET_KEY", c.addr)>> ELSE <<>>)
    \o <<Msg("APP_KEY", c.addr), Msg("BIND", c.addr)>>
    \o (IF c.proxy_addr # c.addr /\ c.over_gatt THEN <<FilterAdd>> ELSE <<>>)

\* mesh_configure_remote_device
ConfigureRemote(c) ==
    Execute(Enqueue([c EXCEPT !.state = "CONFIGURATION"], ConfigOps(c)))

\* mesh_configure_composition_data_status of another node
CompositionStatus(c, r) ==
    LET told == NotifyStatus(c, "CONFIGURING")
    IN  IF NodesAt(told, r.src) = {} THEN NotifyStatus(told, "FAILED")
        ELSE ConfigureRemote([told EXCEPT !.remote_comp = TRUE])

\* The filter status in NETWORK_CONNECT
NetworkConnected(c, r) ==
    LET idle   == [c EXCEPT !.state = "IDLE",
                            !.queue = IF HeadIsFilter(c) THEN Tail(@) ELSE @]
        reset  == IF \E n \in NodesAt(c, r.src) : n.blocked
                  THEN Enqueue(idle, <<Msg("NODE_RESET", r.src)>>) ELSE idle
        resume == IF c.refresh THEN ContinueRefresh(reset) ELSE reset
    IN  IF resume.queue # <<>> THEN Execute(resume) ELSE resume

IdentityStatus(c) == ProxyDisconnect([c EXCEPT !.state = "WAIT_DISCONNECT"])

\* After a status in CONFIGURATION the attempts to connect are counted anew.
CountAnew(c) ==
    IF c.state = "CONFIGURATION" /\ Connected(c) /\ c.over_gatt
    THEN [c EXCEPT !.retries = 0] ELSE c

(***************************************************************************)
(* mesh_provision_process_event with an answer r, by state.  finished is   *)
(* the outcome of a key refresh that ends with it.                         *)
(***************************************************************************)
Status(client, r, finished) ==
    LET c == IF r.kind = "FILTER_ADD" THEN [client EXCEPT !.proxy_addr = r.src] ELSE client
    IN  CASE c.state = "IDLE" ->
                IF r.kind = "COMP_GET" THEN CompositionStatus(c, r) ELSE ConfigStatus(c, r)
          [] c.state = "GET_REMOTE_COMPOSITION_DATA" /\ r.kind = "COMP_GET" ->
                CompositionStatus(c, r)
          [] c.state \in {"CONFIGURATION", "RECONFIGURATION"} /\ r.kind = "FILTER_ADD" ->
                CountAnew(FilterStatus(c, r))
          [] c.state \in {"CONFIGURATION", "RECONFIGURATION"} /\ r.kind \in ConfigKinds ->
                CountAnew(ConfigStatus(c, r))
          [] c.state = "NETWORK_CONNECT" /\ r.kind = "FILTER_ADD" -> NetworkConnected(c, r)
          [] c.state = "WAIT_NODE_IDENTITY" /\ r.kind = "IDENTITY" -> IdentityStatus(c)
          [] c.state = "WAIT_CONNECT" /\ r.kind = "FILTER_ADD" -> [c EXCEPT !.state = "IDLE"]
          [] c.state = "KEY_REFRESH" -> RefreshStatus(c, r, finished)
          [] OTHER -> c

-----------------------------------------------------------------------------
(* Messages without an answer                                              *)

\* Mutant of Unreachable: a node that is the proxy is waited for.
UnreachableWaits(c, m) ==
    IF Connected(c) /\ c.over_gatt THEN c ELSE Fail(c)

\* TX_COMPLETE with a failure in GET_REMOTE_COMPOSITION_DATA and CONFIGURATION
Unreachable(c, m) ==
    IF Connected(c) /\ c.over_gatt /\ c.proxy_addr = m.dst
    THEN ProxyDisconnect(c) ELSE Fail(c)

ReconfigUnreachable(c, m) ==
    LET rest == Clean(c, m.dst)
    IN  IF rest.queue # <<>> THEN Execute(rest) ELSE [rest EXCEPT !.state = "IDLE"]

TxFailed(c, m, finished) ==
    CASE c.state = "WAIT_NODE_IDENTITY" -> [c EXCEPT !.state = "IDLE"]
      [] c.state \in {"GET_REMOTE_COMPOSITION_DATA", "CONFIGURATION"} -> Unreachable(c, m)
      [] c.state = "RECONFIGURATION" -> ReconfigUnreachable(c, m)
      [] c.state = "KEY_REFRESH" -> RefreshTxFailed(c, m, finished)
      [] OTHER -> c

-----------------------------------------------------------------------------
(* Connection events                                                       *)

\* mesh_node_connecting_link_status
NodeConnecting(c, up) ==
    CASE up -> [c EXCEPT !.state = "GET_REMOTE_COMPOSITION_DATA"]
      [] ~ up /\ c.retries = 0 -> ConnectProxy([c EXCEPT !.retries = 1], "node")
      [] ~ up /\ c.retries \in 1 .. (MAX_CONNECT_RETRIES - 1) ->
            ConnectProxy([c EXCEPT !.retries = @ + 1], "net")
      [] OTHER -> NotifyStatus([c EXCEPT !.retries = 0, !.state = "IDLE"], "FAILED")

\* Mutant of ConfigLink: the attempts by network identity are not limited.
ConfigLinkForever(c, up) ==
    CASE up -> Execute(c)
      [] ~ up /\ c.retries < MAX_CONNECT_RETRIES - 1 ->
            ConnectProxy([c EXCEPT !.retries = @ + 1], "node")
      [] OTHER -> ConnectProxy([c EXCEPT !.retries = @ + 2], "net")

\* mesh_configure_proxy_connection_status: its chain of conditions counts twice.
ConfigLink(c, up) ==
    CASE up -> Execute(c)
      [] ~ up /\ c.retries < MAX_CONNECT_RETRIES - 1 ->
            ConnectProxy([c EXCEPT !.retries = @ + 1], "node")
      [] ~ up /\ c.retries = MAX_CONNECT_RETRIES - 1 ->
            ConnectProxy([c EXCEPT !.retries = @ + 2], "net")
      [] OTHER -> Fail([c EXCEPT !.retries = @ + 2])

\* PROXY_CONNECTION_STATUS, by state
ProxyStatus(c, up) ==
    CASE c.state = "CONNECTING" -> NotifyStatus(ProvisionConnect(c), "CONNECTING")
      [] c.state \in {"NODE_CONNECTING", "GET_REMOTE_COMPOSITION_DATA"} ->
            NodeConnecting([c EXCEPT !.state = "NODE_CONNECTING"], up)
      [] c.state \in {"CONFIGURATION", "RECONFIGURATION"} -> ConfigLink(c, up)
      [] c.state = "CONFIGURE_DISCONNECTING" -> [c EXCEPT !.state = "IDLE"]
      [] c.state = "NETWORK_CONNECT" ->
            IF up THEN AddFilter(c) ELSE [c EXCEPT !.state = "IDLE"]
      [] c.state = "WAIT_NODE_IDENTITY" ->
            [IF up THEN AddFilter(c) ELSE ConnectProxy(c, "node") EXCEPT !.state = "IDLE"]
      [] c.state = "WAIT_DISCONNECT" ->
            IF up THEN c ELSE ConnectProxy([c EXCEPT !.state = "WAIT_CONNECT"], "node")
      [] c.state = "WAIT_CONNECT" ->
            IF up /\ c.proxy_addr = 0 THEN AddFilter(c) ELSE [c EXCEPT !.state = "IDLE"]
      [] c.state = "KEY_REFRESH" -> RefreshLink(c, up)
      [] OTHER -> c

\* Mutant of LinkDown: the address of the proxy is kept.
LinkDownKeepsProxy(c) == [c EXCEPT !.link = Down, !.over_gatt = FALSE]

\* The assignments at the head of mesh_provision_process_event
LinkUp(c, a) == [c EXCEPT !.link = [st |-> "up", peer |-> a], !.over_gatt = TRUE]
LinkDown(c)  == [c EXCEPT !.link = Down, !.over_gatt = FALSE, !.proxy_addr = 0]

\* A provisioning link that could not be opened or was lost
ProvisionAgain(c) ==
    LET counted == [c EXCEPT !.retries = @ + 1]
    IN  IF c.retries < MAX_CONNECT_RETRIES
        THEN ProvisionConnect([counted EXCEPT !.state = "CONNECTING"])
        ELSE NotifyStatus([counted EXCEPT !.state = "IDLE"], "FAILED")

\* PROVISION_LINK_REPORT, by state
LinkReport(c, open) ==
    CASE c.state = "CONNECTING" ->
            IF open THEN [c EXCEPT !.over_gatt = TRUE] ELSE ProvisionAgain(c)
      [] c.state = "PROVISIONING" -> IF open THEN c ELSE ProvisionAgain(c)
      [] c.state = "PROVISION_DISCONNECTING" ->
            ConnectProxy([c EXCEPT !.state = "NODE_CONNECTING", !.retries = 0], "node")
      [] OTHER -> c

-----------------------------------------------------------------------------
(* Provisioning                                                            *)

\* Mutant of FreeAddress: the addresses of blocked nodes are given again.
FreeAddressOfBlocked(c) ==
    CHOOSE a \in (Local + 1) .. (Local + 1 + Cardinality(c.db)) :
        /\ \A r \in NodesAt(c, a) : r.blocked
        /\ \A b \in (Local + 1) .. (a - 1) : \E r \in NodesAt(c, b) : ~ r.blocked

\* wiced_bt_mesh_db_alloc_unicast_addr
FreeAddress(c) ==
    CHOOSE a \in (Local + 1) .. (Local + 1 + Cardinality(c.db)) :
        NodesAt(c, a) = {} /\ \A b \in (Local + 1) .. (a - 1) : NodesAt(c, b) # {}

\* mesh_provision_process_device_caps
DeviceCaps(c) ==
    NotifyStatus([c EXCEPT !.state = "PROVISIONING", !.addr = FreeAddress(c),
                           !.plink.st = "started", !.plink.addr = FreeAddress(c)],
                 "PROVISIONING")

\* mesh_provision_process_provision_end
ProvisionEnd(c, ok) ==
    LET created == [c EXCEPT !.db = {r \in @ : r.uuid # c.uuid} \cup {Record(c.uuid, c.addr)}]
        told    == NotifyStatus(created, "END")
    IN  CASE ~ ok -> [NotifyStatus(c, "FAILED") EXCEPT !.state = "IDLE"]
          [] ok /\ c.plink.st # "down" /\ c.over_gatt ->
                [told EXCEPT !.state = "PROVISION_DISCONNECTING"]
          [] ok /\ c.plink.st = "down" /\ c.over_gatt ->
                ConnectProxy([told EXCEPT !.state = "NODE_CONNECTING", !.retries = 0], "node")
          [] OTHER -> [told EXCEPT !.state = "GET_REMOTE_COMPOSITION_DATA"]

\* Mutant of ProvisionStart: the operations that are left are not removed.
ProvisionStartKeepsQueue(c, d) ==
    LET start == [c EXCEPT !.uuid = d, !.completed_sent = FALSE, !.remote_comp = FALSE,
                           !.state = "CONNECTING", !.over_gatt = FALSE, !.retries = 0,
                           !.told[d] = "pending"]
    IN  IF Connected(c) THEN ProxyDisconnect(start)
        ELSE NotifyStatus(ProvisionConnect(start), "CONNECTING")

\* Mutant of ProvisionStart: the end of the provisioning before counts as its own.
ProvisionStartStillSent(c, d) ==
    LET start == [CleanAll(c) EXCEPT
                    !.uuid = d, !.remote_comp = FALSE,
                    !.state = "CONNECTING", !.over_gatt = FALSE, !.retries = 0,
                    !.told[d] = "pending"]
    IN  IF Connected(c) THEN ProxyDisconnect(start)
        ELSE NotifyStatus(ProvisionConnect(start), "CONNECTING")

\* mesh_client_provision_start
ProvisionStart(c, d) ==
    LET start == [CleanAll(c) EXCEPT
                    !.uuid = d, !.completed_sent = FALSE, !.remote_comp = FALSE,
                    !.state = "CONNECTING", !.over_gatt = FALSE, !.retries = 0,
                    !.told[d] = "pending"]
    IN  IF Connected(c) THEN ProxyDisconnect(start)
        ELSE NotifyStatus(ProvisionConnect(start), "CONNECTING")

-----------------------------------------------------------------------------
(* The rest of the system: devices, messages, and how much may happen.     *)
(* A device is unprovisioned (new) or has an address; applied are the      *)
(* configuration messages it accepted.                                     *)

Bounds == [provisions |-> MaxProvisions, connects |-> MaxConnects,
           disconnects |-> MaxDisconnects, commands |-> MaxCommands,
           resets |-> MaxResets, drops |-> MaxDrops, dups |-> MaxDups]

Within(b) == used[b] < Bounds[b]
Count(b)  == used' = [used EXCEPT ![b] = @ + 1]

NewDevice == [new |-> TRUE, addr |-> 0, applied |-> {}]

DeviceInit(d) ==
    IF \E i \in DOMAIN Known : Known[i] = d
    THEN [new |-> FALSE, addr |-> 1 + CHOOSE i \in DOMAIN Known : Known[i] = d,
          applied |-> Required]
    ELSE NewDevice

Addresses == Local .. (Local + Len(Known) + MaxProvisions * (MAX_CONNECT_RETRIES + 1))

Init ==
    /\ cl = ClientInit
    /\ dev = [d \in Devices |-> DeviceInit(d)]
    /\ inflight = {}
    /\ replies = [a \in Addresses |-> <<>>]
    /\ used = [b \in DOMAIN Bounds |-> 0]

\* Where a message goes: a filter message to the proxy.
Target(m) == IF m.kind = "FILTER_ADD" THEN cl.link.peer ELSE m.dst

Answer(m, ok) == [kind |-> m.kind, src |-> Target(m), ok |-> ok]

Answers(r, m) == r.kind = m.kind /\ (m.kind = "FILTER_ADD" \/ r.src = m.dst)

Answered(m) == \E a \in Addresses : \E i \in DOMAIN replies[a] : Answers(replies[a][i], m)

\* Releasing an event cancels its transmission; those outside the queue stay.
Outstanding(c, ms) ==
    {m \in ms : m.kind \in {"COMP_GET", "IDENTITY"} \/ \E i \in DOMAIN c.queue : c.queue[i] = m}

\* The client takes a step to c with the end of a connection: the answers on their
\* way are lost, and the messages the queue does not keep are given up.
Disconnected(c) ==
    /\ cl' = c
    /\ inflight' = {m \in Outstanding(c, inflight) : m.kind \notin {"COMP_GET", "IDENTITY"}}
    /\ replies' = [a \in Addresses |-> IF a = Local THEN replies[a] ELSE <<>>]

\* Devices whose record a finished refresh removed do not have the keys any more.
CutOff(d, c) ==
    IF \E r \in cl.db \ c.db : r.uuid = d /\ r.blocked /\ r.addr = dev[d].addr
    THEN [dev[d] EXCEPT !.addr = 0] ELSE dev[d]

\* mesh_configure_composition_data_get, called on the way to its state.
CompositionGet(c) ==
    IF c.state = "GET_REMOTE_COMPOSITION_DATA" /\ cl.state # c.state
    THEN {Msg("COMP_GET", c.addr)} ELSE {}

\* The client takes a step to c.
Client(c) == cl' = c /\ inflight' = Outstanding(c, inflight) \cup CompositionGet(c)

-----------------------------------------------------------------------------
(* Calls of the application                                                *)

\* mesh_client_provision of a device that was found.  The code refuses it only
\* with pending operations outside IDLE, so that it can overlap with an earlier one.
Provision(d) ==
    /\ Within("provisions") /\ Count("provisions")
    /\ cl.state = "IDLE" /\ dev[d].new
    /\ TRUE \in Overlaps \/ cl.plink.st \in {"down", "ended"}
    /\ Client(ProvisionStart(cl, d))
    /\ UNCHANGED <<dev, replies>>

ConnectNetwork ==
    /\ Within("connects") /\ Count("connects")
    /\ cl.state = "IDLE" /\ ~ Connected(cl)
    /\ Client(ConnectProxy([cl EXCEPT !.state = "NETWORK_CONNECT"], "net"))
    /\ UNCHANGED <<dev, replies>>

DisconnectNetwork ==
    /\ Within("disconnects") /\ Count("disconnects")
    /\ cl' = LET idle == [cl EXCEPT !.state = "IDLE"]
             IN  IF Connected(cl) THEN [ProxyDisconnect(idle) EXCEPT !.proxy_addr = 0] ELSE idle
    /\ UNCHANGED <<dev, inflight, replies>>

ConnectComponent(r) ==
    /\ Within("commands") /\ Count("commands")
    /\ cl.state = "IDLE" /\ Connected(cl) /\ cl.proxy_addr # r.addr
    /\ cl' = [cl EXCEPT !.state = "WAIT_NODE_IDENTITY", !.addr = r.addr]
    /\ inflight' = inflight \cup {Msg("IDENTITY", r.addr)}
    /\ UNCHANGED <<dev, replies>>

\* mesh_client_configure_publication, for the commands that change one node
ConfigurePublication(r) ==
    /\ Within("commands") /\ Count("commands")
    /\ cl.state = "IDLE" /\ Connected(cl)
    /\ Client(Execute(Enqueue([CleanAll(cl) EXCEPT !.state = "RECONFIGURATION"],
                              <<Msg("SET", r.addr)>>)))
    /\ UNCHANGED <<dev, replies>>

\* A device that is not being provisioned is reset by hand.
FactoryReset(d) ==
    /\ Within("resets") /\ Count("resets")
    /\ ~ dev[d].new /\ cl.told[d] # "pending"
    /\ dev' = [dev EXCEPT ![d] = NewDevice]
    /\ UNCHANGED <<cl, inflight, replies>>

-----------------------------------------------------------------------------
(* The operation timer and the messages                                    *)

\* provision_timer_cb sends the head of the queue.
TimerFires ==
    /\ cl.timer
    /\ cl' = [cl EXCEPT !.timer = FALSE]
    /\ inflight' = IF cl.queue = <<>> THEN inflight ELSE inflight \cup {Head(cl.queue)}
    /\ UNCHANGED <<dev, replies, used>>

\* What a message does to the device.
Applied(v, m, ok) ==
    CASE m.kind = "NODE_RESET" -> NewDevice
      [] m.kind \in Required /\ ok -> [v EXCEPT !.applied = @ \cup {m.kind}]
      [] OTHER -> v

\* A device understands what is sent with its device key.
HasDeviceKey(d, m) ==
    m.kind = "FILTER_ADD" \/ \E r \in cl.db : r.uuid = d /\ r.addr = m.dst

\* A message arrives and is answered; again if the answer is late.
DeviceHandles(m, d, ok) ==
    /\ m.kind # "REFRESH" /\ Connected(cl)
    /\ dev[d].addr = Target(m) /\ HasDeviceKey(d, m)
    /\ ok \/ m.kind \in Rejects
    /\ \/ ~ Answered(m) /\ UNCHANGED used
       \/ Answered(m) /\ m.kind \in DupKinds /\ Within("dups") /\ Count("dups")
    /\ dev' = [dev EXCEPT ![d] = Applied(@, m, ok)]
    /\ replies' = [replies EXCEPT ![Target(m)] = Append(@, Answer(m, ok))]
    /\ UNCHANGED <<cl, inflight>>

LocalHandles(m) ==
    /\ m.kind = "REFRESH" /\ ~ Answered(m)
    /\ replies' = [replies EXCEPT ![Local] = Append(@, Answer(m, TRUE))]
    /\ UNCHANGED <<cl, dev, inflight, used>>

AnswerArrives(a, finished) ==
    /\ replies[a] # <<>>
    /\ LET r == Head(replies[a])
           c == Status(cl, r, finished)
       IN  /\ cl' = c
           /\ inflight' = Outstanding(c, {m \in inflight : ~ Answers(r, m)})
           /\ dev' = [d \in Devices |-> CutOff(d, c)]
    /\ replies' = [replies EXCEPT ![a] = Tail(@)]
    /\ UNCHANGED used

AnswerLost(a) ==
    /\ Within("drops") /\ Count("drops")
    /\ a # Local /\ replies[a] # <<>>
    /\ replies' = [replies EXCEPT ![a] = Tail(@)]
    /\ UNCHANGED <<cl, dev, inflight>>

\* The core gives a message up.
MessageFails(m, finished) ==
    /\ m.kind # "REFRESH" /\ ~ Answered(m)
    /\ LET c == TxFailed(cl, m, finished)
       IN  /\ cl' = c
           /\ inflight' = Outstanding(c, inflight \ {m})
           /\ dev' = [d \in Devices |-> CutOff(d, c)]
    /\ UNCHANGED <<replies, used>>

-----------------------------------------------------------------------------
(* The proxy connection                                                    *)

\* A node one can connect to: by identity the one asked for, else any proxy.
MayConnect(d) ==
    /\ dev[d].addr # 0
    /\ \/ cl.link.st = "node" /\ cl.link.peer = dev[d].addr
       \/ cl.link.st = "net" /\ d \in GattProxies

ProxyUp(d) ==
    /\ MayConnect(d)
    /\ Client(ProxyStatus(LinkUp(cl, dev[d].addr), TRUE))
    /\ UNCHANGED <<dev, replies, used>>

\* No connection, or the end of one the client asked for.
ProxyDown ==
    /\ cl.link.st \in {"node", "net", "closing"}
    /\ Disconnected(ProxyStatus(LinkDown(cl), FALSE))
    /\ UNCHANGED <<dev, used>>

ProxyLost ==
    /\ Within("drops") /\ Count("drops")
    /\ cl.link.st = "up"
    /\ Disconnected(ProxyStatus(LinkDown(cl), FALSE))
    /\ UNCHANGED dev

-----------------------------------------------------------------------------
(* The provisioning link                                                   *)

PbStep(c) == Client(c) /\ UNCHANGED replies

PbOpens ==
    /\ cl.plink.st = "connecting" /\ dev[cl.plink.dev].new
    /\ PbStep(LinkReport([cl EXCEPT !.plink.st = "open"], TRUE))
    /\ UNCHANGED <<dev, used>>

\* It cannot be opened, or is closed after the end of the procedure or, once the
\* client does not go on with it, by the timeout of the procedure.
PbCloses ==
    /\ cl.plink.st \in {"connecting", "ended", "stalled"}
    /\ PbStep(LinkReport([cl EXCEPT !.plink = PbDown], FALSE))
    /\ UNCHANGED <<dev, used>>

\* It is lost, perhaps after the device completed the procedure.
PbLost(completed) ==
    /\ Within("drops") /\ Count("drops")
    /\ cl.plink.st = "started" \/ (cl.plink.st = "open" /\ ~ completed)
    /\ dev' = IF completed
              THEN [dev EXCEPT ![cl.plink.dev] = [NewDevice EXCEPT !.new = FALSE,
                                                                   !.addr = cl.plink.addr]]
              ELSE dev
    /\ PbStep(LinkReport([cl EXCEPT !.plink = PbDown], FALSE))

PbCapabilities ==
    /\ cl.plink.st = "open"
    /\ PbStep(IF cl.state = "CONNECTING" THEN DeviceCaps(cl)
              ELSE [cl EXCEPT !.plink.st = "stalled"])
    /\ UNCHANGED <<dev, used>>

PbEnd(ok) ==
    /\ cl.plink.st = "started"
    /\ dev' = IF ok
              THEN [dev EXCEPT ![cl.plink.dev] = [NewDevice EXCEPT !.new = FALSE,
                                                                   !.addr = cl.plink.addr]]
              ELSE dev
    /\ LET ended == [cl EXCEPT !.plink.st = "ended"]
       IN  PbStep(IF cl.state \in {"CONNECTING", "PROVISIONING"}
                  THEN ProvisionEnd(ended, ok) ELSE ended)
    /\ UNCHANGED used

-----------------------------------------------------------------------------
User ==
    \/ \E d \in Devices : Provision(d) \/ FactoryReset(d)
    \/ ConnectNetwork
    \/ DisconnectNetwork
    \/ \E r \in cl.db : ~ r.blocked /\ (ConnectComponent(r) \/ ConfigurePublication(r))

Messages ==
    \/ TimerFires
    \/ \E m \in inflight :
          \/ \E d \in Devices, ok \in BOOLEAN : DeviceHandles(m, d, ok)
          \/ LocalHandles(m)
          \/ \E finished \in Finishes : MessageFails(m, finished)
    \/ \E a \in Addresses :
          \/ \E finished \in Finishes : AnswerArrives(a, finished)
          \/ AnswerLost(a)

Connections ==
    \/ \E d \in Devices : ProxyUp(d)
    \/ ProxyDown
    \/ ProxyLost
    \/ PbOpens
    \/ PbCloses
    \/ PbCapabilities
    \/ \E b \in BOOLEAN : PbLost(b) \/ PbEnd(b)

Next == User \/ Messages \/ Connections

Spec == Init /\ [][Next]_vars

\* What happens by itself: the timer fires, the core ends a transmission with an
\* answer or a failure, and reports what becomes of a connection.
Progress ==
    \/ TimerFires
    \/ \E a \in Addresses, finished \in Finishes : AnswerArrives(a, finished)
    \/ \E m \in inflight : LocalHandles(m) \/ \E finished \in Finishes : MessageFails(m, finished)
    \/ ProxyDown \/ \E d \in Devices : ProxyUp(d)
    \/ PbOpens \/ PbCloses \/ PbCapabilities \/ \E ok \in BOOLEAN : PbEnd(ok)

\* It does not stop with something to do.  The application need not call anything.
Fairness == WF_vars(Progress)

FairSpec == Spec /\ Fairness

-----------------------------------------------------------------------------
(* Properties                                                              *)

\* The type invariant: the addresses are of nodes, the queue holds operations of the
\* kinds the handlers know, and the attempts to connect stay few.
TypeOK ==
    /\ cl.state \in States
    /\ cl.uuid \in Devices \cup {NoDevice}
    /\ cl.addr \in Addresses \cup {0}
    /\ cl.proxy_addr \in Addresses \cup {0}
    /\ cl.retries \in 0 .. (MAX_CONNECT_RETRIES + MaxProvisions + MaxCommands + MaxDrops + 2)
    /\ {cl.over_gatt, cl.timer, cl.remote_comp, cl.completed_sent, cl.refresh} \subseteq BOOLEAN
    /\ \A i \in DOMAIN cl.queue :
          cl.queue[i].kind \in OpKinds /\ cl.queue[i].dst \in Addresses \cup {Broadcast}
    /\ cl.last_status \in {"NONE", "CONNECTING", "PROVISIONING", "END", "CONFIGURING",
                           "SUCCESS", "FAILED"}
    /\ cl.link.st \in {"down", "node", "net", "up", "closing"}
    /\ cl.plink.st \in {"down", "connecting", "open", "started", "ended", "stalled"}
    /\ \A d \in Devices : cl.told[d] \in {"none", "pending", "SUCCESS", "FAILED"}
    /\ \A r \in cl.db : r.uuid \in Devices /\ r.addr \in Addresses
    /\ \A d \in Devices : dev[d].applied \subseteq Required /\ (dev[d].new => dev[d].addr = 0)

\* No two nodes of the database have an address in common, a blocked one included,
\* and a device that was provisioned again has one record.
DatabaseOK ==
    \A r, s \in cl.db : r # s => r.addr # s.addr /\ r.uuid # s.uuid

\* A node the database calls completely configured accepted every message of its
\* configuration, unless it is being removed or was reset behind the client's back.
CompleteMeansConfigured ==
    \A r \in cl.db :
        r.complete /\ ~ r.blocked /\ dev[r.uuid].addr = r.addr => dev[r.uuid].applied = Required

\* The configuration of a new node waits only for that node and its proxy: nothing
\* an earlier procedure left in the queue is sent first.
QueueIsOurs ==
    cl.state \in {"CONFIGURATION", "PROVISIONING", "CONNECTING"} =>
        \A i \in DOMAIN cl.queue : cl.queue[i].dst \in {cl.addr, Broadcast}

\* The node the client takes for its proxy is the one it is connected to.
ProxyIsPeer ==
    cl.proxy_addr # 0 => Connected(cl) /\ cl.proxy_addr = cl.link.peer

\* The application hears of a success only when the device accepted every message of
\* its configuration.
SuccessMeansConfigured ==
    [][\A d \in Devices :
          cl.told[d] # "SUCCESS" /\ cl'.told[d] = "SUCCESS" => dev'[d].applied = Required]_vars

\* What the database says of a device.
Stage(d) ==
    LET record == {r \in cl.db : r.uuid = d}
    IN  CASE record = {} -> "out"
          [] \E r \in record : r.blocked -> "revoked"
          [] \E r \in record : r.complete /\ ~ r.blocked -> "member"
          [] OTHER -> "fresh"

Promised == INSTANCE Membership WITH
    Members <- {Known[i] : i \in DOMAIN Known},
    stage   <- [d \in Devices |-> Stage(d)],
    heard   <- [d \in Devices |-> cl.told[d]]

\* Every step of the client is one the application was promised: a device becomes a
\* member exactly when provision_status_notify reports its success, and one that was
\* not configured to the end is revoked exactly when it reports the failure.
StepsAsPromised == Promised!Init /\ [][Promised!Next]_(Promised!vars)

\* wiced_mesh_client.h:105: "The end of the provisioning is always indicated by executing
\* callback with status _SUCCESS or _FAILED", whatever is lost, given up or reset by hand,
\* and although provision_completed_sent lets only one of the two through.  In Membership
\* it is the fairness of End: StepsAsPromised and EndIndicated make up Promised!Spec.
EndIndicated ==
    \A d \in Devices : cl.told[d] = "pending" ~> cl.told[d] \in {"SUCCESS", "FAILED"}

\* Provisioning, configuration and reconfiguration end, whatever is disconnected, lost
\* or never answered: the client comes to rest or goes on to a refresh of the keys.
BusyEnds ==
    LET Busy == States \ {"IDLE", "NETWORK_CONNECT", "WAIT_CONNECT", "KEY_REFRESH"}
    IN  cl.state \in Busy ~> cl.state \notin Busy
=============================================================================
