# A TLA+ model of the mesh client library

The repository holds host and peer applications for Bluetooth mesh (Windows, Qt,
Android, iOS, WatchOS). All of them share `src/mesh_client_lib`: the library that
provisions and configures nodes, keeps the mesh database and renews the network's keys.
That library is where the decisions are made; the applications around it are user
interfaces, transports and glue. This project models the library: the removal of nodes and
the refresh of keys, the provisioning and configuration of a device, groups, the file of
sequence numbers, and the timer thread everything runs on.

## 1. Inventory

Everything in `src/mesh_client_lib` runs on one thread: the core library calls
`mesh_provision_process_event` with an event, a timer calls
`provision_timer_cb` (on Windows by a message from the timer thread), the application calls `mesh_client_*`. A handler runs to
its end; the interleaving is that of the handlers. The core library
(`wiced_bt_mesh_core*`), the GATT connection and the nodes are outside the repository.

| Component (where) | State it keeps | Operations | What is hard |
|---|---|---|---|
| Node removal and key refresh (`wiced_mesh_client.c` 5487-6269, 6940-7311, states `KEY_REFRESH_1..3`) | control block state, phase and keys of the network key, the phase of every key of every node, blocked nodes | `mesh_client_reset_device`, three phases, completion, resumption | unreachable nodes, lost or repeated answers, a second removal in the middle, restarts, crash between two stores, reconnection |
| Pending operation queue (5510-5652, 7358-7384, 8191-8446) | `p_first`, the operation timer | queue, send the head, drop it on the answer, clean for a node | who answers the head; an operation left behind by an earlier procedure |
| Proxy connection (3399-3470, 4199-4286, 5487-5508) | state `NETWORK_CONNECT`, retries | connect, disconnect, link status, proxy filter | retries, stale queue, losing the proxy because it is the node removed |
| Opening and closing a network (646-1097, 1570-1603, 7446-7648) | opened flag, local device | create, open, close, delete, import, export | what of a refresh survives; bringing the local device to the phase in the database |
| Provisioning (3267-3554, 3907-4017, 4677-5262) | states `CONNECTING` to `PROVISION_DISCONNECTING`, retries, OOB data | provision, scan reports, link and end events | retries racing late events, the same device provisioned again |
| Configuration of a new node (5263-5486, 7650-8190) | remote composition data, queue | large composition data, keys, binds, publications, subscriptions | failure of one step, disconnection in the middle |
| Groups and models (1099-1305, 6391-6494, 8456-9160) | group list, subscriptions and publications of each model | group create, delete; add, remove, move a component; publications | several messages for one change, late answers, addresses used again |
| Scan for unprovisioned devices | scan state, remote servers | start, stop, reports, extended scan | reports after the stop |
| Connection to one component (3472-3523, 4288-4409) | states `CONNECTING_NODE_*` | connect by node identity, then by network identity | the retry count runs twice (5472) |
| Low-power nodes (9162-9210) | list of poll-timeout blocks | wait for a friend's answer | a block freed while linked |
| Replay list file (1400-1545) | sequence numbers on disk | read, write, delete | truncated before rewritten |
| Mesh database (`wiced_bt_mesh_db.c`, `meshdb.c`) | nodes, keys, groups, ranges; JSON file | create/remove, key phases, allocation of addresses, store | range arithmetic; the file is written after some changes only |
| Host API (`wiced_mesh_api.c`) | - | packs requests, unpacks answers | layouts only |
| Timers (`wiced_main.c`) | sorted list, tick count | start, stop, the timer thread | two threads, rollover of the tick count |
| Applications (`src/host`, `src/peer`) | user interface | serial port, GATT, OTA, FFI | outside the library |

What would make them correct, in the order of importance, and the properties that say so:

* *Key refresh.* A removed node does not end with the key in use; a node that stays is never
  cut off and does not accept the old key for ever; no key is sent to a removed node; every
  attempt ends and, if the nodes can be reached, goes through. (`RevokedHaveNoKey`,
  `SwitchSafe`, `OneKeyBehind`, `OldKeyRetired`, `PhaseSetsCurrent`, `NoKeyToBlocked`,
  `RefreshAttemptEnds`, `RefreshCompletes`)
* *Queue.* The head is dropped only for its own answer; a state never waits for nothing.
  (`WaitsForScheduled`, `QueueIsOurs`, `BusyEnds`, `CommandsEnd`)
* *Connection.* Attempts end; the proxy is the peer. (`ConnectEnds`, `ProxyIsPeer`)
* *Provisioning and configuration.* The database calls a node a member exactly when the
  application was told so and the device accepted its configuration; a device that failed is
  removed again. (`StepsAsPromised`, `EndIndicated`, `SuccessMeansConfigured`,
  `CompleteMeansConfigured`, `DatabaseOK`)
* *Groups.* The database follows the nodes, a command does what it says.
  (`DatabaseFollowsNodes`, `CommandDone`, `NewGroupEmpty`)
* *Sequence file.* No own sequence number is used twice, no message is accepted twice, a new
  node is heard. (`OwnSequenceFresh`, `OnlyFollowerForgotten`, `NewNodeHeard`, `FileFollowsCore`)
* *Timers.* A timer that was stopped does not fire; none is lost, late for want of a
  wake-up, or early over a rollover of the tick count. (`OncePerStart`, `Expires`,
  `NoOversleep`, `NeverEarly`, `ListOK`)

`PROJECT.json` lists every component with its status and the hazards at their lines.

## 2. Modules

| Module | Models | Composed of |
|---|---|---|
| `KeyRefreshClient` | The client as a record and every C function of the refresh as an operator on it. No variables; also the mutants of these functions. | |
| `KeyRefresh` | Client, core, connection, nodes and user; one action per event, call, loss or crash. | `KeyRefreshClient` |
| `KeyRefreshProofs` | Its first inductive invariant (types, states, blocked nodes) and the theorems from it. | `KeyRefresh` |
| `KeyAgreementProofs` | The agreement of client, nodes and messages about the keys; what holds besides while the connection stays; the theorems from both. | `KeyRefreshProofs` |
| `Membership` | Abstract: what the client promises of every device it is asked to provision. With its safety theorem. | |
| `Provisioning` | The control block from `CONNECTING` to the end of the configuration, with the other users of the same block; devices, proxy link, provisioning link. Implements `Membership`. | `Promised == INSTANCE Membership` |
| `Groups` | Groups, the commands on components, the queue of their messages, the database and the nodes' configuration. | |
| `ReplayList` | The sequence file, the replay list of the core, the node array and address allocation. | |
| `ReplayListProofs` | Its inductive invariants and theorems. | `ReplayList` |
| `TimerList` | Timer list, timer thread, message queue. | |
| `TimerListProofs` | Its inductive invariant and theorems. | `TimerList` |
| `ProvisioningProofs` | What every handler does to the record of the client; types, shape and addresses of the database. | `Provisioning` |
| `StepsProofs` | Provisioning takes the steps of `Membership`; a device reported as a success accepted its whole configuration. | `ProvisioningProofs` |
| `GroupsProofs` | The sequences the commands queue; the two inductive invariants of `Groups` and its theorems. | `Groups` |
| `MC*` | Node lists, model tables and element counts for TLC. | |

The modules share the C control block. `KeyRefresh` is exact about the refresh and leaves
provisioning out; `Provisioning` is exact about provisioning and has of the refresh the
states (as one), the queue entries and the outcome. The queue, its head check and
`start_next_op` are in each as its handlers use them.

### Key refresh

| Code | Model |
|---|---|
| `mesh_provision_cb_t.state`, `p_first`, `retries` (`uint8_t`) | `cl.state`, `cl.queue`, `cl.retries` (modulo `UINT8`) |
| the one millisecond timer of `configure_execute_pending_operation` | `cl.timer`; `OpTimer` is its callback |
| `net_key.phase`, and the key itself | `cl.netPhase`; `cl.gen` counts how often the keys were renewed, so that equality of keys is equality of generations |
| `node[i].net_key[j].phase`, `node[i].app_key[j].phase`, `node[i].blocked` | `cl.phase[<<key, node>>]`, `cl.blocked`; a removed node leaves `cl.nodes` |
| `pending_operation_t` | a record `[kind, dst, key, val]`; the union's fields that handlers compare |
| `mesh_reset_node` and what it calls | `ResetNode` |
| `mesh_key_refresh_continue` | `Continue` = `ContinueFirst`, `ContinueSecond`, then the third branch, which see the phase the one before left |
| `mesh_key_refresh_phase{1,2,3}_completed` | `Phase1Completed` ... ; `Finish` and `Restart` are the end of the third |
| `mesh_configure_state_key_refresh{1,2,3}` | `KrStatus`, `KrResetStatus`, `KrFilterStatus`, `KrTxFailed`, `OnLinkUp`, `OnLinkDown` |
| `mesh_configure_state_idle` | `IdleKeyStatus`, `IdlePhaseStatus` |
| `mesh_configure_state_network_connect` | `ConnectFilterStatus`, `OnLinkUp`, `OnLinkDown` |
| `mesh_client_network_open` in a new process | `Reopened` and `LocalDevice` |

`KR_PHASE_SET` answers are recorded as the phase the client asked for in the
`KEY_REFRESH_n` states and as the phase reported in IDLE, as in the code.
`mesh_configure_phase_status` reads a part of the operation's union that a NODE_RESET never
wrote; the model lets the comparison come out either way (`unwritten`). The handlers that
read `p_first->operation` of an empty queue set `nullDeref` and the model stops there.
`ClientControl` selects between the two builds: without it a released event is no longer
transmitted (`Outstanding`), and the guard of the `TX_COMPLETE` case covers something else.

### Provisioning and configuration

| Code | Model |
|---|---|
| `provision_cb` (`state`, `uuid`, `addr`, `over_gatt`, `proxy_addr`, `retries`, `p_first`, `p_remote_composition_data`, `completed_sent`, `last_status`) | the fields of `cl` |
| `proxy_conn_id`, and what the core was asked to connect to | `cl.link`; the provisioning link is `cl.plink` |
| `node[]` with `uuid`, `unicast_address`, `config_complete`, `blocked` | `cl.db` |
| the status callback | `cl.told`: the last outcome per device |
| `mesh_provision_process_event` | `Status` (answers), `TxFailed` (`TX_COMPLETE`), `ProxyStatus`, `LinkReport`, with one operator per handler |
| `configure_queue_remote_device_operations` | `ConfigOps`: one operation for each status handler that behaves differently. `SET` stands for all whose handler only goes on; `NET_KEY`, `APP_KEY` and `BIND` have their own |
| `mesh_client_provision`, `connect_network`, `disconnect_network`, `connect_component`, `configure_publication` | `Provision` ... `ConfigurePublication` |

Decisions a reader should know: an attempt to open a provisioning link ends a search for a
proxy (`ProvisionConnect`); the loss of a connection ends the messages and answers on it;
a device understands what is sent with its device key only (`HasDeviceKey`). The
client is IDLE when `Provision` is called; whether the link of an earlier provisioning may
still be there then, which the code does not look at, is the constant `Overlaps`. A device is reset by hand only when it is not being provisioned. A message
that failed in NETWORK_CONNECT is ignored, as in the code.

### Groups

| Code | Model |
|---|---|
| `mesh_db->group[]`; `model.sub`, `model.pub` | `cl.groups`, `cl.sub`, `cl.pub`; the node's own state is `dev` |
| the tables of models that get a default subscription or publication (226-292) and `model_needs_sub` | `Kind`: "server", "client", "sensor", "vendor" |
| `get_group_list` | `GroupList`; where it would not return, `ListEnds` is false and the call is not made |
| `mesh_client_*_group` | `AddOps`, `RemoveOps`, `MoveOps`, `DeleteOps` and the actions of the same name |
| `mesh_configure_model_sub_status`, `mesh_configure_model_pub_status` | `SubStatus`, `PubStatus` |

A component is one node with one element. `AddComponentToGroup`, `GroupDelete` and
`GroupDeleteBusy` take any of `NamedAddresses` (`wiced_bt_mesh_db_group_get_addr`): the address
of a group, 0 for a name that is not known, with which the code visits every model (1195,
1241: it sends DELETE of 0 and cancels publications all the same), and 0xFFFF for the name of
the network, for which there is no list of groups (`Listed`). A publication to a node is
treated as one to another group, and the second message of 9125, for the second element of a
light, is left out with the second elements. The loss of the proxy is in `Provisioning`.

### Sequence file

`file` is the file (IV index and a number per address, own number under 0), `core` what the
core library keeps, `nodes` the array in its order, because `ProvisionEnd` reads an element
of it after a removal. `Forget` is `mesh_del_seq` with `wiced_bt_mesh_core_del_seq`. A node
has as many addresses as elements. `last`, `heard` and `dev[d].seq` are histories.
`Inside` switches one thing the code does not withstand (section 3).

### Timers

`list`, `target`, `event` and `absTimeHi` are the shared variables of `wiced_main.c`. The
timer thread takes one step per access outside the lock (`Look`, `Compare`, `Subtract`,
`Wake`), each of which may see another head of the list, and one for the section inside it
(`Expire`); `Post` is the callback's way through the message queue. `wiced_start_timer`
calls `wiced_stop_timer`, so `StartTimer` does. `Word` is the range of the tick count.

### External parts

The nodes, the core's transmissions (`inflight`), the answers on their way (`replies`, in
order per node: replay protection drops an older one) and the connection are modelled by
what the client relies on. A node follows the Configuration Server of the standard; it
answers what reaches it; a message reaches it when the client is connected, the node is
still a member and has the key it is sent with. The core resolves every operation it
accepted: an answer, or `TX_COMPLETE` after its retransmissions.

## 3. Runs

| Run | Shows |
|---|---|
| `removal` | Two of four nodes removed while the proxy stays, any node but the local one unreachable at any moment, two connections, one restart. `RevokedHaveNoKey`, `SwitchSafe`, `OneKeyBehind`, `OldKeyRetired`, `PhaseSetsCurrent`, `WaitsForScheduled`. |
| `sessions` | Three nodes, two of them proxies and removable; a disconnection, a loss of the connection, lost answers, a restart, a crash in `mesh_reset_node`: staying nodes are never cut off nor left with the old key, and no phase set of an earlier phase is pending. |
| `duplicates` | The CLIENTCONTROL build with answers delivered twice and a lost connection: `TypeOK`, `NoKeyToBlocked`, `StateMatchesPhase`. |
| `attempts` | Under fairness every attempt and every `connect_network` ends while the proxy stays; a connected client with the staying nodes in reach carries the refresh through. |
| `timers` | Two timers, one periodic, with starts and stops at any moment and a tick count that rolls over. |
| `provisioning` | A node of the network and a device that is provisioned, may reject a key, lose its link or an answer, is reset by hand and provisioned again. The client implements `Membership` (`StepsAsPromised` is its steps, `EndIndicated` its fairness); what the application hears is true. |
| `network_changes` | The same with `disconnect_network` at any moment, a device without the proxy feature, and commands in between: nothing stale is sent, the proxy is the peer, every procedure ends. |
| `replay` | Two devices, one with two elements, three allocations, an IV update, a restart, removals, factory resets and an imported database. |
| `groups` | A lamp (server and vendor model) and a switch, two groups, three commands with a lost, rejected or repeated message. |
| `stuck_in_phase_2` | violated: the removed node is the proxy; the `FILTER_ADD` after the reconnection ends up last and the handler of its status in `KEY_REFRESH_2` does not complete the phase. |
| `rejected_bind` | violated: a node that rejects a binding is reset, but its composition data is kept, and when the queue is empty next the provisioning is reported as a success. |
| `group_not_empty` | violated: the address of a deleted group goes to the next one, with the groups that were inside it. |

`PROJECT.json` quotes for the last three what a comment or the header says.

### What the passing runs leave out, because the code does not hold it

Each was seen as a counterexample while the models were written.

* *Refresh.* With a lost answer a node that took the new key counts as one without it and
  is removed with the key (`RevokedHaveNoKey`); so with a key update sent in
  `NETWORK_CONNECT`, which ignores the answer, and with a crash between the stores of
  `mesh_reset_node` (the database says "blocked" before it says "new keys"). A second answer
  to the phase 2 set is taken for the answer to the phase 3 set (`OldKeyRetired`). Two or
  three repeated answers, or in CLIENTCONTROL an operation still on its way when its phase
  is over, end `SwitchSafe` in the same way. After several disconnections and attempts a
  phase set of an earlier phase can be pending, and the client takes its answer for that of
  the present one (`PhaseSetsCurrent`, `OldKeyRetired`; more than `sessions` allows).
  Operations of a refresh that was given up before the proxy was lost stay before the
  `FILTER_ADD` that `connect_network` waits for (`ConnectEnds`). With 256 key updates due
  (129 nodes with two keys) the `uint8_t` count returns 0 and the network switches at once
  (`SwitchSafe`).
* *Provisioning.* After `mesh_client_disconnect_network` in the middle of a configuration the
  composition data stays; a later command empties the queue, and the node is marked complete
  and reported as a success (`CompleteMeansConfigured`, `SuccessMeansConfigured` with
  `MaxDisconnects` 1), against `StepsAsPromised`. A rejected binding does the same (the run
  `rejected_bind`), and a second answer to the request for the composition data starts the
  configuration once more. During a refresh a second answer about a key takes the operation
  at the head away unsent, and the node is complete without it (`CompleteMeansConfigured` with
  a key in `DupKinds`). Therefore `provisioning` has no such call, `network_changes` has.
* *Addresses.* `mesh_client_provision` does not look whether the link of an earlier
  provisioning is still there. With two known proxies, a disconnection and `Overlaps` TRUE the
  old link opens a node at the address of another: `connect_component` changed the address
  meanwhile (`DatabaseOK`). Therefore `provisioning` and `rejected_bind` have `Overlaps`
  {FALSE}; `network_changes`, with one proxy, has {TRUE}.
* *Queue and proxy.* `QueueIsOurs` fails with a second disconnection, or with a second
  answer to the request for the composition data after a disconnection; `ProxyIsPeer` with a
  second disconnection. Both are checked with one.
* *Sequence file.* `mesh_del_seq` truncates the file before it writes it; a process that ends
  in between starts with IV index and own sequence number 0 (`Inside`). When a device is
  provisioned again whose record is not the last of the array, `p_node` is read after
  `wiced_bt_mesh_db_node_remove` moved the array, and what was heard of the next node, at its
  primary address, is forgotten. This is not excluded: the runs and the theorem have it, and
  `OnlyFollowerForgotten` says that it is the only case.
* *Groups.* A node that rejects a subscription is recorded as subscribed; a late second
  answer to an ADD ends a DELETE of the same subscription unsent; a late publication status
  of one command ends the next (it is matched by element only). `DatabaseFollowsNodes`
  exempts precisely the subscription or publication a fault touched, nothing else. It fails
  when a publication status comes twice, and with a second answer *and* a loss (`MaxFaults`
  2): the second answer to an ADD ends the DELETE of the same subscription, the loss of that
  DELETE cleans the queue while the next PUB of the node is on its way, and the late answer
  ends the PUB of another model. `CommandDone` fails when a publication status comes twice.
  `CommandDone` is about commands that met no fault and began with nothing on its way.
  Deleting a group leaves vendor subscriptions and the publications of sensors, so `JobDone`
  claims only servers and clients there. Parents can form a cycle by reuse of an address
  (A in B, B deleted, C created in A gets the address of B) and `get_group_list` then does
  not return.
* *Timers.* `absTimeHi` is behind between a rollover and the thread's next look. A timer
  started in that gap is due at once; `NeverEarly`, `NoOversleep` and `Expires` are
  about timers started in step (`inStep`) and a thread whose upper word is right. The two
  reads of the head may also meet a list that just became empty (`Compare`, `Subtract`:
  `crashed`).

### Bounds, and why they are enough

* *Key refresh.* The local node and two or three more. Four are needed for a second refresh
  after the first (`Restart`): one node removed first, one that gets the key and is then
  removed, one that stays. One application key, not on every node, so that its phases differ
  from those of the network key. `MaxConnects` 2 or 3: an attempt that is given up and a
  second one over what it left. Faults 1 each, alone and, in `sessions`, in any order;
  `MaxDups` 2 in `duplicates`.
* *Provisioning.* One node of the network and one device: two records in the database, a
  queue with two destinations, a proxy that is or is not the device. `MaxProvisions` 2: a
  provisioning over what the last one left. `MAX_CONNECT_RETRIES` 2 instead of 4 reaches each
  branch of the retry chains, which distinguish the first, the last but one and the last
  attempt.
* *Groups.* Two groups at two addresses, so that one can contain the other and addresses are
  used again; models of three kinds; three commands, so that one meets what the last but one
  left; one fault.
* *Sequence file.* Six addresses, one device with two elements, so that ranges meet without
  being equal; three allocations: first, again, and a second device on freed addresses; two
  numbers per device; one IV update and one restart. The theorems drop all of them.
* *Timers.* `Word` 5 and time to 6: one rollover with time before and after; timeouts below
  and above the sleep of an empty list; each timer started again while listed.
* Everything else (generations, queue length, retries) is unbounded in the models and finite
  because the numbers above are. `CHECK_DEADLOCK FALSE` everywhere: when the bounds are used
  up and nothing is pending the program waits for its user. There is no symmetry: the
  database visits nodes, keys and models in an order.

### Fairness

* `KeyRefresh`: the operation timer fires; an answer that arrived is delivered; the core
  resolves each operation by an answer or a failure; a connection attempt succeeds or fails,
  and a node that was reset drops the connection. Nothing is assumed of the user, of losses,
  restarts or crashes. Deliveries and failures are named by their effect on `replies` and
  `inflight` alone, which the handlers always allow; the assumption is the weaker for it.
* `Provisioning` and `Groups`: `WF_vars(Progress)`. The system does not stop with something
  to do: a timer, a delivery, the end of a transmission or of a connection attempt. Which of
  them comes is open. It is one weak fairness condition over all of them; the bounded user
  cannot keep it from being taken.
* `TimerList`: time passes, the thread is scheduled, the message loop runs.
* `Membership`: a provisioning that was asked for ends.

The timers and the event loop are in the applications; the rest is the contract of the
core library, whose retransmissions and scans are finite.

### Refinement

`StepsAsPromised` is `Promised!Init` and the steps of `Promised!Next`, with `stage` read from
the record of each device in the database ("out", "fresh", "member", "revoked") and `heard`
from `cl.told`. So TLC checks of every step of the client that a device becomes a member
exactly in the step that reports its success, that the failure of a half configured node makes
it revoked in the same step, and that only the end of a refresh removes nodes. `EndIndicated`
is the rest of `Promised!Spec`, the fairness of `End`: `End` can be taken exactly while a
provisioning is pending, and no other step of `Membership` ends that. The two are checked
apart, so that each has a mutant of its own: a client that never closes the procedure after an
error takes no wrong step.

## 4. Proofs

`KeyRefreshProofs`, for every set of nodes and keys and every bound: `TypeCorrect`,
`StateAndPhaseAgree`, `NothingForBlocked`, all from `Invariance`: `Spec => []IInv`.
Assumptions: `ClientAssumption` (the local node is a provisioner, every node has the network
key, the orders list existing nodes and keys) and `MeshAssumption` (the local node is not
removed and always in reach of itself).

`StateMatchesPhase` is not inductive. `mesh_key_refresh_phase3_completed` may start over;
`phase1_continue` may return 0 (the wrapped count), the key goes to phase 2 at once, and if
then nothing were to be scheduled for phase 2 the key would go to phase 3 with the state
still `KEY_REFRESH_2`. It never comes to this because the local node was just set back to
NORMAL, is never blocked and so always has a phase 2 message to wait for. Hence `Sound`
carries: the local node is present and never blocked. `NoKeyToBlocked` needs the same
record: cleaning and scheduling are preserved together, through `Clean` (`mesh_reset_node`
blocks and cleans in one step), and a crash after blocking is harmless because the queue
does not survive it. That a refresh is under way only with a generation behind it
(`netPhase # NORMAL => gen > 0`) is needed for the old key `network_open` gives the local
device. One lemma per C function (`Sound...`), one per action (`...Step`); the filter of the
queue, `Select`, is defined by counting rather than recursion so that it can be proved about.

`KeyAgreementProofs`, for every network without `CLIENTCONTROL` whose nodes have fewer than 256
keys in all, where no answer is delivered twice (`Plain`). What `SwitchSafe` says of the nodes follows from what the client has
recorded of them, so the invariant `Agreement` has both and what is between them:

* `Good`: what the database holds for a node that stays is true of the node (`RecordFits`), an
  update that waits is for the newest keys and stands before any phase set (`UpdatesFit`),
  and what waits goes to nodes that stay or, a Node Reset, to one that does not (`Aimed`);
* every answer on its way is true and is for the head of the queue (`Fits`), at most one can
  end an operation (`OneCounted`), and only the head is with the core (`OnlyHeadSent`).

Every function of the client has a lemma `Good...`, every answer one `...Handled`, every
action one `...Agrees`. The hypothesis is `[]PhaseSetsCurrent`: the handlers record an answer
as the phase of their state, so a phase set left from an earlier phase would be believed to be
one of the present. The theorems assume it, discharge it or do without:

* `AgreementHolds`, `SwitchIsSafe`, `NeverTwoKeysBehind`, `OldKeysRetire`: from `Plain` and
  `[]PhaseSetsCurrent`, which `removal` and `sessions` check (with drops, disconnections,
  restarts and crashes). Losses, failures, restarts and crashes are unlimited.
* `TidyUser`, `TidyUserIsSafe`: `PhaseSetsCurrent` holds in both builds, with second answers
  and drops, if the user connects or removes a node only while no phase set is pending
  (`Tidy`, a condition on the steps). A user who goes on after a break in the second phase
  without opening the network again is not tidy; `sessions` covers that case.
* `NeverStuck`, `SteadyIsSafe`, `RemovedAreLockedOut`: `Steady`, the situation of `removal` for
  every network: the connection does not break while it is used, proxies and provisioners are
  not removed, some other node stays. No condition on the queue or the user. `Continuous` adds
  to `Agreement` that the queue fits the state (`QueueFits`: in IDLE nothing is pending, a
  state of the refresh has something pending of its own kinds), that every node that takes
  part is known to have the key after the first phase (`HaveTaken`), and that the one answer
  on its way is the head's (`OneAnswer`). `NeverStuck` is `WaitsForScheduled`; without
  `Steady` it is false (`stuck_in_phase_2`). `RemovedAreLockedOut` is `RevokedHaveNoKey`, with
  `Reliable` (no answer is lost, no crash inside `mesh_reset_node`): every node that has the
  newest key is known to have it or its answer is on its way (`AllAccounted`), so
  `Phase3Completed` finds every suspect. A lost answer leaves a node with a key the client
  does not know of, which is why `Reliable` is needed.

`ReplayListProofs`, for every set of devices, numbers of elements and bounds
(`ReplayListAssumption`), each from its inductive invariant and one lemma per action:

* `OwnSequenceIsFresh` (`Inside = {FALSE}`), an action property, from `OwnInv`: the file has
  the IV index and own number of the core, and the last used pair is not after it. An IV
  update writes the index before the number is used again; an own record that is still of
  the old index is larger, never smaller, than what was used.
* `FileFollows` from types alone: every change of the core's list is one of the file.
* `NodesAreHeard` from `HearInv`: what the list holds for an address is at most what its
  present owner sent. It needs `PlacesInv` (no two nodes, the pending one included, overlap),
  and that an address is given only after *all* addresses of the range were forgotten.
* `OnlyFollowerIsForgotten`, an action property with no hypothesis, from `KeptInv`: the
  addresses of different nodes and of the pending device do not overlap, and of the pending
  address nothing was heard. So what `Forget` drops is of no node that stays, except in
  `ProvisionEnd`: the record read there is the removed one or the one that moved into its
  place, and of the latter only the primary address is dropped.

`TimerListProofs`, for every set of timers, every range of the tick count and all timeouts
below it: `ListSorted`, `NoCallbackEarly`, `NoWakeUpLost`, `CallbackOwed` and the types, all
from `Inductive`: `Spec => []IInv`. `ListOK` carries itself; the others need what the two
threads know of each other:

* `ClockInv`: the upper word of the thread never runs ahead of the clock, and while the thread
  holds a tick count (`Holding`) the clock has not rolled over since, or the upper word lags
  by exactly that rollover. So a target that was computed in step is the time that was meant
  (`DueInv`).
* `LookInv`: unless the event is set, the head the thread saw outside the lock is still the
  head, and once compared does not lie in its past. That is why the unlocked read loses
  nothing: whoever changes the head sets the event the thread is about to wait for.
* `OwedInv`: what is listed is owed a callback, and what expired was listed until then.

`ProvisioningProofs` first says what each handler does to the client (`IsClient`, `DbOK`,
`Calm`: the database and the address of the device are left alone), then proves
`OneNodeAnAddress`: no two nodes have an address or a device in common (`DatabaseOK`). It is
not inductive: a node is created at `PROVISION_END` at an address chosen long before. `Free`
adds that this address is still free, as long as the provisioning link is there. The
hypothesis `TRUE \notin Overlaps` is that the application does not ask for a provisioning
while the link of another is there; without it TLC has the counterexample of section 3.

`StepsProofs`: `ClientKeepsPromise`, `StepsAsPromised` for every set of devices, every database
at the start, every number of losses, resets and attempts: each step of `Provisioning` is a
step of `Membership` or leaves `stage` and `heard` alone. The invariant `StepsInv` has

* `Phase`: the client opens a link, or joins a node, or is doing something else (`Opens`,
  `Joins`, `Busy`), with what each requires of the database: the device that is joining has
  the one record that is neither complete nor blocked, and its success was not reported;
* `Linked`: a provisioning link is there only in the states that wait for it, the chosen
  address is free while it is started, and the proxy connection is down meanwhile;
* `Sent` and `Got`: the request for the composition data and its answer are on their way only
  in the state that waits for them, once, and no binding was rejected.

Its hypotheses are the three cases in which the code breaks the promise (section 3): no
binding is rejected, the composition data is answered once, and (`Patient`) the application
disconnects only between two procedures. TLC finds a violation without any one of them. What
the configuration rejects otherwise, every loss, every other second answer and the factory
resets are covered. `NoneHalfConfigured` combines it with `Promised!MembershipHolds`: no
device is half configured once the application was told how its provisioning ended.

The same module proves `CompleteIsConfigured` and `SuccessIsConfigured`. `StepsInv` speaks of
the client only; what the device accepted is tied to it by `ConfInv`:

* `Proper`: what is wanted. It is not inductive: the last answer, not the device, makes a node
  complete, so something must say that the rest was accepted before.
* `OnTrack` is that: while a configuration goes on, each message it requires was accepted by
  the device or is among the operations that are left (`QueueLeft`), at most the operation at
  the head is being transmitted, and an answer that ends it was given by a device that did
  accept. An answer about a key is the only one of its kind and is to the head: `KeyStatus`
  drops the head during a refresh without comparing the two.
* `Drained`: no answer is on its way without a connection, so none of an earlier attempt meets
  a later one, and none to a configuration while the composition data is read.
* `Owned` and `Plinked`: every record belongs to a device, and the device of the link is
  the one the client has in mind.

A device accepts more and never less while it keeps its address (`Lasts`). Besides the three
hypotheses above these need a fourth: the keys are answered once. With a second answer about
either key TLC finds a complete node that lacks a binding or a key (section 3).

`GroupsProofs`, for every network of models, all groups and commands, with `ForEach` and
`ForNode` characterised once (`ForEachIs`: what is in the result; existence of a recursive
function is the lemma `Recursion`):

* `TypesCorrect`, from `TypeInv`. It needs `Good`: the client is IDLE exactly when the queue
  is empty, no two groups have one address, only models of the tables are subscribed.
* `CommandsDone` (`"PUB" \notin DupKinds`): `CommandDone`, from `JobInv`. `CommandDone` says
  nothing while the command runs; `Plan` says that the database as the queue will change it
  is what the command was asked for. Each answer moves one message from the queue to the
  database. `Led` (at most one of the messages in a set is on its way, and it is the head's)
  for the publications is what makes an answer of the element the answer to the head.
  Answers to subscriptions may come twice, of this command or an earlier one: they end the
  head only if it is about the same subscription.
* `DatabaseFollows` (`"PUB" \notin DupKinds`, and `DupKinds = {}` or `MaxFaults` at most 1):
  `DatabaseFollowsNodes`, from `DatabaseInv`: `Led` for all messages but those a second answer
  may have overtaken (`Owned`), and `Follows`: a difference is in doubt or being answered, and
  an answer that is not in doubt says what the node does. Losses and rejections are unlimited
  when every message is answered once. The hypotheses exclude what section 3 shows.

`Membership`: `MembershipSafe`, that the promise is worth having: a node is half configured
only while the application waits, and only a device whose provisioning failed, or one that
is provisioned again after that, is on its way out. `MembershipHolds` is the same of the next-state
relation alone, for the modules that implement it.

Only model-checked:

* of `KeyRefresh`: nothing for the connection of `Steady`; with breaks, `PhaseSetsCurrent`
  for a user who is not `Tidy`, on which the safety of the keys then rests;
* of `Provisioning`: `TypeOK` (its address range follows from the bounds on the attempts, by
  a count no other proof needs), and `QueueIsOurs` and `ProxyIsPeer`, which are not true for
  all bounds (section 3);
* every liveness property (`Expires`, `BusyEnds`, `CommandsEnd`, `RefreshAttemptEnds`,
  `RefreshCompletes`, `ConnectEnds`, `EndIndicated`), which is out
  of the prover's reach.

## 5. Not modelled

Low-power nodes (every event has `friend_addr` 0), several network keys (the library makes
exactly one), remote provisioners, certificates, out of band data, large composition data,
the scan, device settings, scenes and sensors, allocation failures, and callbacks that only
report. The components marked `not_modelled` in `PROJECT.json` are pure I/O, layouts, user
interface or thin wrappers of the core library.

Hazards seen in code that no module covers, besides those in `PROJECT.json`:
`network_open` sets the phase of the local device before it updates its application keys
(7466); a second composition data status in IDLE starts a configuration nobody asked for
(5302); composition data that cannot be stored leaves a freed pointer (5338);
`mesh_client_network_close` leaves the state as it is without a connection (1058); reports of
the scan may be freed while their timer message is queued (3117); `mesh_del_seq` of the
address 0, when none could be allocated, deletes the own record (4726); the sequence file
goes with the last network (805); a provisioner's range grows past the unicast addresses,
and copies of one database allocate the same range (`wiced_bt_mesh_db.c` 894); a search of
application keys returns the last one when none matches (2248); a rollover is missed by a
thread that does not look at the tick count once in 49 days (`wiced_main.c` 250); the iOS
timers return an error from inside their lock (`mesh_main.c` 273).

## 6. Plan

Done: key refresh (proved: structure, the keys of the nodes), timers, groups and the sequence
file (proved: all safety properties), provisioning with its abstract specification (proved:
the steps of the refinement, the shape of the database, and that a configured device accepted
its configuration).

1. Proofs: `PhaseSetsCurrent` for every user who takes up a refresh in the phase it stopped in;
   `TypeOK` of `Provisioning`, with a count of the addresses given so far.
2. `KeyLifecycle`: what the refresh promises for one network, implemented by `KeyRefresh`.
3. The scan for unprovisioned devices with its timers and remote servers; low-power nodes in
   `KeyRefresh`; the ranges of several provisioners.
