-------------------------- MODULE KeyRefreshClient --------------------------
(***************************************************************************)
(* The mesh client's node-removal and key-refresh state machine            *)
(* (src/mesh_client_lib/wiced_mesh_client.c), as functions on the client's *)
(* state.  A C function f(p_cb, ...) that changes the provisioning control *)
(* block or the database is an operator F(c, ...) that returns the client  *)
(* record after the call; a call made at the end of a function is an       *)
(* application around the rest of it.                                      *)
(*                                                                         *)
(* Covered: the pending operation queue, mesh_reset_node, the three phases *)
(* of the refresh, the status, transmission-failure and connection         *)
(* handlers of the states IDLE, NETWORK_CONNECT and KEY_REFRESH_1..3.      *)
(*                                                                         *)
(* Not covered: low-power nodes (every event has friend_addr = 0), several *)
(* network keys (network_create and network_open make exactly one),        *)
(* provisioning in the same session (the other states of the control       *)
(* block), allocation failures, and the callbacks that only report.        *)
(***************************************************************************)
EXTENDS Naturals, Sequences, FiniteSets

CONSTANTS
    Nodes,         \* every node of the database when the network is opened
    Local,         \* the node that is this client's own device
    Provisioners,  \* the nodes is_provisioner() holds of, Local among them
    NetKey,        \* the network key
    AppKeys,       \* the application keys, all bound to NetKey
    NodeOrder,     \* the nodes in the order of the database's node array
    KeyOrder,      \* <<key, node>> in the order phase1_continue visits them
    Broadcast,     \* the destination of a proxy filter operation
    ClientControl  \* TRUE in the CLIENTCONTROL build of the library

Keys == {NetKey} \cup AppKeys

\* The key entries of the database's nodes; every node has the network key.
Slots == {KeyOrder[i] : i \in DOMAIN KeyOrder}

ASSUME ClientAssumption ==
    /\ Local \in Provisioners
    /\ Provisioners \subseteq Nodes
    /\ IsFiniteSet(Nodes)
    /\ NetKey \notin AppKeys
    /\ Broadcast \notin Nodes
    /\ NodeOrder \in Seq(Nodes)
    /\ Nodes = {NodeOrder[i] : i \in DOMAIN NodeOrder}
    /\ KeyOrder \in Seq(Keys \X Nodes)
    /\ {NetKey} \X Nodes \subseteq Slots
    /\ ClientControl \in BOOLEAN

NORMAL == 0
FIRST  == 1
SECOND == 2
THIRD  == 3
Phases == {NORMAL, FIRST, SECOND, THIRD}

\* retries and the count of scheduled operations are uint8_t.
UINT8 == 256
MAX_CONNECT_RETRIES == 4

ClientStates == {"IDLE", "NETWORK_CONNECT", "KR1", "KR2", "KR3"}

(***************************************************************************)
(* A pending operation.  "KEY_UPDATE" stands for NET_KEY_UPDATE and        *)
(* APP_KEY_UPDATE, which the key tells apart.  val is the key generation   *)
(* an update carries, or the transition of a phase set.                    *)
(***************************************************************************)
OpKinds == {"KEY_UPDATE", "KR_PHASE_SET", "NODE_RESET", "FILTER_ADD"}

Op == {o \in [kind : OpKinds, dst : Nodes \cup {Broadcast}, key : Keys, val : Nat] :
          o.kind = "FILTER_ADD" <=> o.dst = Broadcast}

KeyUpdate(slot, g) == [kind |-> "KEY_UPDATE", dst |-> slot[2], key |-> slot[1], val |-> g]
PhaseSet(n, t)     == [kind |-> "KR_PHASE_SET", dst |-> n, key |-> NetKey, val |-> t]
NodeReset(n)       == [kind |-> "NODE_RESET", dst |-> n, key |-> NetKey, val |-> 0]
FilterAdd          == [kind |-> "FILTER_ADD", dst |-> Broadcast, key |-> NetKey, val |-> 0]

(***************************************************************************)
(* A status message from src: the answer to an operation of the same kind. *)
(* ok is (status == 0); phase is what a key refresh phase status reports.  *)
(***************************************************************************)
Status == [kind : OpKinds, src : Nodes, key : Keys, ok : BOOLEAN, phase : Phases]

(***************************************************************************)
(* The client: the control block's state, pending queue (p_first), armed   *)
(* operation timer and retry count; the database's network key phase, how  *)
(* many times its keys were renewed, the phase stored for each key of each *)
(* node, the nodes and the blocked ones.  nullDeref is set when a handler  *)
(* reads p_first->operation of an empty queue.                             *)
(***************************************************************************)
Client == [state : ClientStates, queue : Seq(Op), timer : BOOLEAN,
           retries : 0 .. UINT8 - 1, netPhase : Phases, gen : Nat,
           phase : [Slots -> Phases], nodes : SUBSET Nodes,
           blocked : SUBSET Nodes, nullDeref : BOOLEAN]

ClientInit ==
    [state |-> "IDLE", queue |-> <<>>, timer |-> FALSE, retries |-> 0,
     netPhase |-> NORMAL, gen |-> 0, phase |-> [s \in Slots |-> NORMAL],
     nodes |-> Nodes, blocked |-> {}, nullDeref |-> FALSE]

\* Mutant of Participants: a phase waits for the blocked nodes too.
ParticipantsAndBlocked(c) == c.nodes \ Provisioners

\* The nodes whose confirmation a phase waits for: neither blocked nor provisioners.
Participants(c) == (c.nodes \ c.blocked) \ Provisioners

-----------------------------------------------------------------------------
(* The pending operation queue. *)

\* The elements of s at the indices T, in their order: element j is at the
\* index of T with exactly j indices of T up to it.
Select(s, T) ==
    [j \in 1 .. Cardinality(T) |->
        s[CHOOSE i \in T : Cardinality({k \in T : k <= i}) = j]]

\* configure_execute_pending_operation arms a one millisecond timer.
Execute(c) == [c EXCEPT !.timer = @ \/ c.queue # <<>>]

Enqueue(c, ops) == [c EXCEPT !.queue = @ \o ops]

\* clean_pending_op_queue(n)
Clean(c, n) ==
    [c EXCEPT !.queue = Select(@, {i \in DOMAIN c.queue : c.queue[i].dst # n})]

\* start_next_op: the head is dropped, whatever it is.
StartNextOp(c) ==
    LET rest == IF c.queue = <<>> THEN <<>> ELSE Tail(c.queue)
    IN  Execute([c EXCEPT
            !.queue = rest,
            !.state = IF rest = <<>> /\ @ \notin {"KR1", "KR2"} THEN "IDLE" ELSE @])

HeadIs(c, kind) == c.queue # <<>> /\ Head(c.queue).kind = kind

\* The head is the operation st answers.
HeadAnsweredBy(c, st) ==
    HeadIs(c, st.kind) /\ Head(c.queue).dst = st.src /\ Head(c.queue).key = st.key

AddFilter(c) == Execute(Enqueue(c, <<FilterAdd>>))

-----------------------------------------------------------------------------
(* The procedure: scheduling the messages of a phase, and its completion. *)

\* mesh_key_refresh_update_keys
UpdateKeys(c) == [c EXCEPT !.netPhase = FIRST, !.gen = @ + 1]

\* Mutant of Phase1Ops: the blocked nodes get their updates like the others.
Phase1OpsToAll(c) ==
    LET keys == Select(KeyOrder, {i \in DOMAIN KeyOrder :
                    KeyOrder[i][2] \in c.nodes /\ c.phase[KeyOrder[i]] = NORMAL})
    IN  [j \in DOMAIN keys |-> KeyUpdate(keys[j], c.gen)]

\* The updates mesh_client_key_refresh_phase1_continue schedules.
Phase1Ops(c) ==
    LET due  == {i \in DOMAIN KeyOrder :
                    /\ KeyOrder[i][2] \in c.nodes \ c.blocked
                    /\ c.phase[KeyOrder[i]] = NORMAL}
        keys == Select(KeyOrder, due)
    IN  [j \in DOMAIN keys |-> KeyUpdate(keys[j], c.gen)]

\* The messages mesh_client_transition_next_key_refresh_phase schedules.
TransitionOps(c, t) ==
    LET due  == {i \in DOMAIN NodeOrder :
                    /\ NodeOrder[i] \in c.nodes \ c.blocked
                    /\ c.phase[<<NetKey, NodeOrder[i]>>] # t
                    /\ ~ (t = THIRD /\ c.phase[<<NetKey, NodeOrder[i]>>] = NORMAL)}
        to   == Select(NodeOrder, due)
    IN  [j \in DOMAIN to |-> PhaseSet(to[j], t)]

\* Mutants of Transition: the phase one too high; the handler's state kept.
TransitionTooFar(c, t) ==
    [c EXCEPT !.netPhase = t + 1, !.state = IF t = SECOND THEN "KR2" ELSE "KR3",
              !.queue = @ \o TransitionOps(c, t)]

TransitionSameState(c, t) ==
    [c EXCEPT !.netPhase = t, !.queue = @ \o TransitionOps(c, t)]

Transition(c, t) ==
    [c EXCEPT !.netPhase = t,
              !.state    = IF t = SECOND THEN "KR2" ELSE "KR3",
              !.queue    = @ \o TransitionOps(c, t)]

\* Mutant of ContinueFirst: a refresh taken up again renews the keys again.
ContinueFirstRenews(c) ==
    IF c.netPhase # FIRST THEN c
    ELSE LET c1 == UpdateKeys(c)
         IN  [c1 EXCEPT !.state = "KR1", !.queue = @ \o Phase1Ops(c1)]

\* The FIRST branch of mesh_key_refresh_continue.  phase1_continue returns the
\* uint8_t it counted in, so the branch may see 0 with operations scheduled.
ContinueFirst(c) ==
    IF c.netPhase # FIRST THEN c
    ELSE LET ops == Phase1Ops(c)
         IN  [c EXCEPT !.state    = "KR1",
                       !.queue    = @ \o ops,
                       !.netPhase = IF Len(ops) % UINT8 = 0 THEN SECOND ELSE @]

\* Mutant of ContinueSecond: it does not look whether a phase set was scheduled.
ContinueSecondUnchecked(c) ==
    IF c.netPhase # SECOND THEN c
    ELSE [Transition(c, SECOND) EXCEPT !.netPhase = THIRD]

\* The SECOND branch.
ContinueSecond(c) ==
    IF c.netPhase # SECOND THEN c
    ELSE [Transition(c, SECOND) EXCEPT
             !.netPhase = IF TransitionOps(c, SECOND) = <<>> THEN THIRD ELSE @]

\* mesh_key_refresh_phase3_completed renews the keys at once when a blocked
\* node had got some of the new ones.  Its call to mesh_key_refresh_continue
\* ends in the SECOND branch at the latest: every node is then in NORMAL, so
\* the local one at least has a phase set to wait for.
Restart(c) ==
    ContinueSecond(ContinueFirst(UpdateKeys([c EXCEPT !.state = "KR1"])))

\* Mutant of Suspects: no blocked node is taken to hold the new key.
NoSuspects(c) == {}

\* The blocked nodes whose network key is not in NORMAL: they may hold the new key.
Suspects(c) == {n \in c.nodes \cap c.blocked : c.phase[<<NetKey, n>>] # NORMAL}

\* The refresh is over: all rows back to NORMAL, the blocked nodes removed.
Finish(c) ==
    LET gone == (c.nodes \cap c.blocked) \ Suspects(c)
    IN  [c EXCEPT
            !.netPhase = NORMAL,
            !.phase    = [s \in Slots |->
                            IF s[2] \in c.blocked \ gone /\ s[1] # NetKey
                            THEN c.phase[s] ELSE NORMAL],
            !.nodes    = @ \ gone,
            !.blocked  = @ \ gone]

AllThrough(c, keys, phases) ==
    \A s \in Slots : s[1] \in keys /\ s[2] \in Participants(c) => c.phase[s] \in phases

\* Mutant of Phase3Completed: the nodes are not asked whether they are through.
Phase3CompletedUnchecked(c) ==
    LET idle == [c EXCEPT !.state = "IDLE"]
    IN  IF c.netPhase # THIRD THEN idle
        ELSE Execute(IF Suspects(c) = {} THEN Finish(idle) ELSE Restart(Finish(idle)))

Phase3Completed(c) ==
    LET idle == [c EXCEPT !.state = "IDLE"]
    IN  IF c.netPhase # THIRD \/ ~ AllThrough(c, {NetKey}, {THIRD, NORMAL})
        THEN idle
        ELSE Execute(IF Suspects(c) = {} THEN Finish(idle) ELSE Restart(Finish(idle)))

Phase2Completed(c) ==
    IF AllThrough(c, {NetKey}, {SECOND})
    THEN Execute(Transition(c, THIRD))
    ELSE [c EXCEPT !.state = "IDLE"]

\* Mutant of Phase1Completed: only the network key is looked at.
Phase1CompletedNetOnly(c) ==
    IF c.netPhase # FIRST THEN c
    ELSE IF AllThrough(c, {NetKey}, {FIRST})
         THEN Execute(Transition(c, SECOND))
         ELSE [c EXCEPT !.state = "IDLE"]

Phase1Completed(c) ==
    IF c.netPhase # FIRST THEN c
    ELSE IF AllThrough(c, Keys, {FIRST})
         THEN Execute(Transition(c, SECOND))
         ELSE [c EXCEPT !.state = "IDLE"]

\* mesh_key_refresh_continue, its THIRD branch after the other two.
Continue(c) ==
    LET c2 == ContinueSecond(ContinueFirst(c))
    IN  IF c2.netPhase # THIRD THEN c2
        ELSE IF TransitionOps(c2, THIRD) = <<>>
             THEN Phase3Completed(Transition(c2, THIRD))
             ELSE Transition(c2, THIRD)

\* Mutant of ResetNode: the keys are renewed during a refresh too.
ResetNodeAlwaysRenews(c, n) ==
    LET c1 == Enqueue([Clean(c, n) EXCEPT !.retries = 0, !.blocked = @ \cup {n}],
                      <<NodeReset(n)>>)
    IN  Execute(Continue(UpdateKeys([c1 EXCEPT !.state = "KR1"])))

\* mesh_reset_node(n)
ResetNode(c, n) ==
    LET c1 == Enqueue([Clean(c, n) EXCEPT !.retries = 0, !.blocked = @ \cup {n}],
                      <<NodeReset(n)>>)
        c2 == IF c1.netPhase = NORMAL
              THEN UpdateKeys([c1 EXCEPT !.state = "KR1"]) ELSE c1
    IN  Execute(Continue(c2))

-----------------------------------------------------------------------------
(* The events.  Each handler of the KEY_REFRESH_n states ends by calling    *)
(* phase_n_completed if it emptied the queue.                               *)

KrStates == {"KR1", "KR2", "KR3"}

PhaseCompleted(c, kr) ==
    CASE kr = "KR1" -> Phase1Completed(c)
      [] kr = "KR2" -> Phase2Completed(c)
      [] kr = "KR3" -> Phase3Completed(c)

IfDone(c, kr) == IF c.queue = <<>> THEN PhaseCompleted(c, kr) ELSE c

\* wiced_bt_mesh_db_node_net_key_update and _app_key_update
SetPhase(c, k, n, p) ==
    [c EXCEPT !.phase = [s \in Slots |-> IF s = <<k, n>> /\ n \in c.nodes THEN p ELSE @[s]]]

\* wiced_bt_mesh_db_node_net_key_add and _app_key_add, for a key the node has
AddKey(c, k, n) ==
    [c EXCEPT !.phase = [s \in Slots |-> IF s = <<k, n>> /\ n \in c.nodes /\ @[s] = NORMAL
                                         THEN FIRST ELSE @[s]]]

\* Mutant of KrStatus: the last answer does not complete the phase.
KrStatusNoCompletion(c, st) ==
    LET c1 == IF st.ok
              THEN SetPhase(c, st.key, st.src, CASE c.state = "KR1" -> FIRST
                      [] c.state = "KR2" -> SECOND [] c.state = "KR3" -> THIRD)
              ELSE c
    IN  IF HeadAnsweredBy(c1, st) THEN StartNextOp(c1) ELSE c1

\* mesh_key_refresh_net_key_status, mesh_key_refresh_app_key_status,
\* mesh_key_refresh_phase2_status and mesh_key_refresh_phase3_status: a phase
\* status records the phase the client asked for, not the one it reports.
KrStatus(c, st) ==
    LET c1 == IF st.ok
              THEN SetPhase(c, st.key, st.src,
                            CASE c.state = "KR1" -> FIRST
                              [] c.state = "KR2" -> SECOND
                              [] c.state = "KR3" -> THIRD)
              ELSE c
    IN  IF HeadAnsweredBy(c1, st) THEN IfDone(StartNextOp(c1), c.state) ELSE c1

\* The NODE_RESET_STATUS case; only KR1 looks whether the queue is empty.
KrResetStatus(c, st) ==
    IF c.queue = <<>>
    THEN [c EXCEPT !.nullDeref = @ \/ c.state # "KR1"]
    ELSE IF HeadAnsweredBy(c, st) THEN IfDone(StartNextOp(c), c.state) ELSE c

\* The PROXY_FILTER_STATUS case; only KR1 completes the phase.
KrFilterStatus(c) ==
    IF c.queue = <<>> THEN [c EXCEPT !.nullDeref = TRUE]
    ELSE LET c1 == Execute(IF HeadIs(c, "FILTER_ADD") THEN StartNextOp(c) ELSE c)
         IN  IF c.state = "KR1" THEN IfDone(c1, "KR1") ELSE c1

\* Mutant of KrTxFailed: a failure does not complete the phase.
KrTxFailedNoCompletion(c, dst) ==
    IF ClientControl /\ c.queue = <<>> THEN c
    ELSE IF c.state = "KR1" THEN Execute(Clean(c, dst)) ELSE StartNextOp(c)

\* The TX_COMPLETE case: KR1 gives up all operations for the destination, KR2
\* and KR3 drop the head.  The guard on p_first returns only in CLIENTCONTROL;
\* without it that condition covers just the block for low-power nodes.
KrTxFailed(c, dst) ==
    IF ClientControl /\ c.queue = <<>> THEN c
    ELSE IF c.state = "KR1"
         THEN LET c1 == Clean(c, dst)
              IN  IF c1.queue # <<>> THEN Execute(c1)
                  ELSE Phase1Completed([c1 EXCEPT !.state = "IDLE"])
         ELSE IfDone(StartNextOp(c), c.state)

\* The tail mesh_configure_net_key_status, _app_key_status and _phase_status
\* share for a status they did not wait for: while a refresh is under way the
\* head is dropped and the refresh taken up again.
Unexpected(c) ==
    LET c1 == StartNextOp(c)
    IN  Execute(IF c1.queue = <<>> THEN Continue(c1) ELSE c1)

\* mesh_configure_net_key_status and mesh_configure_app_key_status
IdleKeyStatus(c, st) ==
    LET c1 == IF st.ok THEN AddKey(c, st.key, st.src) ELSE c
    IN  CASE HeadAnsweredBy(c1, st) -> StartNextOp(c1)
          [] ~ HeadAnsweredBy(c1, st) /\ c1.netPhase # NORMAL -> Unexpected(c1)
          [] OTHER -> c1

\* mesh_configure_phase_status does not check the operation before it reads
\* the union of its head: for a NODE_RESET that part of the union was never
\* written (unwritten says whether it happens to hold the key's index), in a key
\* update it overlaps OPERATION_UPDATE and never matches.
IdlePhaseStatus(c, st, unwritten) ==
    LET c1      == IF st.ok THEN SetPhase(c, NetKey, st.src, st.phase) ELSE c
        matches == \/ HeadAnsweredBy(c1, st)
                   \/ HeadIs(c1, "NODE_RESET") /\ Head(c1.queue).dst = st.src /\ unwritten
        c2      == Unexpected(c1)
    IN  CASE matches -> StartNextOp(c1)
          [] ~ matches /\ c1.netPhase # NORMAL ->
                IF c2.queue = <<>> /\ st.phase \in {THIRD, NORMAL}
                THEN Phase3Completed(c2) ELSE c2
          [] OTHER -> c1

\* Mutant of ConnectFilterStatus: the state is not left.
ConnectFilterStatusStays(c, proxy) ==
    LET c1 == [c EXCEPT !.queue = IF HeadIs(c, "FILTER_ADD") THEN Tail(@) ELSE @]
        c2 == IF proxy \in c1.nodes \cap c1.blocked
              THEN Enqueue(c1, <<NodeReset(proxy)>>) ELSE c1
    IN  Execute(c2)

\* The PROXY_FILTER_STATUS case of mesh_configure_state_network_connect
ConnectFilterStatus(c, proxy) ==
    LET c1 == [c EXCEPT !.state = "IDLE",
                        !.queue = IF HeadIs(c, "FILTER_ADD") THEN Tail(@) ELSE @]
        c2 == IF proxy \in c1.nodes \cap c1.blocked
              THEN Enqueue(c1, <<NodeReset(proxy)>>) ELSE c1
    IN  Execute(IF c2.netPhase # NORMAL THEN Continue(c2) ELSE c2)

\* The status events of mesh_provision_process_event
OnStatus(c, st, unwritten) ==
    CASE c.state \in KrStates /\ st.kind = "FILTER_ADD"   -> KrFilterStatus(c)
      [] c.state \in KrStates /\ st.kind = "NODE_RESET"   -> KrResetStatus(c, st)
      [] c.state = "KR1" /\ st.kind = "KEY_UPDATE"        -> KrStatus(c, st)
      [] c.state \in {"KR2", "KR3"} /\ st.kind = "KR_PHASE_SET" -> KrStatus(c, st)
      [] c.state = "IDLE" /\ st.kind = "KEY_UPDATE"       -> IdleKeyStatus(c, st)
      [] c.state = "IDLE" /\ st.kind = "KR_PHASE_SET"     -> IdlePhaseStatus(c, st, unwritten)
      [] c.state = "NETWORK_CONNECT" /\ st.kind = "FILTER_ADD" -> ConnectFilterStatus(c, st.src)
      [] OTHER -> c

\* TX_COMPLETE reports a failure; the other states leave the queue alone.
OnTxFailed(c, dst) == IF c.state \in KrStates THEN KrTxFailed(c, dst) ELSE c

\* PROXY_CONNECTION_STATUS: mesh_key_refresh_link_status and network_connect.
OnLinkUp(c) == IF c.state = "IDLE" THEN c ELSE AddFilter(c)

Reconnects(c) == c.state \in KrStates /\ c.retries < MAX_CONNECT_RETRIES - 1

OnLinkDown(c) ==
    IF c.state \in KrStates
    THEN [c EXCEPT !.retries = (@ + 1) % UINT8,
                   !.state   = IF Reconnects(c) THEN @ ELSE "IDLE"]
    ELSE [c EXCEPT !.state = "IDLE"]

\* mesh_client_network_open: only the database outlives the session.
Reopened(c) == [c EXCEPT !.state = "IDLE", !.queue = <<>>, !.timer = FALSE, !.retries = 0]
=============================================================================
