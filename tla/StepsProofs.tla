---------------------------- MODULE StepsProofs ----------------------------
(***************************************************************************)
(* Provisioning implements the steps of Membership: whatever is lost or     *)
(* late and whichever key is rejected, what the application hears and what  *)
(* the database says change together and only as promised.  Not if a        *)
(* binding is rejected, the composition data is answered twice or the       *)
(* application disconnects in the middle: then the client breaks it.        *)
(* Then, under these conditions and if a key is acknowledged once, that a    *)
(* device reported as a success accepted the whole of its configuration.     *)
(***************************************************************************)
EXTENDS ProvisioningProofs

USE DEF Fields

(***************************************************************************)
(* The stage of a device, by the record the database has of it.            *)
(***************************************************************************)
StageIn(db, d) ==
    LET record == {r \in db : r.uuid = d}
    IN  CASE record = {} -> "out"
          [] \E r \in record : r.blocked -> "revoked"
          [] \E r \in record : r.complete /\ ~ r.blocked -> "member"
          [] OTHER -> "fresh"

Mark(r) == IF r.blocked THEN "revoked" ELSE IF r.complete THEN "member" ELSE "fresh"

LEMMA StageOfRecord ==
    ASSUME NEW db, DbOK(db), NEW r \in db
    PROVE  StageIn(db, r.uuid) = Mark(r)
<1>1. {s \in db : s.uuid = r.uuid} = {r}
  BY DEF DbOK, Unique
<1>2. r.blocked \in BOOLEAN /\ r.complete \in BOOLEAN
  BY DEF DbOK, Records
<1>3. QED
  BY <1>1, <1>2 DEF StageIn, Mark

LEMMA StageOfNone ==
    ASSUME NEW db, NEW d, \A r \in db : r.uuid # d
    PROVE  StageIn(db, d) = "out"
BY DEF StageIn

\* Two databases that agree on the marks of a device agree on its stage.
LEMMA StageAgrees ==
    ASSUME NEW db, DbOK(db), NEW e, DbOK(e), NEW d,
           \A r \in db : r.uuid = d => \E s \in e : s.uuid = d /\ Mark(s) = Mark(r),
           \A s \in e : s.uuid = d => \E r \in db : r.uuid = d
    PROVE  StageIn(e, d) = StageIn(db, d)
<1>1. CASE \E r \in db : r.uuid = d
  <2>1. PICK r \in db : r.uuid = d
    BY <1>1
  <2>2. PICK s \in e : s.uuid = d /\ Mark(s) = Mark(r)
    BY <2>1
  <2>3. QED
    BY <2>1, <2>2, StageOfRecord
<1>2. CASE ~ \E r \in db : r.uuid = d
  BY <1>2, StageOfNone
<1>3. QED
  BY <1>1, <1>2

LEMMA BlockingStage ==
    ASSUME NEW db, DbOK(db), NEW r \in db, NEW d
    PROVE  StageIn(Blocking(db, r.addr), d) = IF d = r.uuid THEN "revoked" ELSE StageIn(db, d)
<1> DEFINE e == Blocking(db, r.addr)
           f(s) == IF s.addr = r.addr THEN [s EXCEPT !.blocked = TRUE] ELSE s
<1>1. DbOK(e)
  BY BlockingOK
<1>2. \A s \in db : s \in Records /\ (s.addr = r.addr => s = r)
  BY DEF DbOK, Unique
<1>3. \A s \in db : f(s) \in e /\ f(s).uuid = s.uuid /\ (s # r => f(s) = s) /\ f(r).blocked
  BY <1>2 DEF Blocking, Records
<1>4. \A t \in e : \E s \in db : f(s) = t
  BY DEF Blocking
<1> HIDE DEF e, f
<1>5. CASE d = r.uuid
  <2>1. f(r) \in e /\ f(r).uuid = d /\ Mark(f(r)) = "revoked"
    BY <1>3, <1>5 DEF Mark
  <2>2. QED
    BY <1>1, <1>5, <2>1, StageOfRecord DEF e
<1>6. CASE d # r.uuid
  <2>1. \A s \in db : s.uuid = d => s \in e
    BY <1>3, <1>6
  <2>2. \A t \in e : t.uuid = d => \E s \in db : s.uuid = d
    BY <1>3, <1>4
  <2>3. StageIn(e, d) = StageIn(db, d)
    BY <1>1, <2>1, <2>2, StageAgrees
  <2>4. QED
    BY <1>6, <2>3 DEF e
<1>7. QED
  BY <1>5, <1>6

LEMMA CompletingStage ==
    ASSUME NEW db, DbOK(db), NEW r \in db, NEW d
    PROVE  StageIn(Completing(db, r.addr), d) =
               IF d = r.uuid /\ ~ r.blocked THEN "member" ELSE StageIn(db, d)
<1> DEFINE e == Completing(db, r.addr)
           f(s) == IF s.addr = r.addr THEN [s EXCEPT !.complete = TRUE] ELSE s
<1>1. DbOK(e)
  BY CompletingOK
<1>2. \A s \in db : s \in Records /\ (s.addr = r.addr => s = r)
  BY DEF DbOK, Unique
<1>3. \A s \in db : /\ f(s) \in e /\ f(s).uuid = s.uuid /\ (s # r => f(s) = s)
                    /\ f(r).complete /\ f(r).blocked = r.blocked
  BY <1>2 DEF Completing, Records
<1>4. \A t \in e : \E s \in db : f(s) = t
  BY DEF Completing
<1> HIDE DEF e, f
<1>5. CASE d = r.uuid
  <2>1. f(r) \in e /\ f(r).uuid = d
    BY <1>3, <1>5
  <2>2. Mark(f(r)) = IF r.blocked THEN "revoked" ELSE "member"
    BY <1>3 DEF Mark
  <2>3. StageIn(e, d) = Mark(f(r)) /\ StageIn(db, d) = Mark(r)
    BY <1>1, <1>5, <2>1, StageOfRecord
  <2>4. QED
    BY <1>5, <2>2, <2>3 DEF e, Mark
<1>6. CASE d # r.uuid
  <2>1. \A s \in db : s.uuid = d => s \in e
    BY <1>3, <1>6
  <2>2. \A t \in e : t.uuid = d => \E s \in db : s.uuid = d
    BY <1>3, <1>4
  <2>3. StageIn(e, d) = StageIn(db, d)
    BY <1>1, <2>1, <2>2, StageAgrees
  <2>4. QED
    BY <1>6, <2>3 DEF e
<1>7. QED
  BY <1>5, <1>6

LEMMA NothingThere ==
    ASSUME NEW db, NEW a, \A r \in db : r.addr # a
    PROVE  Blocking(db, a) = db /\ Completing(db, a) = db
BY DEF Blocking, Completing

\* A record that is complete, or blocked, is not touched by the completion.
LEMMA CreatedStage ==
    ASSUME NEW db, DbOK(db), NEW u, NEW a,
           DbOK({r \in db : r.uuid # u} \cup {Record(u, a)}), NEW d
    PROVE  StageIn({r \in db : r.uuid # u} \cup {Record(u, a)}, d) =
               IF d = u THEN "fresh" ELSE StageIn(db, d)
<1> DEFINE e == {r \in db : r.uuid # u} \cup {Record(u, a)}
<1>1. Record(u, a).uuid = u /\ Mark(Record(u, a)) = "fresh" /\ Record(u, a) \in e
  BY DEF Record, Mark
<1>2. \A r \in db : r.uuid # u => r \in e
  OBVIOUS
<1>3. \A r \in e : r.uuid # u => r \in db
  BY <1>1
<1>4. DbOK(e)
  OBVIOUS
<1> HIDE DEF e
<1>5. CASE d = u
  BY <1>1, <1>4, <1>5, StageOfRecord DEF e
<1>6. CASE d # u
  <2>1. StageIn(e, d) = StageIn(db, d)
    BY <1>2, <1>3, <1>4, <1>6, StageAgrees
  <2>2. QED
    BY <1>6, <2>1 DEF e
<1>7. QED
  BY <1>5, <1>6

LEMMA RemovedStage ==
    ASSUME NEW db, DbOK(db), NEW d
    PROVE  StageIn({r \in db : ~ r.blocked}, d) =
               IF StageIn(db, d) = "revoked" THEN "out" ELSE StageIn(db, d)
<1> DEFINE e == {r \in db : ~ r.blocked}
<1>1. DbOK(e)
  BY SubsetOK
<1>2. CASE \E r \in db : r.uuid = d
  <2>1. PICK r \in db : r.uuid = d
    BY <1>2
  <2>2. StageIn(db, d) = Mark(r)
    BY <2>1, StageOfRecord
  <2>3. \A s \in db : s.uuid = d => s = r
    BY <2>1 DEF DbOK, Unique
  <2>4. CASE r.blocked
    <3>1. \A s \in e : s.uuid # d
      BY <2>3, <2>4
    <3>2. QED
      BY <2>2, <2>4, <3>1, StageOfNone DEF Mark
  <2>5. CASE ~ r.blocked
    <3>1. r \in e
      BY <2>5
    <3> HIDE DEF e
    <3>2. StageIn(e, d) = Mark(r) /\ Mark(r) # "revoked"
      BY <1>1, <2>1, <2>5, <3>1, StageOfRecord DEF Mark
    <3>3. QED
      BY <2>2, <3>2 DEF e
  <2>6. QED
    BY <2>4, <2>5
<1>3. CASE ~ \E r \in db : r.uuid = d
  BY <1>3, StageOfNone
<1>4. QED
  BY <1>2, <1>3

-----------------------------------------------------------------------------
(***************************************************************************)
(* The account of a provisioning: one device at most is pending, what the   *)
(* application was told last of it says whether its node was created, and   *)
(* only that node is neither complete nor blocked.                         *)
(***************************************************************************)
Ongoing == {"END", "CONFIGURING"}

Settled(c) == c.completed_sent \/ c.uuid = NoDevice

Held(c) ==
    /\ Good(c)
    /\ c.completed_sent \in BOOLEAN
    /\ c.told = [d \in Devices \cup {NoDevice} |-> c.told[d]]
    /\ \A d \in Devices : c.told[d] = "pending" <=> d = c.uuid /\ ~ c.completed_sent
    /\ c.last_status \in Ongoing => ~ Settled(c) /\ Record(c.uuid, c.addr) \in c.db
    /\ \A r \in c.db : ~ r.complete /\ ~ r.blocked =>
          c.last_status \in Ongoing /\ r = Record(c.uuid, c.addr)

\* Nothing happened that the application could see.
Same(c, d) ==
    \A x \in Devices : StageIn(d.db, x) = StageIn(c.db, x) /\ d.told[x] = c.told[x]

Kept(c, d) ==
    /\ Held(d) /\ Same(c, d)
    /\ Settled(d) <=> Settled(c)
    /\ d.last_status \in Ongoing <=> c.last_status \in Ongoing

\* The provisioning failed, or succeeded.
Failed(c, d) ==
    /\ Held(d) /\ Settled(d) /\ ~ Settled(c)
    /\ \A x \in Devices :
          /\ d.told[x] = IF x = c.uuid THEN "FAILED" ELSE c.told[x]
          /\ StageIn(d.db, x) = IF x = c.uuid /\ StageIn(c.db, x) = "fresh"
                                THEN "revoked" ELSE StageIn(c.db, x)

Succeeded(c, d) ==
    /\ Held(d) /\ Settled(d) /\ ~ Settled(c)
    /\ StageIn(c.db, c.uuid) = "fresh"
    /\ \A x \in Devices :
          /\ d.told[x] = IF x = c.uuid THEN "SUCCESS" ELSE c.told[x]
          /\ StageIn(d.db, x) = IF x = c.uuid THEN "member" ELSE StageIn(c.db, x)

Moved(c, d) == Kept(c, d) \/ Failed(c, d) \/ Succeeded(c, d)

LEMMA KeptSelf == ASSUME NEW c, Held(c) PROVE Kept(c, c)
BY DEF Kept, Same

LEMMA KeptChain ==
    ASSUME NEW c, NEW d, NEW e, Kept(c, d), Kept(d, e)
    PROVE  Kept(c, e)
BY DEF Kept, Same

\* The device that is pending is the same while nothing happens.
LEMMA KeptPending ==
    ASSUME NEW c, NEW d, Held(c), Kept(c, d), ~ Settled(c)
    PROVE  d.uuid = c.uuid /\ c.uuid \in Devices
BY DEF Held, Kept, Same, Settled, Good, IsClient

LEMMA MovedChain ==
    ASSUME NEW c, NEW d, NEW e, Held(c), Moved(c, d), Moved(d, e)
    PROVE  Moved(c, e)
<1>1. CASE Kept(c, d) /\ Kept(d, e)
  BY <1>1, KeptChain DEF Moved
<1>2. CASE Kept(c, d) /\ (Failed(d, e) \/ Succeeded(d, e))
  <2>1. ~ Settled(c)
    BY <1>2 DEF Failed, Succeeded, Kept
  <2>2. d.uuid = c.uuid /\ c.uuid \in Devices
    BY <1>2, <2>1, KeptPending
  <2>3. QED
    BY <1>2, <2>1, <2>2 DEF Failed, Succeeded, Kept, Same, Moved
<1>3. CASE Failed(c, d) \/ Succeeded(c, d)
  <2>1. Kept(d, e)
    BY <1>3 DEF Failed, Succeeded, Moved
  <2>2. QED
    BY <1>3, <2>1 DEF Failed, Succeeded, Kept, Same, Moved
<1>4. QED
  BY <1>1, <1>2, <1>3 DEF Moved

LEMMA KeptAside ==
    ASSUME NEW c, Held(c), NEW d, Aside(c, d)
    PROVE  Kept(c, d)
BY GoodLink DEF Aside, Beside, Held, Kept, Same, Settled

\* A settled client moves no more: nothing is pending.
LEMMA SettledKeeps ==
    ASSUME NEW c, Settled(c), NEW d, Moved(c, d)
    PROVE  Kept(c, d)
BY DEF Moved, Failed, Succeeded

-----------------------------------------------------------------------------
(* provision_status_notify. *)

Resets(c, status) ==
    status = "FAILED" /\ c.last_status \in Ongoing /\ NodesAt(c, c.addr) # {}

LEMMA ResetShape ==
    ASSUME NEW c, Good(c), NEW a
    PROVE  LET d == ResetNode(c, a)
           IN  /\ Good(d) /\ d.db = Blocking(c.db, a) /\ d.state = "KEY_REFRESH"
               /\ d.uuid = c.uuid /\ d.addr = c.addr /\ d.told = c.told
               /\ d.completed_sent = c.completed_sent
<1> DEFINE d == Clean(c, a)
           e == ResetNode(c, a)
<1>1. e = [d EXCEPT !.retries = 0, !.db = Blocking(@, a),
                    !.queue = @ \o <<Msg("NODE_RESET", a), Msg("REFRESH", Local)>>,
                    !.refresh = TRUE, !.state = "KEY_REFRESH", !.timer = TRUE]
  BY DEF ResetNode, Blocking
<1>2. Good(d) /\ Good(e)
  BY CalmClean, CalmResetNode, CalmTrusts
<1>3. Aside(c, d)
  BY CleanAside
<1> HIDE DEF d, e
<1>4. /\ e.db = Blocking(d.db, a) /\ e.state = "KEY_REFRESH" /\ e.uuid = d.uuid
      /\ e.addr = d.addr /\ e.told = d.told /\ e.completed_sent = d.completed_sent
  BY <1>1, <1>2 DEF Good, IsClient
<1>5. QED
  BY <1>2, <1>3, <1>4 DEF Aside, Beside, e

NotifyResult(c, status, d) ==
    /\ Good(d) /\ d.uuid = c.uuid /\ d.addr = c.addr /\ d.last_status = status
    /\ d.completed_sent = IF status \in {"SUCCESS", "FAILED"} THEN TRUE ELSE c.completed_sent
    /\ d.told = IF c.completed_sent \/ status \notin {"SUCCESS", "FAILED"} THEN c.told
                ELSE [c.told EXCEPT ![c.uuid] = status]
    /\ d.db = IF Resets(c, status) THEN Blocking(c.db, c.addr) ELSE c.db
    /\ d.state = IF Resets(c, status) THEN "KEY_REFRESH" ELSE c.state
    /\ ~ Resets(c, status) =>
          /\ d.queue = c.queue /\ d.remote_comp = c.remote_comp /\ d.link = c.link
          /\ d.over_gatt = c.over_gatt /\ d.plink = c.plink

LEMMA NotifyShape ==
    ASSUME NEW c, Good(c), c.completed_sent \in BOOLEAN, NEW status
    PROVE  NotifyResult(c, status, NotifyStatus(c, status))
<1> DEFINE heard == IF c.completed_sent \/ status \notin {"SUCCESS", "FAILED"} THEN c
                    ELSE [c EXCEPT !.told[c.uuid] = status]
           reset == IF Resets(c, status) THEN ResetNode(heard, c.addr) ELSE heard
           d     == [reset EXCEPT !.last_status = status,
                                  !.completed_sent = @ \/ status \in {"SUCCESS", "FAILED"}]
<1>1. NotifyStatus(c, status) = d
  BY DEF NotifyStatus, Resets, Ongoing
<1>2. Good(d)
  BY <1>1, CalmNotifyStatus, CalmTrusts
<1>3. /\ IsClient(heard) /\ heard.db = c.db /\ heard.addr = c.addr /\ heard.uuid = c.uuid
      /\ heard.completed_sent = c.completed_sent /\ heard.state = c.state
      /\ heard.queue = c.queue /\ heard.remote_comp = c.remote_comp /\ heard.link = c.link
      /\ heard.over_gatt = c.over_gatt /\ heard.plink = c.plink
      /\ heard.told = IF c.completed_sent \/ status \notin {"SUCCESS", "FAILED"} THEN c.told
                      ELSE [c.told EXCEPT ![c.uuid] = status]
  <2> DEFINE new == [c EXCEPT !.told[c.uuid] = status]
  <2>1. /\ IsClient(new) /\ new.db = c.db /\ new.addr = c.addr /\ new.uuid = c.uuid
        /\ new.completed_sent = c.completed_sent /\ new.state = c.state
        /\ new.queue = c.queue /\ new.remote_comp = c.remote_comp /\ new.link = c.link
        /\ new.over_gatt = c.over_gatt /\ new.plink = c.plink
        /\ new.told = [c.told EXCEPT ![c.uuid] = status]
    BY DEF Good, IsClient, Fields
  <2>2. heard = IF c.completed_sent \/ status \notin {"SUCCESS", "FAILED"} THEN c ELSE new
    OBVIOUS
  <2> HIDE DEF new, heard
  <2>3. QED
    BY <2>1, <2>2 DEF Good
<1> HIDE DEF heard
<1>4. Good(heard)
  BY <1>3, GoodLink
<1>5. /\ IsClient(reset) /\ reset.addr = c.addr /\ reset.uuid = c.uuid
      /\ reset.db = IF Resets(c, status) THEN Blocking(c.db, c.addr) ELSE c.db
      /\ reset.state = IF Resets(c, status) THEN "KEY_REFRESH" ELSE c.state
      /\ reset.completed_sent = c.completed_sent /\ reset.told = heard.told
  BY <1>3, <1>4, ResetShape DEF Good
<1>6. ~ Resets(c, status) =>
         reset.queue = c.queue /\ reset.remote_comp = c.remote_comp /\ reset.link = c.link
         /\ reset.over_gatt = c.over_gatt /\ reset.plink = c.plink
  BY <1>3
<1> HIDE DEF reset
<1>7. /\ d.addr = reset.addr /\ d.uuid = reset.uuid /\ d.db = reset.db /\ d.state = reset.state
      /\ d.told = reset.told /\ d.last_status = status
      /\ d.completed_sent = (reset.completed_sent \/ status \in {"SUCCESS", "FAILED"})
      /\ d.queue = reset.queue /\ d.remote_comp = reset.remote_comp /\ d.link = reset.link
      /\ d.over_gatt = reset.over_gatt /\ d.plink = reset.plink
  BY <1>5 DEF IsClient
<1> HIDE DEF d
<1>8. d.completed_sent = IF status \in {"SUCCESS", "FAILED"} THEN TRUE ELSE c.completed_sent
  BY <1>5, <1>7
<1>9. QED
  BY <1>1, <1>2, <1>3, <1>5, <1>6, <1>7, <1>8 DEF NotifyResult

LEMMA FreshRecord ==
    ASSUME NEW db, DbOK(db), NEW x, StageIn(db, x) = "fresh"
    PROVE  \E r \in db : r.uuid = x /\ ~ r.complete /\ ~ r.blocked
<1>1. PICK r \in db : r.uuid = x
  BY StageOfNone
<1>2. Mark(r) = "fresh"
  BY <1>1, StageOfRecord
<1>3. QED
  BY <1>1, <1>2 DEF Mark

\* What leaves a node that is not configured out: a client with no provisioning
\* under way knows none.
LEMMA NoneFresh ==
    ASSUME NEW c, Held(c), c.last_status \notin Ongoing
    PROVE  \A x \in Devices : StageIn(c.db, x) # "fresh"
BY FreshRecord DEF Held, Good

LEMMA OneFresh ==
    ASSUME NEW c, Held(c), c.last_status \in Ongoing
    PROVE  /\ Record(c.uuid, c.addr) \in c.db /\ NodesAt(c, c.addr) # {}
           /\ c.uuid \in Devices /\ ~ Settled(c) /\ StageIn(c.db, c.uuid) = "fresh"
<1> DEFINE r == Record(c.uuid, c.addr)
<1>1. r \in c.db /\ ~ Settled(c)
  BY DEF Held
<1>2. r.uuid = c.uuid /\ r.addr = c.addr /\ Mark(r) = "fresh"
  BY DEF Record, Mark
<1> HIDE DEF r
<1>3. StageIn(c.db, c.uuid) = "fresh"
  BY <1>1, <1>2, StageOfRecord DEF Held, Good
<1>4. NodesAt(c, c.addr) # {}
  BY <1>1, <1>2 DEF NodesAt
<1>5. QED
  BY <1>1, <1>3, <1>4 DEF Settled, Held, Good, IsClient, r

LEMMA NotifyNews ==
    ASSUME NEW c, Held(c), NEW status, status \notin {"SUCCESS", "FAILED"},
           status \in Ongoing <=> c.last_status \in Ongoing
    PROVE  LET d == NotifyStatus(c, status)
           IN  /\ Kept(c, d) /\ d.state = c.state /\ d.queue = c.queue /\ d.addr = c.addr
               /\ d.last_status = status /\ d.remote_comp = c.remote_comp
               /\ d.link = c.link /\ d.plink = c.plink /\ d.over_gatt = c.over_gatt
               /\ d.db = c.db
<1> DEFINE d == NotifyStatus(c, status)
<1>1. ~ Resets(c, status) /\ NotifyResult(c, status, d)
  BY NotifyShape DEF Resets, Held
<1> HIDE DEF d
<1>2. /\ Good(d) /\ d.uuid = c.uuid /\ d.addr = c.addr /\ d.last_status = status
      /\ d.completed_sent = c.completed_sent /\ d.told = c.told /\ d.db = c.db
      /\ d.state = c.state /\ d.queue = c.queue /\ d.remote_comp = c.remote_comp
      /\ d.link = c.link /\ d.over_gatt = c.over_gatt /\ d.plink = c.plink
  BY <1>1 DEF NotifyResult
<1>3. Kept(c, d)
  BY <1>2 DEF Kept, Held, Same, Settled
<1>4. QED
  BY <1>2, <1>3 DEF d

LEMMA NotifySettled ==
    ASSUME NEW c, Held(c), Settled(c), NEW status \in {"SUCCESS", "FAILED"}
    PROVE  /\ Kept(c, NotifyStatus(c, status)) /\ NotifyStatus(c, status).state = c.state
           /\ NotifyStatus(c, status).queue = c.queue
<1> DEFINE d == NotifyStatus(c, status)
<1>1. c.last_status \notin Ongoing
  BY DEF Held
<1>2. ~ Resets(c, status) /\ NotifyResult(c, status, d)
  BY <1>1, NotifyShape DEF Resets, Held
<1> HIDE DEF d
<1>3. /\ Good(d) /\ d.uuid = c.uuid /\ d.addr = c.addr /\ d.last_status = status
      /\ d.completed_sent = TRUE /\ d.db = c.db
      /\ d.told = IF c.completed_sent THEN c.told ELSE [c.told EXCEPT ![c.uuid] = status]
      /\ d.state = c.state /\ d.queue = c.queue
  BY <1>2 DEF NotifyResult
<1>4. /\ d.told = [x \in Devices \cup {NoDevice} |-> d.told[x]]
      /\ \A x \in Devices : d.told[x] = c.told[x] /\ c.told[x] # "pending"
  <2>1. \A x \in Devices : c.told[x] # "pending"
    BY ProvisioningAssumption DEF Settled, Held
  <2>2. c.told = [x \in Devices \cup {NoDevice} |-> c.told[x]]
    BY DEF Held
  <2>3. CASE c.completed_sent
    BY <1>3, <2>1, <2>2, <2>3
  <2>4. CASE ~ c.completed_sent
    <3>1. c.uuid = NoDevice /\ d.told = [c.told EXCEPT ![NoDevice] = status]
      BY <1>3, <2>4 DEF Settled
    <3>2. \A x \in Devices : x # NoDevice
      BY ProvisioningAssumption
    <3>3. QED
      BY <2>1, <2>2, <3>1, <3>2
  <2>5. QED
    BY <2>3, <2>4
<1>5. d.last_status \notin Ongoing
  BY <1>3 DEF Ongoing
<1>6. Held(d) /\ Settled(d)
  BY <1>1, <1>3, <1>4, <1>5 DEF Held, Settled
<1>7. QED
  BY <1>1, <1>3, <1>4, <1>5, <1>6 DEF Kept, Same, d

LEMMA NotifyFailed ==
    ASSUME NEW c, Held(c), ~ Settled(c)
    PROVE  /\ Failed(c, NotifyStatus(c, "FAILED"))
           /\ NotifyStatus(c, "FAILED").state \in {c.state, "KEY_REFRESH"}
<1> DEFINE d == NotifyStatus(c, "FAILED")
<1>0. NotifyResult(c, "FAILED", d)
  BY NotifyShape DEF Held
<1> HIDE DEF d
<1>1. /\ Good(d) /\ d.uuid = c.uuid /\ d.addr = c.addr /\ d.last_status = "FAILED"
      /\ d.completed_sent = TRUE
      /\ d.told = [c.told EXCEPT ![c.uuid] = "FAILED"]
      /\ d.db = IF Resets(c, "FAILED") THEN Blocking(c.db, c.addr) ELSE c.db
      /\ d.state \in {c.state, "KEY_REFRESH"}
  BY <1>0 DEF NotifyResult, Held, Settled
<1>2. c.uuid \in Devices /\ Settled(d) /\ d.last_status \notin Ongoing
  BY <1>1 DEF Settled, Held, Good, IsClient, Ongoing
<1>3. /\ d.told = [x \in Devices \cup {NoDevice} |-> d.told[x]]
      /\ \A x \in Devices : d.told[x] = IF x = c.uuid THEN "FAILED" ELSE c.told[x]
      /\ \A x \in Devices : d.told[x] # "pending"
  BY <1>1, <1>2 DEF Settled, Held
<1>4. CASE c.last_status \in Ongoing
  <2> DEFINE r == Record(c.uuid, c.addr)
  <2>1. r \in c.db /\ StageIn(c.db, c.uuid) = "fresh" /\ NodesAt(c, c.addr) # {}
    BY <1>4, OneFresh
  <2>2. r.uuid = c.uuid /\ r.addr = c.addr
    BY DEF Record
  <2>3. d.db = Blocking(c.db, r.addr)
    BY <1>1, <1>4, <2>1, <2>2 DEF Resets
  <2>4. \A s \in c.db : s \in Records /\ (~ s.complete /\ ~ s.blocked => s = r)
    BY DEF Held, Good, DbOK
  <2> HIDE DEF r
  <2>5. \A s \in d.db : s.complete \/ s.blocked
    BY <2>3, <2>4 DEF Blocking, Records
  <2>6. \A x \in Devices : StageIn(d.db, x) = IF x = c.uuid THEN "revoked" ELSE StageIn(c.db, x)
    BY <2>1, <2>2, <2>3, BlockingStage DEF Held, Good
  <2>7. Held(d)
    BY <1>1, <1>2, <1>3, <2>5 DEF Held
  <2>8. \A x \in Devices : StageIn(d.db, x) = IF x = c.uuid /\ StageIn(c.db, x) = "fresh"
                                              THEN "revoked" ELSE StageIn(c.db, x)
    BY <2>1, <2>6
  <2>9. Failed(c, d)
    BY <1>2, <1>3, <2>7, <2>8 DEF Failed
  <2>10. QED
    BY <1>1, <2>9 DEF d
<1>5. CASE c.last_status \notin Ongoing
  <2>1. d.db = c.db
    BY <1>1, <1>5 DEF Resets
  <2>2. Held(d)
    BY <1>1, <1>2, <1>3, <1>5, <2>1 DEF Held
  <2>3. \A x \in Devices : StageIn(c.db, x) # "fresh"
    BY <1>5, NoneFresh
  <2>4. Failed(c, d)
    BY <1>2, <1>3, <2>1, <2>2, <2>3 DEF Failed
  <2>5. QED
    BY <1>1, <2>4 DEF d
<1>6. QED
  BY <1>4, <1>5

\* In any case nothing is pending after a failure.
LEMMA NotifyFailedMoves ==
    ASSUME NEW c, Held(c)
    PROVE  LET d == NotifyStatus(c, "FAILED")
           IN  Moved(c, d) /\ Held(d) /\ Settled(d) /\ d.state \in {c.state, "KEY_REFRESH"}
<1>1. CASE Settled(c)
  BY <1>1, NotifySettled DEF Moved, Kept
<1>2. CASE ~ Settled(c)
  BY <1>2, NotifyFailed DEF Moved, Failed
<1>3. QED
  BY <1>1, <1>2

LEMMA CompleteShape ==
    ASSUME NEW c, Good(c), NEW a
    PROVE  LET d == ConfigComplete(c, a)
           IN  /\ Good(d) /\ d.db = Completing(c.db, a) /\ d.uuid = c.uuid /\ d.addr = c.addr
               /\ d.told = c.told /\ d.completed_sent = c.completed_sent
               /\ d.last_status = c.last_status /\ d.state = c.state /\ d.queue = c.queue
<1> DEFINE d == ConfigComplete(c, a)
<1>1. d = [c EXCEPT !.db = Completing(@, a)] /\ Good(d)
  BY CalmConfigComplete, CalmTrusts DEF ConfigComplete, Completing
<1> HIDE DEF d
<1>2. QED
  BY <1>1 DEF Good, IsClient, d

LEMMA CompletingNone ==
    ASSUME NEW c, Held(c), c.last_status \notin Ongoing, NEW a
    PROVE  /\ \A s \in Completing(c.db, a) : s.complete \/ s.blocked
           /\ \A x : StageIn(Completing(c.db, a), x) = StageIn(c.db, x)
<1>1. \A r \in c.db : r \in Records /\ (r.complete \/ r.blocked)
  BY DEF Held, Good, DbOK
<1>2. \A s \in Completing(c.db, a) : s.complete \/ s.blocked
  BY <1>1 DEF Completing, Records
<1>3. CASE \E r \in c.db : r.addr = a
  <2>1. PICK r \in c.db : r.addr = a
    BY <1>3
  <2>2. ~ r.blocked => StageIn(c.db, r.uuid) = "member"
    BY <1>1, StageOfRecord DEF Mark, Held, Good
  <2>3. \A x : StageIn(Completing(c.db, a), x) = StageIn(c.db, x)
    BY <2>1, <2>2, CompletingStage DEF Held, Good
  <2>4. QED
    BY <1>2, <2>3
<1>4. CASE ~ \E r \in c.db : r.addr = a
  BY <1>2, <1>4, NothingThere
<1>5. QED
  BY <1>3, <1>4

LEMMA CompleteSettled ==
    ASSUME NEW c, Held(c), Settled(c), NEW a
    PROVE  Kept(c, ConfigComplete(c, a)) /\ ConfigComplete(c, a).state = c.state
<1> DEFINE d == ConfigComplete(c, a)
<1>1. c.last_status \notin Ongoing
  BY DEF Held
<1>2. /\ Good(d) /\ d.db = Completing(c.db, a) /\ d.uuid = c.uuid /\ d.addr = c.addr
      /\ d.told = c.told /\ d.completed_sent = c.completed_sent
      /\ d.last_status = c.last_status /\ d.state = c.state
  BY CompleteShape DEF Held
<1> HIDE DEF d
<1>3. Held(d)
  <2>1. \A s \in d.db : s.complete \/ s.blocked
    BY <1>1, <1>2, CompletingNone
  <2>2. QED
    BY <1>1, <1>2, <2>1 DEF Held
<1>4. QED
  BY <1>1, <1>2, <1>3, CompletingNone DEF Kept, Same, Settled, d

\* The end of a configuration: the node is complete and the success is reported.
LEMMA CompleteSucceeds ==
    ASSUME NEW c, Held(c), c.last_status \in Ongoing
    PROVE  LET d == NotifyStatus(ConfigComplete(c, c.addr), "SUCCESS")
           IN  Succeeded(c, d) /\ d.state = c.state /\ d.queue = c.queue
<1> DEFINE r == Record(c.uuid, c.addr)
           e == ConfigComplete(c, c.addr)
           d == NotifyStatus(e, "SUCCESS")
<1>1. /\ r \in c.db /\ c.uuid \in Devices /\ ~ Settled(c) /\ StageIn(c.db, c.uuid) = "fresh"
      /\ r.uuid = c.uuid /\ r.addr = c.addr /\ ~ r.blocked
  BY OneFresh DEF Record
<1>2. /\ Good(e) /\ e.db = Completing(c.db, r.addr) /\ e.uuid = c.uuid /\ e.addr = c.addr
      /\ e.told = c.told /\ e.completed_sent = c.completed_sent
      /\ e.state = c.state /\ e.queue = c.queue
  BY <1>1, CompleteShape DEF Held
<1> HIDE DEF e
<1>0. ~ Resets(e, "SUCCESS") /\ e.completed_sent = FALSE
  BY <1>1, <1>2 DEF Held, Settled, Resets
<1>0a. NotifyResult(e, "SUCCESS", d)
  BY <1>0, <1>2, NotifyShape
<1> HIDE DEF d
<1>3. /\ Good(d) /\ d.uuid = c.uuid /\ d.addr = c.addr /\ d.last_status = "SUCCESS"
      /\ d.completed_sent = TRUE /\ d.told = [c.told EXCEPT ![c.uuid] = "SUCCESS"]
      /\ d.db = e.db /\ d.state = c.state /\ d.queue = c.queue
  BY <1>0, <1>0a, <1>2 DEF NotifyResult
<1>4. \A s \in c.db : s \in Records /\ (~ s.complete /\ ~ s.blocked => s = r)
  BY DEF Held, Good, DbOK
<1> HIDE DEF r, d
<1>5. /\ d.told = [x \in Devices \cup {NoDevice} |-> d.told[x]]
      /\ \A x \in Devices : d.told[x] = IF x = c.uuid THEN "SUCCESS" ELSE c.told[x]
      /\ \A x \in Devices : d.told[x] # "pending"
  BY <1>1, <1>3 DEF Settled, Held
<1>6. \A s \in d.db : s.complete \/ s.blocked
  BY <1>2, <1>3, <1>4 DEF Completing, Records
<1>7. d.last_status \notin Ongoing
  BY <1>3 DEF Ongoing
<1>8. Held(d) /\ Settled(d)
  BY <1>3, <1>5, <1>6, <1>7 DEF Held, Settled
<1>9. \A x \in Devices : StageIn(d.db, x) = IF x = c.uuid THEN "member" ELSE StageIn(c.db, x)
  BY <1>1, <1>2, <1>3, CompletingStage DEF Held, Good
<1>10. Succeeded(c, d)
  BY <1>1, <1>5, <1>8, <1>9 DEF Succeeded
<1>11. QED
  BY <1>3, <1>10 DEF d, e

-----------------------------------------------------------------------------
(***************************************************************************)
(* The phases of the client: nothing is pending when it rests, and a        *)
(* configuration has operations left and the composition data of the node.  *)
(***************************************************************************)
Joining == {"PROVISION_DISCONNECTING", "NODE_CONNECTING", "GET_REMOTE_COMPOSITION_DATA"}
Active  == Opening \cup Joining \cup {"CONFIGURATION"}

Opens(c) ==
    /\ Held(c) /\ ~ Settled(c) /\ c.state \in Opening
    /\ c.last_status \notin Ongoing /\ c.queue = <<>>

Joins(c) ==
    /\ Held(c) /\ c.state \in Joining
    /\ c.last_status \in Ongoing /\ c.queue = <<>>

Configures(c) ==
    /\ Held(c) /\ c.state = "CONFIGURATION"
    /\ c.last_status \in Ongoing /\ c.queue # <<>> /\ c.remote_comp

Rests(c) == Held(c) /\ Settled(c) /\ c.state \notin Active

Busy(c) == Configures(c) \/ Rests(c)

\* A step of the configuration, or of whatever does not concern a new node.
Goes(c, d) == Busy(d) /\ Moved(c, d)

\* What leaves the procedure as it is.
Apart(c, d) ==
    /\ Aside(c, d)
    /\ d.state = c.state /\ d.queue = c.queue /\ d.remote_comp = c.remote_comp

LEMMA BusyHolds == ASSUME NEW c, Busy(c) PROVE Held(c) /\ Good(c)
BY DEF Busy, Configures, Rests, Held

LEMMA GoesChain ==
    ASSUME NEW c, NEW d, NEW e, Busy(c), Goes(c, d), Goes(d, e)
    PROVE  Goes(c, e)
BY BusyHolds, MovedChain DEF Goes

LEMMA GoesApart ==
    ASSUME NEW c, Busy(c), NEW d, Apart(c, d)
    PROVE  Goes(c, d)
<1>1. Kept(c, d)
  BY BusyHolds, KeptAside DEF Apart
<1>2. QED
  BY <1>1 DEF Busy, Configures, Rests, Goes, Moved, Kept, Apart

LEMMA GoesSelf == ASSUME NEW c, Busy(c) PROVE Goes(c, c)
BY KeptSelf, BusyHolds DEF Goes, Moved

\* A client that rests goes on to rest.
LEMMA RestsKept ==
    ASSUME NEW c, Rests(c), NEW d, Kept(c, d), d.state \notin Active
    PROVE  Rests(d) /\ Goes(c, d)
BY DEF Rests, Kept, Goes, Busy, Moved

LEMMA RestsAside ==
    ASSUME NEW c, Rests(c), NEW d, Aside(c, d), d.state = c.state \/ d.state \notin Active
    PROVE  Rests(d) /\ Goes(c, d)
<1>1. Kept(c, d)
  BY KeptAside DEF Rests
<1>2. QED
  BY <1>1, RestsKept DEF Rests

\* The end of what was pending.
LEMMA EndsRest ==
    ASSUME NEW c, NEW d, Moved(c, d), Held(d), Settled(d), d.state \notin Active
    PROVE  Rests(d) /\ Goes(c, d)
BY DEF Rests, Goes, Busy

LEMMA ExecuteApart ==
    ASSUME NEW c, Good(c), c.queue # <<>>
    PROVE  Apart(c, Execute(c))
<1> DEFINE d == [c EXCEPT !.timer = TRUE]
<1>1. Apart(c, d)
  BY DEF Good, IsClient, Apart, Aside, Beside, Connected
<1>2. QED
  BY <1>1 DEF Execute

LEMMA ExecuteGoes ==
    ASSUME NEW c, Busy(c)
    PROVE  Goes(c, Execute(c))
<1>1. CASE c.queue # <<>>
  BY <1>1, BusyHolds, ExecuteApart, GoesApart
<1>2. CASE c.queue = <<>> /\ c.remote_comp
  <2> DEFINE d == [c EXCEPT !.remote_comp = FALSE]
             e == ConfigComplete(d, c.addr)
             f == NotifyStatus(e, "SUCCESS")
  <2>1. Execute(c) = f
    BY <1>2 DEF Execute
  <2>2. Rests(c)
    BY <1>2 DEF Busy, Configures
  <2>3. Aside(c, d) /\ d.state = c.state
    <3>1. Good(c)
      BY BusyHolds
    <3>2. QED
      BY <3>1 DEF Good, IsClient, Aside, Beside, Connected
  <2> HIDE DEF d
  <2>4. Rests(d) /\ Goes(c, d)
    BY <2>2, <2>3, RestsAside
  <2>5. Kept(d, e) /\ e.state = d.state
    BY <2>4, CompleteSettled DEF Rests
  <2> HIDE DEF e
  <2>6. Rests(e) /\ Goes(d, e)
    BY <2>4, <2>5, RestsKept DEF Rests
  <2>7. Kept(e, f) /\ f.state = e.state
    BY <2>6, NotifySettled DEF Rests
  <2> HIDE DEF f
  <2>8. Goes(e, f)
    BY <2>6, <2>7, RestsKept DEF Rests
  <2>9. Goes(d, f)
    BY <2>4, <2>6, <2>8, GoesChain DEF Busy
  <2>10. QED
    BY <2>1, <2>4, <2>9, GoesChain
<1>3. CASE c.queue = <<>> /\ ~ c.remote_comp
  BY <1>3, GoesSelf DEF Execute
<1>4. QED
  BY <1>1, <1>2, <1>3

\* The queue of a configuration is empty: the node is complete.
LEMMA ExecuteEnds ==
    ASSUME NEW c, Held(c), c.last_status \in Ongoing, c.remote_comp, c.queue = <<>>
    PROVE  /\ Moved(c, Execute(c)) /\ Held(Execute(c)) /\ Settled(Execute(c))
           /\ Execute(c).state = c.state /\ Execute(c).queue = <<>>
<1> DEFINE d == [c EXCEPT !.remote_comp = FALSE]
           f == NotifyStatus(ConfigComplete(d, d.addr), "SUCCESS")
<1>1. Aside(c, d) /\ d.state = c.state /\ d.queue = c.queue /\ d.addr = c.addr
      /\ d.last_status = c.last_status
  BY DEF Held, Good, IsClient, Aside, Beside, Connected
<1>2. Execute(c) = f
  BY <1>1 DEF Execute
<1> HIDE DEF d
<1>3. Kept(c, d)
  BY <1>1, KeptAside
<1>4. Succeeded(d, f) /\ f.state = d.state /\ f.queue = d.queue
  BY <1>1, <1>3, CompleteSucceeds DEF Kept
<1> HIDE DEF f
<1>5. Moved(c, f)
  BY <1>3, <1>4, MovedChain DEF Moved
<1>6. QED
  BY <1>1, <1>2, <1>4, <1>5 DEF Succeeded

LEMMA QueueDoneRests ==
    ASSUME NEW c, Held(c), Settled(c), c.state = "CONFIGURATION" \/ c.state \notin Active,
           c.queue = <<>>
    PROVE  Rests(QueueDone(c)) /\ Kept(c, QueueDone(c))
<1>1. Good(c)
  BY DEF Held
<1> DEFINE off  == [c EXCEPT !.state = "CONFIGURE_DISCONNECTING"]
           idle == [c EXCEPT !.state = "IDLE"]
           home == [c EXCEPT !.state = "IDLE", !.proxy_addr = IF c.over_gatt THEN c.addr ELSE @]
<1>2. /\ QueueDone(c) \in {ProxyDisconnect(off), idle, home, c}
      /\ QueueDone(c) = c => c.state = "KEY_REFRESH" \/ c.state = "IDLE"
  <2>1. QueueDone(c) = c /\ c.state # "KEY_REFRESH" => c.state = "IDLE"
    <3>1. idle.state = "IDLE" /\ home.state = "IDLE" /\ off.state = "CONFIGURE_DISCONNECTING"
      BY <1>1 DEF Good, IsClient
    <3>2. ProxyDisconnect(off).state = "CONFIGURE_DISCONNECTING"
      BY <1>1 DEF ProxyDisconnect, Good, IsClient
    <3>3. QED
      BY <3>1, <3>2 DEF QueueDone
  <2>2. QED
    BY <2>1 DEF QueueDone
<1>3. /\ Aside(c, off) /\ off.state = "CONFIGURE_DISCONNECTING"
      /\ Aside(c, idle) /\ idle.state = "IDLE" /\ Aside(c, home) /\ home.state = "IDLE"
  BY <1>1 DEF Good, IsClient, Aside, Beside, Connected
<1> HIDE DEF off, idle, home
<1>4. Kept(c, off) /\ Kept(c, idle) /\ Kept(c, home) /\ Kept(c, c)
  BY <1>3, KeptAside, KeptSelf
<1>5. Kept(c, ProxyDisconnect(off)) /\ ProxyDisconnect(off).state = "CONFIGURE_DISCONNECTING"
  <2>1. Held(off) /\ Good(off)
    BY <1>4 DEF Kept, Held
  <2>2. Aside(off, ProxyDisconnect(off)) /\ ProxyDisconnect(off).state = off.state
    BY <2>1, ProxyDisconnectAside
  <2>3. QED
    BY <1>3, <1>4, <2>1, <2>2, KeptAside, KeptChain
<1>6. \A d : Kept(c, d) /\ d.state \notin Active => Rests(d)
  BY DEF Kept, Rests
<1>7. QED
  BY <1>2, <1>3, <1>4, <1>5, <1>6 DEF Active, Opening, Joining

LEMMA QueueDoneSelf ==
    ASSUME NEW c, c.queue # <<>>
    PROVE  QueueDone(c) = c
BY DEF QueueDone

LEMMA StartNextOpGoes ==
    ASSUME NEW c, Busy(c)
    PROVE  Goes(c, StartNextOp(c))
<1>1. Held(c) /\ Good(c)
  BY BusyHolds
<1> DEFINE d == [c EXCEPT !.queue = IF @ = <<>> THEN @ ELSE Tail(@)]
           e == Execute(d)
<1>2. Aside(c, d) /\ d.state = c.state /\ d.remote_comp = c.remote_comp
  BY <1>1, TailAside
<1>3. StartNextOp(c) = QueueDone(e)
  BY DEF StartNextOp
<1> HIDE DEF d
<1>4. Kept(c, d)
  BY <1>1, <1>2, KeptAside
<1>5. CASE Rests(c) \/ d.queue # <<>>
  <2>1. Busy(d)
    BY <1>2, <1>4, <1>5, RestsAside DEF Busy, Configures, Rests, Kept
  <2>2. Goes(d, e)
    BY <2>1, ExecuteGoes
  <2>3. Goes(c, d)
    BY <1>4, <2>1 DEF Goes, Moved
  <2>4. CASE e.queue # <<>>
    <3>1. QueueDone(e) = e
      BY <2>4, QueueDoneSelf
    <3>2. QED
      BY <1>3, <2>2, <2>3, <3>1, GoesChain
  <2>5. CASE e.queue = <<>>
    <3>1. Rests(e)
      BY <2>2, <2>5 DEF Goes, Busy, Configures
    <3> HIDE DEF e
    <3>2. Rests(QueueDone(e)) /\ Kept(e, QueueDone(e))
      BY <2>5, <3>1, QueueDoneRests DEF Rests
    <3>3. Goes(e, QueueDone(e))
      BY <3>2 DEF Goes, Busy, Moved
    <3>4. Goes(c, e)
      BY <2>2, <2>3, GoesChain
    <3>5. QED
      BY <1>3, <3>3, <3>4, GoesChain
  <2>6. QED
    BY <2>4, <2>5
<1>6. CASE Configures(c) /\ d.queue = <<>>
  <2>1. d.last_status \in Ongoing /\ d.remote_comp /\ d.state = "CONFIGURATION" /\ Held(d)
    BY <1>2, <1>4, <1>6 DEF Configures, Kept
  <2>2. /\ Moved(d, e) /\ Held(e) /\ Settled(e) /\ e.state = "CONFIGURATION" /\ e.queue = <<>>
    BY <1>6, <2>1, ExecuteEnds
  <2> HIDE DEF e
  <2>3. Rests(QueueDone(e)) /\ Kept(e, QueueDone(e))
    BY <2>2, QueueDoneRests
  <2>4. Moved(c, QueueDone(e))
    BY <1>1, <1>4, <2>1, <2>2, <2>3, MovedChain DEF Moved
  <2>5. QED
    BY <1>3, <2>3, <2>4 DEF Goes, Busy
<1>7. QED
  BY <1>5, <1>6 DEF Busy

-----------------------------------------------------------------------------
(* The handlers of a configuration, and those of a client that rests. *)

LEMMA FailEnds ==
    ASSUME NEW c, Held(c)
    PROVE  Goes(c, Fail(c)) /\ Rests(Fail(c))
<1> DEFINE idle  == [c EXCEPT !.state = "IDLE"]
           clean == CleanAll(idle)
           f     == NotifyStatus(clean, "FAILED")
<1>1. Good(c)
  BY DEF Held
<1>2. Aside(c, idle) /\ idle.state = "IDLE"
  BY <1>1, StateAside
<1>3. Fail(c) = f
  BY DEF Fail
<1> HIDE DEF idle
<1>4. Kept(c, idle) /\ Good(idle)
  BY <1>2, KeptAside DEF Kept, Held
<1>5. Aside(idle, clean) /\ clean.state = "IDLE"
  BY <1>2, <1>4, QueueAside, OpsEmpty DEF CleanAll
<1> HIDE DEF clean
<1>6. Kept(c, clean) /\ Held(clean)
  BY <1>4, <1>5, KeptAside, KeptChain DEF Kept
<1>7. Moved(clean, f) /\ Held(f) /\ Settled(f) /\ f.state \in {clean.state, "KEY_REFRESH"}
  BY <1>6, NotifyFailedMoves
<1> HIDE DEF f
<1>8. Moved(c, f) /\ f.state \notin Active
  BY <1>5, <1>6, <1>7, MovedChain DEF Moved, Active, Opening, Joining
<1>9. QED
  BY <1>3, <1>7, <1>8, EndsRest

LEMMA EnqueueRests ==
    ASSUME NEW c, Rests(c), NEW ops, Ops(ops)
    PROVE  Rests(Enqueue(c, ops)) /\ Goes(c, Enqueue(c, ops))
<1>1. Good(c)
  BY DEF Rests, Held
<1>2. Aside(c, Enqueue(c, ops)) /\ Enqueue(c, ops).state = c.state
  BY <1>1, EnqueueAside
<1>3. QED
  BY <1>2, RestsAside

LEMMA CleanRests ==
    ASSUME NEW c, Rests(c), NEW a
    PROVE  Rests(Clean(c, a)) /\ Goes(c, Clean(c, a))
<1>1. Good(c)
  BY DEF Rests, Held
<1>2. QED
  BY <1>1, CleanAside, RestsAside

LEMMA StateRests ==
    ASSUME NEW c, Rests(c), NEW s, s \notin Active
    PROVE  Rests([c EXCEPT !.state = s]) /\ Goes(c, [c EXCEPT !.state = s])
<1>1. Good(c)
  BY DEF Rests, Held
<1>2. QED
  BY <1>1, StateAside, RestsAside

LEMMA ConnectProxyRests ==
    ASSUME NEW c, Rests(c), NEW by
    PROVE  Rests(ConnectProxy(c, by)) /\ Goes(c, ConnectProxy(c, by))
<1>1. Good(c)
  BY DEF Rests, Held
<1>2. QED
  BY <1>1, ConnectProxyAside, RestsAside

LEMMA ProxyDisconnectRests ==
    ASSUME NEW c, Rests(c)
    PROVE  Rests(ProxyDisconnect(c)) /\ Goes(c, ProxyDisconnect(c))
<1>1. Good(c)
  BY DEF Rests, Held
<1>2. QED
  BY <1>1, ProxyDisconnectAside, RestsAside

\* A client that rests cannot begin to configure.
LEMMA RestsGoes ==
    ASSUME NEW c, Rests(c), NEW d, Goes(c, d)
    PROVE  Rests(d) /\ Kept(c, d)
<1>1. Kept(c, d)
  BY SettledKeeps DEF Rests, Goes
<1>2. QED
  BY <1>1 DEF Goes, Busy, Configures, Rests, Kept, Held

LEMMA AddFilterGoes ==
    ASSUME NEW c, Rests(c)
    PROVE  Goes(c, AddFilter(c))
<1> DEFINE d == Enqueue(c, <<FilterAdd>>)
<1>1. Rests(d) /\ Goes(c, d)
  BY EnqueueRests, OpsOne DEF FilterAdd, OpKinds
<1>2. AddFilter(c) = Execute(d)
  BY DEF AddFilter
<1> HIDE DEF d
<1>3. QED
  BY <1>1, <1>2, ExecuteGoes, GoesChain DEF Busy

LEMMA ContinueRefreshGoes ==
    ASSUME NEW c, Rests(c)
    PROVE  Rests(ContinueRefresh(c)) /\ Goes(c, ContinueRefresh(c))
<1> DEFINE d == Enqueue(c, <<Msg("REFRESH", Local)>>)
<1>1. Rests(d) /\ Goes(c, d)
  BY EnqueueRests, OpsOne DEF OpKinds
<1>2. ContinueRefresh(c) = [d EXCEPT !.state = "KEY_REFRESH"]
  BY DEF ContinueRefresh
<1> HIDE DEF d
<1>3. Rests([d EXCEPT !.state = "KEY_REFRESH"]) /\ Goes(d, [d EXCEPT !.state = "KEY_REFRESH"])
  BY <1>1, StateRests DEF Active, Opening, Joining
<1>4. QED
  BY <1>1, <1>2, <1>3, GoesChain DEF Busy

LEMMA KeyStatusGoes ==
    ASSUME NEW c, Busy(c), NEW r
    PROVE  Goes(c, KeyStatus(c, r))
<1>1. Held(c) /\ Good(c)
  BY BusyHolds
<1> DEFINE next      == StartNextOp(c)
           continued == IF next.queue = <<>> THEN ContinueRefresh(next) ELSE next
           idle      == [c EXCEPT !.state = "IDLE"]
           clean     == Clean(idle, r.src)
           f         == NotifyStatus(clean, "FAILED")
<1>2. KeyStatus(c, r) \in {Execute(continued), c, f, next}
  BY DEF KeyStatus
<1>3. Goes(c, next)
  BY StartNextOpGoes
<1>4. Goes(c, f)
  <2>1. Aside(c, idle) /\ idle.state = "IDLE"
    BY <1>1, StateAside
  <2> HIDE DEF idle
  <2>2. Kept(c, idle) /\ Good(idle)
    BY <1>1, <2>1, KeptAside DEF Kept, Held
  <2>3. Aside(idle, clean) /\ clean.state = "IDLE"
    BY <2>1, <2>2, CleanAside
  <2> HIDE DEF clean
  <2>4. Kept(c, clean) /\ Held(clean)
    BY <2>2, <2>3, KeptAside, KeptChain DEF Kept
  <2>5. Moved(clean, f) /\ Held(f) /\ Settled(f) /\ f.state \in {clean.state, "KEY_REFRESH"}
    BY <2>4, NotifyFailedMoves
  <2> HIDE DEF f
  <2>6. Moved(c, f) /\ f.state \notin Active
    BY <1>1, <2>3, <2>4, <2>5, MovedChain DEF Moved, Active, Opening, Joining
  <2>7. QED
    BY <2>5, <2>6, EndsRest
<1> HIDE DEF next, f
<1>5. Goes(c, continued)
  <2>1. CASE next.queue = <<>>
    <3>1. Rests(next)
      BY <1>3, <2>1 DEF Goes, Busy, Configures
    <3>2. QED
      BY <1>3, <2>1, <3>1, ContinueRefreshGoes, GoesChain
  <2>2. CASE next.queue # <<>>
    BY <1>3, <2>2
  <2>3. QED
    BY <2>1, <2>2
<1> HIDE DEF continued
<1>6. Goes(c, Execute(continued))
  BY <1>5, ExecuteGoes, GoesChain DEF Goes
<1>7. QED
  BY <1>2, <1>3, <1>4, <1>6, GoesSelf

LEMMA BindStatusGoes ==
    ASSUME NEW c, Busy(c), NEW r, r.ok
    PROVE  Goes(c, BindStatus(c, r))
BY StartNextOpGoes, GoesSelf DEF BindStatus

LEMMA ConfigStatusGoes ==
    ASSUME NEW c, Busy(c), NEW r, r.kind = "BIND" => r.ok
    PROVE  Goes(c, ConfigStatus(c, r))
<1>1. Goes(c, SetStatus(c, r)) /\ Goes(c, c) /\ Goes(c, KeyStatus(c, r))
  BY StartNextOpGoes, GoesSelf, KeyStatusGoes DEF SetStatus
<1>2. QED
  BY <1>1, BindStatusGoes DEF ConfigStatus

LEMMA FilterStatusGoes ==
    ASSUME NEW c, Busy(c), NEW r
    PROVE  Goes(c, FilterStatus(c, r))
<1> DEFINE next == StartNextOp(c)
           d    == [next EXCEPT !.proxy_addr = r.src, !.over_gatt = TRUE]
<1>1. Goes(c, next)
  BY StartNextOpGoes
<1>2. FilterStatus(c, r) \in {c, d}
  BY DEF FilterStatus
<1> HIDE DEF next
<1>3. Good(next) /\ Busy(next)
  BY <1>1, BusyHolds DEF Goes
<1>4. Apart(next, d)
  BY <1>3 DEF Good, IsClient, Apart, Aside, Beside, Connected
<1> HIDE DEF d
<1>5. QED
  BY <1>1, <1>2, <1>3, <1>4, GoesApart, GoesChain, GoesSelf

LEMMA CountAnewGoes ==
    ASSUME NEW c, Busy(c)
    PROVE  Goes(c, CountAnew(c))
<1> DEFINE d == [c EXCEPT !.retries = 0]
<1>1. Good(c)
  BY BusyHolds
<1>2. Apart(c, d)
  BY <1>1 DEF Good, IsClient, Apart, Aside, Beside, Connected
<1>3. QED
  BY <1>2, GoesApart, GoesSelf DEF CountAnew

LEMMA NetworkConnectedGoes ==
    ASSUME NEW c, Rests(c), NEW r
    PROVE  Goes(c, NetworkConnected(c, r))
<1> DEFINE q      == IF HeadIsFilter(c) THEN Tail(c.queue) ELSE c.queue
           idle   == [c EXCEPT !.state = "IDLE",
                               !.queue = IF HeadIsFilter(c) THEN Tail(@) ELSE @]
           reset  == IF \E n \in NodesAt(c, r.src) : n.blocked
                     THEN Enqueue(idle, <<Msg("NODE_RESET", r.src)>>) ELSE idle
           resume == IF c.refresh THEN ContinueRefresh(reset) ELSE reset
<1>1. NetworkConnected(c, r) \in {Execute(resume), resume}
  BY DEF NetworkConnected
<1>2. Rests(idle) /\ Goes(c, idle)
  <2>1. Good(c)
    BY DEF Rests, Held
  <2>2. Ops(q)
    BY <2>1, OpsTail DEF HeadIsFilter, HeadIs, Good, IsClient
  <2>3. idle = [c EXCEPT !.state = "IDLE", !.queue = q]
    BY <2>1 DEF Good, IsClient
  <2> HIDE DEF q, idle
  <2>4. Aside(c, idle) /\ idle.state = "IDLE"
    BY <2>1, <2>2, <2>3 DEF Good, IsClient, Aside, Beside, Connected
  <2>5. QED
    BY <2>4, RestsAside DEF Active, Opening, Joining
<1> HIDE DEF idle
<1>3. Rests(reset) /\ Goes(c, reset)
  <2>1. Ops(<<Msg("NODE_RESET", r.src)>>)
    BY OpsOne DEF OpKinds
  <2>2. QED
    BY <1>2, <2>1, EnqueueRests, GoesChain DEF Busy
<1> HIDE DEF reset
<1>4. Rests(resume) /\ Goes(c, resume)
  BY <1>3, ContinueRefreshGoes, GoesChain DEF Busy
<1> HIDE DEF resume
<1>5. QED
  BY <1>1, <1>4, ExecuteGoes, GoesChain DEF Busy

LEMMA IdentityStatusGoes ==
    ASSUME NEW c, Rests(c)
    PROVE  Goes(c, IdentityStatus(c))
<1> DEFINE waiting == [c EXCEPT !.state = "WAIT_DISCONNECT"]
<1>1. Rests(waiting) /\ Goes(c, waiting)
  BY StateRests DEF Active, Opening, Joining
<1>2. IdentityStatus(c) = ProxyDisconnect(waiting)
  BY DEF IdentityStatus
<1> HIDE DEF waiting
<1>3. QED
  BY <1>1, <1>2, ProxyDisconnectRests, GoesChain DEF Busy

LEMMA ReconfigUnreachableGoes ==
    ASSUME NEW c, Rests(c), NEW m
    PROVE  Goes(c, ReconfigUnreachable(c, m))
<1> DEFINE rest == Clean(c, m.dst)
           idle == [rest EXCEPT !.state = "IDLE"]
<1>1. Rests(rest) /\ Goes(c, rest)
  BY CleanRests
<1>2. ReconfigUnreachable(c, m) \in {Execute(rest), idle}
  BY DEF ReconfigUnreachable
<1> HIDE DEF rest
<1>3. Goes(rest, idle) /\ Goes(rest, Execute(rest))
  BY <1>1, StateRests, ExecuteGoes DEF Busy, Active, Opening, Joining
<1> HIDE DEF idle
<1>4. QED
  BY <1>1, <1>2, <1>3, GoesChain DEF Busy

-----------------------------------------------------------------------------
(***************************************************************************)
(* The end of a refresh: the nodes that are to be removed are.             *)
(***************************************************************************)
Removed(c, d) ==
    /\ Rests(d)
    /\ \A x \in Devices :
          /\ d.told[x] = c.told[x]
          /\ StageIn(d.db, x) = IF StageIn(c.db, x) = "revoked" THEN "out" ELSE StageIn(c.db, x)

Shrinks(c, d) == Rests(d) /\ (Kept(c, d) \/ Removed(c, d))

LEMMA ShrinksChain ==
    ASSUME NEW c, NEW d, NEW e, Rests(c), Goes(c, d), Shrinks(d, e)
    PROVE  Shrinks(c, e)
<1>1. Rests(d) /\ Kept(c, d)
  BY RestsGoes
<1>2. CASE Kept(d, e)
  BY <1>1, <1>2, KeptChain DEF Shrinks
<1>3. CASE Removed(d, e)
  BY <1>1, <1>3 DEF Shrinks, Removed, Kept, Same
<1>4. QED
  BY <1>2, <1>3 DEF Shrinks

LEMMA RestsShrinks ==
    ASSUME NEW c, Rests(c), NEW d, Goes(c, d)
    PROVE  Shrinks(c, d)
BY RestsGoes DEF Shrinks

LEMMA RefreshDoneShrinks ==
    ASSUME NEW c, Rests(c), NEW finished
    PROVE  Shrinks(c, RefreshDone(c, finished))
<1> DEFINE kept == IF finished THEN {r \in c.db : ~ r.blocked} ELSE c.db
           d    == [c EXCEPT !.state   = "IDLE",
                             !.refresh = @ /\ ~ finished,
                             !.db      = IF finished THEN {r \in @ : ~ r.blocked} ELSE @]
<1>1. RefreshDone(c, finished) \in {c, d}
  BY DEF RefreshDone
<1>2. Held(c) /\ Good(c) /\ Settled(c) /\ c.last_status \notin Ongoing
  BY DEF Rests, Held
<1>3. /\ IsClient(d) /\ d.db = kept /\ d.state = "IDLE" /\ d.uuid = c.uuid /\ d.told = c.told
      /\ d.completed_sent = c.completed_sent /\ d.last_status = c.last_status
  BY <1>2 DEF Good, IsClient
<1>4. DbOK(kept) /\ kept \subseteq c.db
  BY <1>2, SubsetOK DEF Good
<1>5. \A x : finished => StageIn(kept, x) = IF StageIn(c.db, x) = "revoked" THEN "out"
                                            ELSE StageIn(c.db, x)
  BY <1>2, RemovedStage DEF Good
<1>6. ~ finished => kept = c.db
  OBVIOUS
<1> HIDE DEF kept, d
<1>7. Held(d) /\ Settled(d)
  BY <1>2, <1>3, <1>4 DEF Held, Good, Settled
<1>8. Rests(d)
  BY <1>3, <1>7 DEF Rests, Active, Opening, Joining
<1>9. CASE finished
  BY <1>1, <1>3, <1>5, <1>8, <1>9, KeptSelf, <1>2 DEF Shrinks, Removed
<1>10. CASE ~ finished
  <2>1. Kept(c, d)
    BY <1>2, <1>3, <1>6, <1>7, <1>10 DEF Kept, Same
  <2>2. QED
    BY <1>1, <1>2, <1>8, <2>1, KeptSelf DEF Shrinks
<1>11. QED
  BY <1>9, <1>10

LEMMA RefreshStatusShrinks ==
    ASSUME NEW c, Rests(c), NEW r, NEW finished
    PROVE  Shrinks(c, RefreshStatus(c, r, finished))
<1> DEFINE next == IF HeadIsFilter(c) THEN StartNextOp(c) ELSE c
           done == Execute(next)
           one  == StartNextOp(c)
<1>1. RefreshStatus(c, r, finished) \in {RefreshDone(done, finished), RefreshDone(one, finished), c}
  BY DEF RefreshStatus
<1>2. Goes(c, one) /\ Goes(c, next) /\ Goes(c, c)
  BY StartNextOpGoes, GoesSelf DEF Busy
<1> HIDE DEF next, one
<1>3. Goes(c, done)
  <2>1. Busy(c) /\ Busy(next)
    BY <1>2 DEF Goes, Busy
  <2>2. QED
    BY <1>2, <2>1, ExecuteGoes, GoesChain
<1> HIDE DEF done
<1>4. Rests(done) /\ Rests(one)
  BY <1>2, <1>3, RestsGoes
<1>5. Shrinks(c, RefreshDone(done, finished)) /\ Shrinks(c, RefreshDone(one, finished))
  BY <1>2, <1>3, <1>4, RefreshDoneShrinks, ShrinksChain
<1>6. QED
  BY <1>1, <1>2, <1>5, RestsShrinks

LEMMA RefreshTxFailedShrinks ==
    ASSUME NEW c, Rests(c), NEW m, NEW finished
    PROVE  Shrinks(c, RefreshTxFailed(c, m, finished))
<1> DEFINE rest == Clean(c, m.dst)
<1>1. RefreshTxFailed(c, m, finished) \in {c, Execute(rest), RefreshDone(rest, finished)}
  BY DEF RefreshTxFailed
<1>2. Rests(rest) /\ Goes(c, rest)
  BY CleanRests
<1> HIDE DEF rest
<1>3. Goes(rest, Execute(rest)) /\ Goes(c, c)
  BY <1>2, ExecuteGoes, GoesSelf DEF Busy
<1>4. Shrinks(rest, Execute(rest)) /\ Shrinks(rest, RefreshDone(rest, finished)) /\ Shrinks(c, c)
  BY <1>2, <1>3, RestsShrinks, RefreshDoneShrinks
<1>5. QED
  BY <1>1, <1>2, <1>4, ShrinksChain

LEMMA RefreshLinkGoes ==
    ASSUME NEW c, Rests(c), NEW up
    PROVE  Goes(c, RefreshLink(c, up))
<1> DEFINE again == [c EXCEPT !.retries = @ + 1]
           idle  == [again EXCEPT !.state = "IDLE"]
<1>1. RefreshLink(c, up) \in {AddFilter(c), ConnectProxy(again, "net"), idle}
  BY DEF RefreshLink
<1>2. Good(c)
  BY DEF Rests, Held
<1>3. Aside(c, again) /\ again.state = c.state
  BY <1>2 DEF Good, IsClient, Aside, Beside, Connected
<1> HIDE DEF again
<1>4. Rests(again) /\ Goes(c, again)
  BY <1>3, RestsAside
<1>5. Goes(again, idle) /\ Goes(again, ConnectProxy(again, "net"))
  BY <1>4, StateRests, ConnectProxyRests DEF Active, Opening, Joining
<1> HIDE DEF idle
<1>6. QED
  BY <1>1, <1>4, <1>5, AddFilterGoes, GoesChain DEF Busy

\* The connection while a node is configured: the next attempt, or the end.
LEMMA ConnectProxyApart ==
    ASSUME NEW c, Good(c), NEW by
    PROVE  Apart(c, ConnectProxy(c, by))
<1>1. ConnectProxy(c, by).queue = c.queue /\ ConnectProxy(c, by).remote_comp = c.remote_comp
  BY DEF ConnectProxy, Good, IsClient
<1>2. QED
  BY <1>1, ConnectProxyAside DEF Apart

LEMMA ConfigLinkGoes ==
    ASSUME NEW c, Busy(c), NEW up
    PROVE  Goes(c, ConfigLink(c, up))
<1> DEFINE one == [c EXCEPT !.retries = @ + 1]
           two == [c EXCEPT !.retries = @ + 2]
<1>1. ConfigLink(c, up) \in
        {Execute(c), ConnectProxy(one, "node"), ConnectProxy(two, "net"), Fail(two)}
  BY DEF ConfigLink
<1>2. Good(c)
  BY BusyHolds
<1>3. Apart(c, one) /\ Apart(c, two)
  BY <1>2 DEF Good, IsClient, Apart, Aside, Beside, Connected
<1> HIDE DEF one, two
<1>4. Goes(c, one) /\ Goes(c, two) /\ Busy(one) /\ Busy(two)
  BY <1>3, GoesApart DEF Goes
<1>5. Good(one) /\ Good(two) /\ Held(two)
  BY <1>4, BusyHolds
<1>6. Goes(one, ConnectProxy(one, "node")) /\ Goes(two, ConnectProxy(two, "net"))
  BY <1>4, <1>5, ConnectProxyApart, GoesApart
<1>7. Goes(two, Fail(two))
  BY <1>5, FailEnds
<1>8. QED
  BY <1>1, <1>4, <1>6, <1>7, ExecuteGoes, GoesChain

-----------------------------------------------------------------------------
(***************************************************************************)
(* A node that was created is connected to, and its composition data read.  *)
(***************************************************************************)
Advances(c, d) == Moved(c, d) /\ (Joins(d) \/ Busy(d))

LEMMA JoinsKept ==
    ASSUME NEW c, Joins(c), NEW d, Kept(c, d), d.state \in Joining, d.queue = c.queue
    PROVE  Joins(d) /\ Advances(c, d)
BY DEF Joins, Kept, Advances, Moved

LEMMA ConnectingEnds ==
    ASSUME NEW c, Held(c), NEW d,
           d = NotifyStatus([c EXCEPT !.retries = 0, !.state = "IDLE"], "FAILED")
    PROVE  Moved(c, d) /\ Rests(d)
<1> DEFINE idle == [c EXCEPT !.retries = 0, !.state = "IDLE"]
<1>1. Aside(c, idle) /\ idle.state = "IDLE"
  BY DEF Held, Good, IsClient, Aside, Beside, Connected
<1> HIDE DEF idle
<1>2. Kept(c, idle) /\ Held(idle)
  BY <1>1, KeptAside DEF Kept
<1>3. Moved(idle, d) /\ Held(d) /\ Settled(d) /\ d.state \in {"IDLE", "KEY_REFRESH"}
  BY <1>1, <1>2, NotifyFailedMoves DEF idle
<1>4. Moved(c, d)
  BY <1>2, <1>3, MovedChain DEF Moved
<1>5. QED
  BY <1>3, <1>4, EndsRest DEF Active, Opening, Joining

LEMMA NodeConnectingAdvances ==
    ASSUME NEW c, Joins(c), c.state = "NODE_CONNECTING", NEW up
    PROVE  Advances(c, NodeConnecting(c, up))
<1> DEFINE first == [c EXCEPT !.retries = 1]
           more  == [c EXCEPT !.retries = @ + 1]
           get   == [c EXCEPT !.state = "GET_REMOTE_COMPOSITION_DATA"]
           fail  == NotifyStatus([c EXCEPT !.retries = 0, !.state = "IDLE"], "FAILED")
<1>1. NodeConnecting(c, up) \in
        {get, ConnectProxy(first, "node"), ConnectProxy(more, "net"), fail}
  BY DEF NodeConnecting
<1>2. Held(c) /\ Good(c)
  BY DEF Joins, Held
<1>3. /\ Apart(c, first) /\ Apart(c, more)
      /\ Aside(c, get) /\ get.state = "GET_REMOTE_COMPOSITION_DATA" /\ get.queue = c.queue
  BY <1>2 DEF Good, IsClient, Apart, Aside, Beside, Connected
<1>4. Advances(c, fail)
  BY <1>2, ConnectingEnds DEF Advances, Busy
<1> HIDE DEF first, more, get, fail
<1>5. Kept(c, first) /\ Kept(c, more) /\ Kept(c, get)
  BY <1>2, <1>3, KeptAside DEF Apart
<1>6. Good(first) /\ Good(more)
  BY <1>5 DEF Kept, Held
<1>7. Apart(first, ConnectProxy(first, "node")) /\ Apart(more, ConnectProxy(more, "net"))
  BY <1>6, ConnectProxyApart
<1>8. Kept(c, ConnectProxy(first, "node")) /\ Kept(c, ConnectProxy(more, "net"))
  BY <1>5, <1>7, KeptAside, KeptChain DEF Apart, Kept
<1>9. /\ Advances(c, get) /\ Advances(c, ConnectProxy(first, "node"))
      /\ Advances(c, ConnectProxy(more, "net"))
  BY <1>3, <1>5, <1>7, <1>8, JoinsKept DEF Apart, Joining
<1>10. QED
  BY <1>1, <1>4, <1>9

\* The composition data of the new node comes: its configuration begins.
LEMMA CompositionAdvances ==
    ASSUME NEW c, Joins(c), NEW r, r.src = c.addr
    PROVE  /\ Advances(c, CompositionStatus(c, r))
           /\ CompositionStatus(c, r).state \notin Opening \cup Joining
<1> DEFINE told  == NotifyStatus(c, "CONFIGURING")
           taken == [told EXCEPT !.remote_comp = TRUE]
           conf  == [taken EXCEPT !.state = "CONFIGURATION"]
           ops   == ConfigOps(taken)
           d     == Enqueue(conf, ops)
<1>1. Held(c) /\ Good(c) /\ c.last_status \in Ongoing /\ c.queue = <<>>
  BY DEF Joins, Held
<1>2. CompositionStatus(c, r) = IF NodesAt(told, r.src) = {} THEN NotifyStatus(told, "FAILED")
                                ELSE Execute(d)
  BY DEF CompositionStatus, ConfigureRemote
<1>3. /\ Kept(c, told) /\ told.queue = <<>> /\ told.addr = c.addr
      /\ told.last_status = "CONFIGURING" /\ told.last_status \in Ongoing
  <2>1. "CONFIGURING" \in Ongoing
    BY DEF Ongoing
  <2>2. QED
    BY <1>1, <2>1, NotifyNews
<1> HIDE DEF told
<1>4. Good(told) /\ Held(told) /\ NodesAt(told, r.src) # {}
  BY <1>3, OneFresh DEF Kept, Held
<1>5. Aside(told, taken) /\ taken.queue = <<>> /\ taken.remote_comp = TRUE
  BY <1>3, <1>4 DEF Good, IsClient, Aside, Beside, Connected
<1>6. Ops(ops) /\ ops # <<>>
  BY OpsOfConfiguration
<1> HIDE DEF taken, ops
<1>7. Kept(told, taken) /\ Good(taken) /\ Held(taken)
  <2>1. Kept(told, taken)
    BY <1>4, <1>5, KeptAside
  <2>2. QED
    BY <2>1 DEF Kept, Held
<1>8. Aside(taken, conf) /\ conf.queue = <<>> /\ conf.remote_comp = TRUE
      /\ conf.state = "CONFIGURATION"
  BY <1>5, <1>7 DEF Good, IsClient, Aside, Beside, Connected
<1> HIDE DEF conf
<1>9. Kept(taken, conf) /\ Good(conf) /\ Held(conf)
  <2>1. Kept(taken, conf)
    BY <1>7, <1>8, KeptAside
  <2>2. QED
    BY <2>1 DEF Kept, Held
<1>10. Aside(conf, d) /\ d.state = "CONFIGURATION" /\ d.queue # <<>> /\ d.remote_comp = TRUE
  <2>1. Aside(conf, d) /\ d.state = conf.state
    BY <1>6, <1>9, EnqueueAside
  <2>2. d.queue = conf.queue \o ops /\ d.remote_comp = conf.remote_comp
    BY <1>9 DEF Enqueue, Good, IsClient
  <2>3. conf.queue \o ops # <<>>
    BY <1>6, <1>9, OpsConcat DEF Good, IsClient
  <2>4. QED
    BY <1>8, <2>1, <2>2, <2>3
<1> HIDE DEF d
<1>11. Kept(conf, d)
  BY <1>9, <1>10, KeptAside
<1>12. Kept(c, d)
  BY <1>3, <1>7, <1>9, <1>11, KeptChain
<1>13. Configures(d)
  BY <1>1, <1>10, <1>12 DEF Configures, Kept
<1>14. Apart(d, Execute(d))
  BY <1>13, ExecuteApart DEF Configures, Held
<1>15. Goes(d, Execute(d)) /\ Execute(d).state = "CONFIGURATION"
  BY <1>10, <1>13, <1>14, GoesApart DEF Busy, Apart
<1>16. Advances(c, Execute(d))
  BY <1>1, <1>12, <1>15, MovedChain DEF Advances, Goes, Moved
<1>17. QED
  BY <1>2, <1>4, <1>15, <1>16 DEF Opening, Joining

\* No answer: the connection is closed to be opened again, or the provisioning fails.
LEMMA UnreachableShape ==
    ASSUME NEW c, Good(c), NEW m
    PROVE  /\ Unreachable(c, m) \in {ProxyDisconnect(c), Fail(c)}
           /\ Apart(c, ProxyDisconnect(c))
<1>1. /\ ProxyDisconnect(c).queue = c.queue
      /\ ProxyDisconnect(c).remote_comp = c.remote_comp
  BY DEF ProxyDisconnect, Good, IsClient
<1>2. QED
  BY <1>1, ProxyDisconnectAside DEF Unreachable, Apart

LEMMA UnreachableGoes ==
    ASSUME NEW c, Busy(c), NEW m
    PROVE  Goes(c, Unreachable(c, m))
<1>1. Held(c) /\ Good(c)
  BY BusyHolds
<1>2. Goes(c, ProxyDisconnect(c)) /\ Goes(c, Fail(c))
  BY <1>1, UnreachableShape, GoesApart, FailEnds
<1>3. QED
  BY <1>1, <1>2, UnreachableShape

LEMMA UnreachableAdvances ==
    ASSUME NEW c, Joins(c), NEW m
    PROVE  Advances(c, Unreachable(c, m))
<1>1. Held(c) /\ Good(c)
  BY DEF Joins, Held
<1> DEFINE d == ProxyDisconnect(c)
<1>2. Apart(c, d) /\ Unreachable(c, m) \in {d, Fail(c)}
  BY <1>1, UnreachableShape
<1> HIDE DEF d
<1>3. Kept(c, d)
  BY <1>1, <1>2, KeptAside DEF Apart
<1>4. Advances(c, d)
  BY <1>2, <1>3, JoinsKept DEF Joins, Apart
<1>5. Advances(c, Fail(c))
  BY <1>1, FailEnds DEF Goes, Advances
<1>6. QED
  BY <1>2, <1>4, <1>5

-----------------------------------------------------------------------------
(***************************************************************************)
(* The handlers: a provisioning goes on, comes to its end, or there is none *)
(* and a refresh removes nodes.                                            *)
(***************************************************************************)
Phase(c) == Opens(c) \/ Joins(c) \/ Busy(c)

Steps(c, d) == Phase(d) /\ (Moved(c, d) \/ Removed(c, d))

LEMMA PhaseHolds == ASSUME NEW c, Phase(c) PROVE Held(c) /\ Good(c)
BY BusyHolds DEF Phase, Opens, Joins, Held

LEMMA PhaseApart ==
    ASSUME NEW c, Phase(c), NEW d, Apart(c, d)
    PROVE  Phase(d) /\ Kept(c, d)
<1>1. Kept(c, d)
  BY PhaseHolds, KeptAside DEF Apart
<1>2. QED
  BY <1>1 DEF Phase, Opens, Joins, Busy, Configures, Rests, Kept, Apart

LEMMA StepsChain ==
    ASSUME NEW c, Phase(c), NEW d, Kept(c, d), NEW e, Steps(d, e)
    PROVE  Steps(c, e)
<1>1. CASE Moved(d, e)
  BY <1>1, PhaseHolds, MovedChain DEF Steps, Moved
<1>2. CASE Removed(d, e)
  BY <1>2 DEF Steps, Removed, Kept, Same
<1>3. QED
  BY <1>1, <1>2 DEF Steps

LEMMA GoesSteps == ASSUME NEW c, NEW d, Goes(c, d) PROVE Steps(c, d)
BY DEF Goes, Steps, Phase

LEMMA ShrinksSteps == ASSUME NEW c, NEW d, Shrinks(c, d) PROVE Steps(c, d)
BY DEF Shrinks, Steps, Phase, Busy, Moved

LEMMA AdvancesSteps == ASSUME NEW c, NEW d, Advances(c, d) PROVE Steps(c, d)
BY DEF Advances, Steps, Phase

LEMMA KeptSteps == ASSUME NEW c, NEW d, Phase(d), Kept(c, d) PROVE Steps(c, d)
BY DEF Steps, Moved

\* What a status leaves when nothing waits for it.
Noted(c, r) == IF r.kind = "FILTER_ADD" THEN [c EXCEPT !.proxy_addr = r.src] ELSE c

LEMMA NotedApart ==
    ASSUME NEW c, Good(c), NEW r
    PROVE  /\ Apart(c, Noted(c, r)) /\ Noted(c, r).link = c.link
           /\ Noted(c, r).over_gatt = c.over_gatt
BY DEF Noted, Good, IsClient, Apart, Aside, Beside, Connected

\* While the new node is provisioned and connected to only its composition data matters.
LEMMA StatusWaits ==
    ASSUME NEW c, Good(c), NEW r, NEW finished,
           c.state \in Opening \cup Joining, r.kind # "COMP_GET"
    PROVE  Status(c, r, finished) = Noted(c, r)
BY NotedApart DEF Status, Noted, Apart, Opening, Joining

LEMMA StatusComposition ==
    ASSUME NEW c, Joins(c), NEW r, NEW finished, r.kind = "COMP_GET", r.src = c.addr,
           c.state = "GET_REMOTE_COMPOSITION_DATA"
    PROVE  /\ Steps(c, Status(c, r, finished))
           /\ Status(c, r, finished).state \notin Opening \cup Joining
<1>1. Status(c, r, finished) = CompositionStatus(c, r)
  BY DEF Status
<1>2. QED
  BY <1>1, CompositionAdvances, AdvancesSteps

LEMMA StatusBusy ==
    ASSUME NEW client, Busy(client), NEW r, NEW finished,
           r.kind # "COMP_GET", r.kind = "BIND" => r.ok
    PROVE  /\ Busy(Status(client, r, finished))
           /\ Steps(client, Status(client, r, finished))
<1> DEFINE c    == Noted(client, r)
           d    == Status(client, r, finished)
           idle == [c EXCEPT !.state = "IDLE"]
<1>1. Apart(client, c) /\ Kept(client, c) /\ Busy(c)
  <2>1. Apart(client, c)
    BY BusyHolds, NotedApart
  <2>2. QED
    BY <2>1, BusyHolds, KeptAside, GoesApart DEF Apart, Goes
<1>2. \/ d \in {c, ConfigStatus(c, r), CountAnew(FilterStatus(c, r)), CountAnew(ConfigStatus(c, r))}
      \/ c.state = "NETWORK_CONNECT" /\ d = NetworkConnected(c, r)
      \/ c.state = "WAIT_NODE_IDENTITY" /\ d = IdentityStatus(c)
      \/ c.state = "WAIT_CONNECT" /\ d = idle
      \/ c.state = "KEY_REFRESH" /\ d = RefreshStatus(c, r, finished)
  BY DEF Status, Noted
<1> HIDE DEF c, d
<1>3. /\ Goes(c, c) /\ Goes(c, ConfigStatus(c, r)) /\ Goes(c, FilterStatus(c, r))
  BY <1>1, GoesSelf, ConfigStatusGoes, FilterStatusGoes
<1>4. Goes(c, CountAnew(FilterStatus(c, r))) /\ Goes(c, CountAnew(ConfigStatus(c, r)))
  <2>1. Busy(FilterStatus(c, r)) /\ Busy(ConfigStatus(c, r))
    BY <1>3 DEF Goes
  <2>2. QED
    BY <1>1, <1>3, <2>1, CountAnewGoes, GoesChain
<1>5. c.state \in {"NETWORK_CONNECT", "WAIT_NODE_IDENTITY", "WAIT_CONNECT", "KEY_REFRESH"}
          => Rests(c)
  BY <1>1 DEF Busy, Configures
<1>6. Rests(c) => /\ Goes(c, NetworkConnected(c, r)) /\ Goes(c, IdentityStatus(c)) /\ Goes(c, idle)
                  /\ Shrinks(c, RefreshStatus(c, r, finished))
  BY NetworkConnectedGoes, IdentityStatusGoes, StateRests, RefreshStatusShrinks
     DEF Active, Opening, Joining
<1>7. Goes(c, d) \/ Shrinks(c, d)
  BY <1>2, <1>3, <1>4, <1>5, <1>6
<1>8. Busy(d) /\ Steps(c, d)
  BY <1>7, GoesSteps, ShrinksSteps DEF Goes, Shrinks, Busy
<1>9. QED
  BY <1>1, <1>8, StepsChain DEF Phase, d

LEMMA TxFailedWaits ==
    ASSUME NEW c, c.state \in (Opening \cup Joining) \ {"GET_REMOTE_COMPOSITION_DATA"},
           NEW m, NEW finished
    PROVE  TxFailed(c, m, finished) = c
BY DEF TxFailed, Opening, Joining

LEMMA TxFailedComposition ==
    ASSUME NEW c, Joins(c), c.state = "GET_REMOTE_COMPOSITION_DATA", NEW m, NEW finished
    PROVE  Advances(c, TxFailed(c, m, finished))
<1>1. TxFailed(c, m, finished) = Unreachable(c, m)
  BY DEF TxFailed
<1>2. QED
  BY <1>1, UnreachableAdvances

LEMMA TxFailedBusy ==
    ASSUME NEW c, Busy(c), NEW m, NEW finished
    PROVE  /\ Busy(TxFailed(c, m, finished))
           /\ Steps(c, TxFailed(c, m, finished))
<1> DEFINE d    == TxFailed(c, m, finished)
           idle == [c EXCEPT !.state = "IDLE"]
<1>1. \/ d \in {c, Unreachable(c, m)}
      \/ c.state = "WAIT_NODE_IDENTITY" /\ d = idle
      \/ c.state = "RECONFIGURATION" /\ d = ReconfigUnreachable(c, m)
      \/ c.state = "KEY_REFRESH" /\ d = RefreshTxFailed(c, m, finished)
  BY DEF TxFailed
<1> HIDE DEF d
<1>2. Goes(c, c) /\ Goes(c, Unreachable(c, m))
  BY GoesSelf, UnreachableGoes
<1>3. c.state \in {"WAIT_NODE_IDENTITY", "RECONFIGURATION", "KEY_REFRESH"} => Rests(c)
  BY DEF Busy, Configures
<1>4. Rests(c) => /\ Goes(c, idle) /\ Goes(c, ReconfigUnreachable(c, m))
                  /\ Shrinks(c, RefreshTxFailed(c, m, finished))
  BY StateRests, ReconfigUnreachableGoes, RefreshTxFailedShrinks DEF Active, Opening, Joining
<1>5. Goes(c, d) \/ Shrinks(c, d)
  BY <1>1, <1>2, <1>3, <1>4
<1>6. QED
  BY <1>5, GoesSteps, ShrinksSteps DEF Goes, Shrinks, Busy, d

LEMMA ProxyStatusBusy ==
    ASSUME NEW c, Busy(c), NEW up
    PROVE  Goes(c, ProxyStatus(c, up))
<1> DEFINE d       == ProxyStatus(c, up)
           idle    == [c EXCEPT !.state = "IDLE"]
           wait    == [c EXCEPT !.state = "WAIT_CONNECT"]
           reached == IF up THEN AddFilter(c) ELSE ConnectProxy(c, "node")
           rested  == [reached EXCEPT !.state = "IDLE"]
           again   == ConnectProxy(wait, "node")
<1>1. c.state \notin Opening \cup Joining
  BY DEF Busy, Configures, Rests, Active, Opening, Joining
<1>2. \/ d \in {c, ConfigLink(c, up)}
      \/ c.state \notin Active /\ d \in {idle, AddFilter(c), rested, again, RefreshLink(c, up)}
  BY <1>1 DEF ProxyStatus, Active, Opening, Joining
<1> HIDE DEF d
<1>3. Goes(c, c) /\ Goes(c, ConfigLink(c, up))
  BY GoesSelf, ConfigLinkGoes
<1>4. ASSUME c.state \notin Active
      PROVE  /\ Goes(c, idle) /\ Goes(c, AddFilter(c)) /\ Goes(c, rested) /\ Goes(c, again)
             /\ Goes(c, RefreshLink(c, up))
  <2>1. Rests(c)
    BY <1>4 DEF Busy, Configures, Active
  <2>2. Goes(c, idle) /\ Rests(wait) /\ Goes(c, wait)
    BY <2>1, StateRests DEF Active, Opening, Joining
  <2>3. Goes(c, AddFilter(c)) /\ Goes(c, RefreshLink(c, up)) /\ Goes(c, ConnectProxy(c, "node"))
    BY <2>1, AddFilterGoes, RefreshLinkGoes, ConnectProxyRests
  <2>4. Rests(reached) /\ Goes(c, reached)
    BY <2>1, <2>3, RestsGoes
  <2> HIDE DEF wait, reached
  <2>5. Goes(reached, rested) /\ Goes(wait, again)
    BY <2>2, <2>4, StateRests, ConnectProxyRests DEF Active, Opening, Joining
  <2> HIDE DEF rested, again
  <2>6. QED
    BY <2>2, <2>3, <2>4, <2>5, GoesChain
<1>5. QED
  BY <1>2, <1>3, <1>4 DEF d

LEMMA ProxyStatusJoins ==
    ASSUME NEW c, Joins(c), NEW up
    PROVE  Advances(c, ProxyStatus(c, up))
<1> DEFINE node == [c EXCEPT !.state = "NODE_CONNECTING"]
<1>1. Good(c) /\ Held(c)
  BY DEF Joins, Held
<1>2. Aside(c, node) /\ node.state = "NODE_CONNECTING" /\ node.queue = c.queue
  BY <1>1 DEF Good, IsClient, Aside, Beside, Connected
<1>3. ProxyStatus(c, up) = IF c.state = "PROVISION_DISCONNECTING" THEN c
                           ELSE NodeConnecting(node, up)
  BY DEF ProxyStatus, Joins, Joining
<1> HIDE DEF node
<1>4. Kept(c, node)
  BY <1>1, <1>2, KeptAside
<1>5. Joins(node)
  BY <1>2, <1>4, JoinsKept DEF Joining
<1>6. Advances(node, NodeConnecting(node, up))
  BY <1>2, <1>5, NodeConnectingAdvances
<1>7. Advances(c, NodeConnecting(node, up))
  BY <1>1, <1>4, <1>6, MovedChain DEF Advances, Moved
<1>8. Advances(c, c)
  BY <1>1, KeptSelf DEF Advances, Moved
<1>9. QED
  BY <1>3, <1>7, <1>8

-----------------------------------------------------------------------------
(***************************************************************************)
(* The links: a provisioning link is under way only while a device is       *)
(* provisioned, a started one has an address that is free, and the proxy    *)
(* connection is meanwhile down or on its way there.                        *)
(***************************************************************************)
Linked(c) ==
    /\ c.plink.st \in {"connecting", "open"} => c.state = "CONNECTING"
    /\ c.plink.st = "started" <=> c.state = "PROVISIONING"
    /\ c.state = "PROVISIONING" => c.addr \in Unicast /\ NodesAt(c, c.addr) = {}
    /\ c.state \in Opening => c.link.st \in {"down", "closing"}
    /\ c.plink.st \in {"open", "started"} /\ ~ c.over_gatt => c.link.st = "down"

LEMMA LinkedOut ==
    ASSUME NEW c, Linked(c), c.state \notin Opening, NEW d, d.plink = c.plink,
           d.state \notin Opening
    PROVE  Linked(d)
BY DEF Linked, Opening

LEMMA LinkedEnded ==
    ASSUME NEW d, d.plink.st \notin {"connecting", "open", "started"}, d.state \notin Opening
    PROVE  Linked(d)
BY DEF Linked, Opening

\* Clients that differ in their connections alone.
Alike(c, d) ==
    /\ IsClient(d)
    /\ d.state = c.state /\ d.db = c.db /\ d.uuid = c.uuid /\ d.addr = c.addr
    /\ d.told = c.told /\ d.completed_sent = c.completed_sent
    /\ d.last_status = c.last_status /\ d.queue = c.queue /\ d.remote_comp = c.remote_comp

LEMMA KeptAccount ==
    ASSUME NEW c, Held(c), NEW d, IsClient(d), d.db = c.db, d.uuid = c.uuid, d.told = c.told,
           d.completed_sent = c.completed_sent, d.last_status = c.last_status,
           d.addr = c.addr \/ c.last_status \notin Ongoing
    PROVE  Kept(c, d)
<1>1. Good(d)
  BY GoodLink DEF Held
<1>2. QED
  BY <1>1 DEF Held, Kept, Same, Settled

LEMMA PhaseAlike ==
    ASSUME NEW c, Phase(c), NEW d, Alike(c, d)
    PROVE  Phase(d) /\ Kept(c, d)
<1>1. Kept(c, d)
  BY PhaseHolds, KeptAccount DEF Alike
<1>2. QED
  BY <1>1 DEF Phase, Opens, Joins, Busy, Configures, Rests, Kept, Alike

-----------------------------------------------------------------------------
(* Provisioning. *)

LEMMA ProvisionConnectShape ==
    ASSUME NEW c, Good(c)
    PROVE  LET d == ProvisionConnect(c)
           IN  /\ Alike(c, d) /\ d.over_gatt = c.over_gatt /\ d.plink.st = "connecting"
               /\ d.link = IF Connected(c) THEN c.link ELSE Down
               /\ Connected(c) => Connected(d)
BY DEF ProvisionConnect, Good, IsClient, Alike, Connected, Down

LEMMA ProvisionConnectOpens ==
    ASSUME NEW c, Opens(c), c.state = "CONNECTING", c.link.st # "up"
    PROVE  LET d == ProvisionConnect(c)
           IN  /\ Opens(d) /\ Kept(c, d) /\ Linked(d) /\ d.state = "CONNECTING"
               /\ Connected(c) => Connected(d)
<1> DEFINE d == ProvisionConnect(c)
<1>1. Good(c) /\ Held(c)
  BY DEF Opens, Held
<1>2. /\ Alike(c, d) /\ d.plink.st = "connecting" /\ d.link = IF Connected(c) THEN c.link ELSE Down
      /\ Connected(c) => Connected(d)
  BY <1>1, ProvisionConnectShape
<1> HIDE DEF d
<1>3. Kept(c, d)
  BY <1>1, <1>2, KeptAccount DEF Alike
<1>4. Opens(d)
  BY <1>2, <1>3 DEF Opens, Kept, Alike
<1>5. d.state = "CONNECTING" /\ d.link.st \in {"down", "closing"}
  BY <1>2 DEF Alike, Connected, Down
<1>6. Linked(d)
  BY <1>2, <1>5 DEF Linked
<1>7. QED
  BY <1>2, <1>3, <1>4, <1>5, <1>6 DEF d

LEMMA NotifyOpens ==
    ASSUME NEW c, Opens(c), Linked(c), NEW status \in {"CONNECTING", "PROVISIONING"}
    PROVE  LET d == NotifyStatus(c, status)
           IN  /\ Opens(d) /\ Kept(c, d) /\ Linked(d) /\ d.state = c.state
               /\ Connected(c) => Connected(d)
<1> DEFINE d == NotifyStatus(c, status)
<1>1. Held(c) /\ c.last_status \notin Ongoing /\ status \notin Ongoing
      /\ status \notin {"SUCCESS", "FAILED"}
  BY DEF Opens, Ongoing
<1>2. /\ Kept(c, d) /\ d.state = c.state /\ d.queue = c.queue /\ d.addr = c.addr
      /\ d.link = c.link /\ d.plink = c.plink /\ d.over_gatt = c.over_gatt /\ d.db = c.db
  BY <1>1, NotifyNews
<1> HIDE DEF d
<1>3. Opens(d) /\ Linked(d) /\ (Connected(c) => Connected(d))
  BY <1>2 DEF Opens, Kept, Linked, NodesAt, Connected
<1>4. QED
  BY <1>2, <1>3 DEF d

\* What a handler of the provisioning comes to: still opening, or at rest.
Opened(c, d) ==
    /\ Steps(c, d) /\ Linked(d) /\ d.state \notin Joining
    /\ Connected(c) => Connected(d)

LEMMA OpenedStill ==
    ASSUME NEW c, NEW d, Opens(d), Kept(c, d), Linked(d), Connected(c) => Connected(d)
    PROVE  Opened(c, d)
BY KeptSteps DEF Opened, Phase, Opens, Opening, Joining

LEMMA ProvisionAgainOpened ==
    ASSUME NEW c, Opens(c), c.link.st # "up", c.plink.st = "down"
    PROVE  Opened(c, ProvisionAgain(c))
<1> DEFINE again == [c EXCEPT !.retries = @ + 1, !.state = "CONNECTING"]
           idle  == [c EXCEPT !.retries = @ + 1, !.state = "IDLE"]
           more  == ProvisionConnect(again)
           fail  == NotifyStatus(idle, "FAILED")
<1>1. ProvisionAgain(c) \in {more, fail}
  BY DEF ProvisionAgain
<1>2. Held(c) /\ Good(c)
  BY DEF Opens, Held
<1>3. /\ Aside(c, again) /\ again.state = "CONNECTING" /\ again.link = c.link
      /\ again.queue = c.queue
      /\ Aside(c, idle) /\ idle.state = "IDLE"
  BY <1>2 DEF Good, IsClient, Aside, Beside, Connected
<1> HIDE DEF again, idle
<1>4. Kept(c, again) /\ Kept(c, idle)
  BY <1>2, <1>3, KeptAside
<1>5. Opened(c, more)
  <2>1. Opens(again)
    BY <1>3, <1>4 DEF Opens, Kept, Opening
  <2>2. /\ Opens(more) /\ Kept(again, more) /\ Linked(more)
        /\ Connected(again) => Connected(more)
    BY <1>3, <2>1, ProvisionConnectOpens
  <2> HIDE DEF more
  <2>3. QED
    BY <1>3, <1>4, <2>2, KeptChain, OpenedStill DEF Aside, Beside
<1>6. Opened(c, fail)
  <2>1. Held(idle) /\ Good(idle)
    BY <1>4 DEF Kept, Held
  <2>2. Moved(idle, fail) /\ Held(fail) /\ Settled(fail) /\ fail.state \in {"IDLE", "KEY_REFRESH"}
    BY <1>3, <2>1, NotifyFailedMoves
  <2>3. Calm(idle, fail)
    BY <2>1, CalmNotifyStatus
  <2> HIDE DEF fail
  <2>4. Moved(c, fail) /\ fail.state \notin Active
    BY <1>2, <1>4, <2>2, MovedChain DEF Moved, Active, Opening, Joining
  <2>5. Goes(c, fail)
    BY <2>2, <2>4, EndsRest
  <2>6. fail.plink = c.plink /\ (Connected(c) => Connected(fail))
    BY <1>3, <2>3 DEF Calm, Aside, Beside
  <2>7. Linked(fail)
    BY <2>4, <2>6, LinkedEnded DEF Active
  <2>8. QED
    BY <2>4, <2>5, <2>6, <2>7, GoesSteps DEF Opened, Active
<1>7. QED
  BY <1>1, <1>5, <1>6

\* The capabilities of the device come: it gets an address that is free.
LEMMA DeviceCapsOpened ==
    ASSUME NEW c, Opens(c), Linked(c), c.plink.st = "open"
    PROVE  Opened(c, DeviceCaps(c))
<1> DEFINE a == FreeAddress(c)
           d == [c EXCEPT !.state = "PROVISIONING", !.addr = a,
                          !.plink.st = "started", !.plink.addr = a]
           e == NotifyStatus(d, "PROVISIONING")
<1>1. DeviceCaps(c) = e
  BY DEF DeviceCaps
<1>2. Held(c) /\ Good(c) /\ c.last_status \notin Ongoing
  BY DEF Opens, Held
<1>3. a \in Nat /\ a \in Unicast /\ NodesAt(c, a) = {}
  BY <1>2, FreeAddressIsFree DEF Unicast
<1> HIDE DEF a
<1>4. /\ IsClient(d) /\ d.db = c.db /\ d.uuid = c.uuid /\ d.told = c.told
      /\ d.completed_sent = c.completed_sent /\ d.last_status = c.last_status
      /\ d.queue = c.queue /\ d.state = "PROVISIONING" /\ d.addr = a /\ d.plink.st = "started"
      /\ d.link = c.link /\ d.over_gatt = c.over_gatt
  BY <1>2, <1>3 DEF Good, IsClient
<1> HIDE DEF d
<1>5. Kept(c, d)
  BY <1>2, <1>4, KeptAccount
<1>6. Opens(d)
  BY <1>4, <1>5 DEF Opens, Kept, Opening
<1>7. c.link.st \in {"down", "closing"} /\ (~ c.over_gatt => c.link.st = "down")
  BY DEF Opens, Linked
<1>8. NodesAt(d, d.addr) = {}
  BY <1>3, <1>4 DEF NodesAt
<1>9. Linked(d)
  BY <1>3, <1>4, <1>7, <1>8 DEF Linked
<1>10. /\ Opens(e) /\ Kept(d, e) /\ Linked(e) /\ (Connected(d) => Connected(e))
  BY <1>6, <1>9, NotifyOpens
<1> HIDE DEF e
<1>11. Kept(c, e) /\ (Connected(c) => Connected(e))
  BY <1>4, <1>5, <1>10, KeptChain DEF Connected
<1>12. QED
  BY <1>1, <1>10, <1>11, OpenedStill

\* The provisioning of x begins.
Started(c, d, x) ==
    /\ Opens(d)
    /\ \A y \in Devices :
          /\ StageIn(d.db, y) = StageIn(c.db, y)
          /\ d.told[y] = IF y = x THEN "pending" ELSE c.told[y]

LEMMA ProvisionStartOpens ==
    ASSUME NEW c, Rests(c), Linked(c), NEW x \in Devices
    PROVE  LET d == ProvisionStart(c, x)
           IN  /\ Started(c, d, x) /\ Linked(d) /\ d.state \in Opening
               /\ Connected(c) => Connected(d)
<1> DEFINE clean == CleanAll(c)
           start == [clean EXCEPT
                        !.uuid = x, !.completed_sent = FALSE, !.remote_comp = FALSE,
                        !.state = "CONNECTING", !.over_gatt = FALSE, !.retries = 0,
                        !.told[x] = "pending"]
           off   == ProxyDisconnect(start)
           more  == ProvisionConnect(start)
           told  == NotifyStatus(more, "CONNECTING")
           d     == ProvisionStart(c, x)
<1>1. d = IF Connected(c) THEN off ELSE told
  <2>1. Connected(clean) = Connected(c)
    BY DEF CleanAll, Connected, Rests, Held, Good, IsClient
  <2>2. QED
    BY DEF ProvisionStart
<1>2. Held(c) /\ Good(c) /\ Settled(c) /\ c.last_status \notin Ongoing
  BY DEF Rests, Held
<1>3. c.plink.st \notin {"connecting", "open", "started"}
  BY DEF Rests, Linked, Active, Opening
<1>4. /\ Aside(c, clean) /\ clean.queue = <<>> /\ clean.link = c.link
  <2>1. Aside(c, clean)
    BY <1>2, QueueAside, OpsEmpty DEF CleanAll
  <2>2. QED
    BY <1>2, <2>1 DEF CleanAll, Good, IsClient
<1> HIDE DEF clean
<1>5. /\ IsClient(start) /\ start.db = c.db /\ start.uuid = x /\ start.completed_sent = FALSE
      /\ start.told = [c.told EXCEPT ![x] = "pending"] /\ start.state = "CONNECTING"
      /\ start.queue = <<>> /\ start.last_status = c.last_status
      /\ start.link = c.link /\ start.plink = c.plink
  BY <1>4 DEF Aside, Beside, IsClient
<1> HIDE DEF start
<1>6. /\ start.told = [y \in Devices \cup {NoDevice} |-> start.told[y]]
      /\ \A y \in Devices : start.told[y] = IF y = x THEN "pending" ELSE c.told[y]
      /\ \A y \in Devices : start.told[y] = "pending" <=> y = x
  <2>1. \A y \in Devices : c.told[y] # "pending"
    BY <1>2, ProvisioningAssumption DEF Settled, Held
  <2>2. c.told = [y \in Devices \cup {NoDevice} |-> c.told[y]]
    BY <1>2 DEF Held
  <2>3. QED
    BY <1>5, <2>1, <2>2
<1>7. Held(start) /\ ~ Settled(start)
  <2>1. x # NoDevice
    BY ProvisioningAssumption
  <2>2. Good(start)
    BY <1>2, <1>5, GoodLink
  <2>3. \A r \in start.db : r.complete \/ r.blocked
    BY <1>2, <1>5 DEF Held
  <2>4. QED
    BY <1>2, <1>5, <1>6, <2>1, <2>2, <2>3 DEF Held, Settled
<1>8. Started(c, start, x)
  BY <1>2, <1>5, <1>6, <1>7 DEF Started, Opens, Opening
<1>9. \A e : Opens(e) /\ Kept(start, e) => Started(c, e, x)
  BY <1>8 DEF Started, Kept, Same
<1>10. CASE Connected(c)
  <2>1. /\ Aside(start, off) /\ off.state = "CONNECTING" /\ off.queue = <<>>
        /\ off.link.st = "closing" /\ off.plink = c.plink
    BY <1>5, <1>10 DEF Aside, Beside, ProxyDisconnect, IsClient, Connected
  <2> HIDE DEF off, told, d
  <2>2. Kept(start, off)
    BY <1>7, <2>1, KeptAside
  <2>3. Opens(off)
    BY <1>2, <1>5, <1>7, <2>1, <2>2 DEF Opens, Kept, Opening
  <2>4. Linked(off)
    BY <1>3, <2>1 DEF Linked
  <2>5. off.state \in Opening /\ Connected(off)
    BY <2>1 DEF Opening, Connected
  <2>6. QED
    BY <1>1, <1>9, <1>10, <2>2, <2>3, <2>4, <2>5 DEF d
<1>11. CASE ~ Connected(c)
  <2>1. start.link.st # "up" /\ Opens(start)
    BY <1>5, <1>8, <1>11 DEF Connected, Started
  <2>2. Opens(more) /\ Kept(start, more) /\ Linked(more)
    BY <1>5, <2>1, ProvisionConnectOpens
  <2> HIDE DEF off, more, d
  <2>3. Opens(told) /\ Kept(more, told) /\ Linked(told)
    BY <2>2, NotifyOpens
  <2> HIDE DEF told
  <2>4. Kept(start, told) /\ told.state \in Opening
    BY <2>2, <2>3, KeptChain DEF Opens
  <2>5. QED
    BY <1>1, <1>9, <1>11, <2>3, <2>4 DEF d
<1>12. QED
  BY <1>10, <1>11

\* The node is created: from now on it is connected to and configured, or removed.
Joined(c, d) ==
    /\ Joins(d) /\ ~ Settled(c) /\ c.uuid \in Devices
    /\ \A x \in Devices :
          /\ d.told[x] = c.told[x]
          /\ StageIn(d.db, x) = IF x = c.uuid THEN "fresh" ELSE StageIn(c.db, x)

\* The record of the node and PROVISION_STATUS_END.
LEMMA CreatedHolds ==
    ASSUME NEW c, Opens(c), c.addr \in Unicast, NodesAt(c, c.addr) = {}
    PROVE  LET created == [c EXCEPT !.db =
                             {r \in @ : r.uuid # c.uuid} \cup {Record(c.uuid, c.addr)}]
               d       == NotifyStatus(created, "END")
           IN  /\ Held(d) /\ d.last_status \in Ongoing /\ d.queue = <<>> /\ ~ Settled(c)
               /\ d.plink = c.plink /\ d.link = c.link /\ d.over_gatt = c.over_gatt
               /\ c.uuid \in Devices /\ d.addr = c.addr
               /\ \A x \in Devices :
                     /\ d.told[x] = c.told[x]
                     /\ StageIn(d.db, x) = IF x = c.uuid THEN "fresh" ELSE StageIn(c.db, x)
<1> DEFINE r       == Record(c.uuid, c.addr)
           db      == {s \in c.db : s.uuid # c.uuid} \cup {r}
           created == [c EXCEPT !.db = {s \in @ : s.uuid # c.uuid} \cup {Record(c.uuid, c.addr)}]
           d       == NotifyStatus(created, "END")
<1>1. Held(c) /\ Good(c) /\ ~ Settled(c) /\ c.last_status \notin Ongoing /\ c.queue = <<>>
  BY DEF Opens, Held
<1>2. c.uuid \in Devices /\ c.completed_sent = FALSE
  BY <1>1 DEF Held, Good, IsClient, Settled
<1>3. DbOK(db)
  BY <1>1, CreatedOK DEF Good, IsClient, NodesAt
<1>4. \A x : StageIn(db, x) = IF x = c.uuid THEN "fresh" ELSE StageIn(c.db, x)
  BY <1>1, <1>3, CreatedStage DEF Good
<1>5. r \in db /\ \A s \in db : s.complete \/ s.blocked \/ s = r
  BY <1>1 DEF Held
<1>6. /\ IsClient(created) /\ created.db = db /\ created.uuid = c.uuid /\ created.addr = c.addr
      /\ created.told = c.told /\ created.completed_sent = FALSE /\ created.queue = <<>>
      /\ created.link = c.link /\ created.plink = c.plink /\ created.over_gatt = c.over_gatt
  BY <1>1, <1>2 DEF Good, IsClient
<1> HIDE DEF db, created
<1>7. NotifyResult(created, "END", d) /\ ~ Resets(created, "END")
  BY <1>3, <1>6, NotifyShape DEF Good, Resets
<1> HIDE DEF d
<1>8. /\ Good(d) /\ d.uuid = c.uuid /\ d.addr = c.addr /\ d.last_status = "END"
      /\ d.completed_sent = FALSE /\ d.told = c.told /\ d.db = db /\ d.queue = <<>>
      /\ d.link = c.link /\ d.plink = c.plink /\ d.over_gatt = c.over_gatt
  BY <1>6, <1>7 DEF NotifyResult
<1>9. d.last_status \in Ongoing
  BY <1>8 DEF Ongoing
<1>10. Held(d)
  <2>1. ~ Settled(d)
    BY <1>1, <1>8 DEF Settled
  <2> HIDE DEF r
  <2>2. Record(d.uuid, d.addr) = r
    BY <1>8 DEF r
  <2>3. QED
    BY <1>1, <1>2, <1>5, <1>8, <1>9, <2>1, <2>2 DEF Held
<1>11. QED
  BY <1>1, <1>2, <1>4, <1>8, <1>9, <1>10 DEF created, d

LEMMA ProvisionEndJoins ==
    ASSUME NEW c, Opens(c), c.plink.st = "ended", c.addr \in Unicast, NodesAt(c, c.addr) = {},
           ~ c.over_gatt => ~ Connected(c), NEW ok \in BOOLEAN
    PROVE  LET d == ProvisionEnd(c, ok)
           IN  /\ Phase(d) /\ (Steps(c, d) \/ Joined(c, d))
               /\ Linked(d) /\ (Connected(c) => Connected(d))
               /\ d.state = "GET_REMOTE_COMPOSITION_DATA" => ~ Connected(c)
<1>1. Held(c) /\ Good(c)
  BY DEF Opens, Held
<1>2. CASE ~ ok
  <2> DEFINE fail == NotifyStatus(c, "FAILED")
             d    == [fail EXCEPT !.state = "IDLE"]
  <2>1. ProvisionEnd(c, ok) = d
    BY <1>2 DEF ProvisionEnd
  <2>2. Moved(c, fail) /\ Held(fail) /\ Settled(fail)
    BY <1>1, NotifyFailedMoves
  <2>3. Calm(c, fail)
    BY <1>1, CalmNotifyStatus
  <2> HIDE DEF fail
  <2>4. Aside(fail, d) /\ d.state = "IDLE"
    BY <2>2, StateAside DEF Held
  <2> HIDE DEF d
  <2>5. Kept(fail, d)
    BY <2>2, <2>4, KeptAside
  <2>6. Moved(c, d) /\ Held(d) /\ Settled(d)
    BY <1>1, <2>2, <2>5, MovedChain DEF Moved, Kept
  <2>7. Goes(c, d)
    BY <2>4, <2>6, EndsRest DEF Active, Opening, Joining
  <2>8. d.plink = c.plink /\ (Connected(c) => Connected(d))
    BY <2>3, <2>4 DEF Calm, Aside, Beside
  <2>9. Linked(d)
    BY <2>4, <2>8, LinkedEnded DEF Opening
  <2>10. QED
    BY <2>1, <2>4, <2>7, <2>8, <2>9, GoesSteps DEF Steps
<1>3. CASE ok
  <2> DEFINE created == [c EXCEPT !.db =
                             {r \in @ : r.uuid # c.uuid} \cup {Record(c.uuid, c.addr)}]
             told == NotifyStatus(created, "END")
             wait == [told EXCEPT !.state = "PROVISION_DISCONNECTING"]
             get  == [told EXCEPT !.state = "GET_REMOTE_COMPOSITION_DATA"]
             d    == ProvisionEnd(c, ok)
  <2>1. d = IF c.over_gatt THEN wait ELSE get
    BY <1>3 DEF ProvisionEnd
  <2>2. /\ Held(told) /\ told.last_status \in Ongoing /\ told.queue = <<>> /\ ~ Settled(c)
        /\ told.plink = c.plink /\ told.link = c.link /\ c.uuid \in Devices
        /\ \A x \in Devices :
              /\ told.told[x] = c.told[x]
              /\ StageIn(told.db, x) = IF x = c.uuid THEN "fresh" ELSE StageIn(c.db, x)
    BY CreatedHolds
  <2> HIDE DEF told, d
  <2>3. ASSUME NEW s \in Joining
        PROVE  LET e == [told EXCEPT !.state = s]
               IN  /\ Joined(c, e) /\ Phase(e) /\ Linked(e)
                   /\ (Connected(c) => Connected(e)) /\ e.state = s
    <3> DEFINE e == [told EXCEPT !.state = s]
    <3>1. Aside(told, e) /\ e.state = s
      BY <2>2, StateAside DEF Held
    <3>2. e.queue = <<>>
      BY <2>2 DEF Held, Good, IsClient
    <3> HIDE DEF e
    <3>3. Kept(told, e)
      BY <2>2, <3>1, KeptAside
    <3>4. Joins(e)
      BY <2>2, <3>1, <3>2, <3>3 DEF Joins, Kept
    <3>5. Joined(c, e)
      BY <2>2, <3>3, <3>4 DEF Joined, Kept, Same
    <3>6. e.plink.st = "ended" /\ (Connected(c) => Connected(e)) /\ e.state \notin Opening
      BY <2>2, <3>1 DEF Aside, Beside, Connected, Opening, Joining
    <3>7. Linked(e)
      BY <3>6, LinkedEnded
    <3>8. QED
      BY <3>1, <3>4, <3>5, <3>6, <3>7 DEF Phase, e
  <2>4. /\ Joined(c, wait) /\ Phase(wait) /\ Linked(wait) /\ (Connected(c) => Connected(wait))
        /\ wait.state = "PROVISION_DISCONNECTING"
        /\ Joined(c, get) /\ Phase(get) /\ Linked(get) /\ (Connected(c) => Connected(get))
    BY <2>3 DEF Joining
  <2> HIDE DEF wait, get
  <2>5. CASE c.over_gatt
    <3>1. d = wait
      BY <2>1, <2>5
    <3>2. QED
      BY <2>4, <3>1 DEF d
  <2>6. CASE ~ c.over_gatt
    <3>1. d = get /\ ~ Connected(c)
      BY <2>1, <2>6
    <3>2. QED
      BY <2>4, <3>1 DEF d
  <2>7. QED
    BY <2>5, <2>6
<1>4. QED
  BY <1>2, <1>3

-----------------------------------------------------------------------------
(***************************************************************************)
(* The messages on their way.  The composition data is asked for once, in   *)
(* the state that waits for it, and no answer to it is older than that; a   *)
(* request by connect_component is given up with its connection.            *)
(***************************************************************************)
Direct == {"COMP_GET", "IDENTITY"}

Sent(c, ms) ==
    /\ \A m \in ms : m.kind = "COMP_GET" =>
          c.state = "GET_REMOTE_COMPOSITION_DATA" /\ m = Msg("COMP_GET", c.addr)
    /\ \A m \in ms : m.kind = "IDENTITY" => Connected(c)
    /\ c.state \in Opening \cup Joining => \A m \in ms : m.kind \in Direct
    /\ c.state = "GET_REMOTE_COMPOSITION_DATA" => \A m \in ms : m.kind # "IDENTITY"

Got(c, rs) ==
    /\ \E S : rs \in [Addresses -> Seq(S)]
    /\ \A b \in Addresses : \A i \in DOMAIN rs[b] :
          /\ rs[b][i].kind = "BIND" => rs[b][i].ok
          /\ rs[b][i].kind = "COMP_GET" =>
                /\ c.state = "GET_REMOTE_COMPOSITION_DATA" /\ b = c.addr /\ rs[b][i].src = b
                /\ \A j \in DOMAIN rs[b] : rs[b][j].kind = "COMP_GET" => j = i

\* The client goes on waiting for the composition data of the same node.
Follows(c, d) ==
    c.state = "GET_REMOTE_COMPOSITION_DATA" =>
        d.state = "GET_REMOTE_COMPOSITION_DATA" /\ d.addr = c.addr

LEMMA GotFollows ==
    ASSUME NEW c, NEW rs, Got(c, rs), NEW d, Follows(c, d)
    PROVE  Got(d, rs)
BY DEF Got, Follows

LEMMA PhaseQueue ==
    ASSUME NEW c, Phase(c), c.state \in Opening \cup Joining
    PROVE  /\ c.queue = <<>>
           /\ c.state \in Opening => Opens(c)
           /\ c.state \in Joining => Joins(c) /\ c.addr \in Unicast
<1>1. ~ Busy(c)
  BY DEF Busy, Configures, Rests, Active, Opening, Joining
<1>2. Opens(c) \/ Joins(c)
  BY <1>1 DEF Phase
<1>3. ASSUME Joins(c) PROVE c.addr \in Unicast
  <2> DEFINE r == Record(c.uuid, c.addr)
  <2>1. r \in c.db /\ c.db \subseteq Records /\ r.addr = c.addr
    BY <1>3 DEF Joins, Held, Good, DbOK, Record
  <2> HIDE DEF r
  <2>2. QED
    BY <2>1 DEF Records
<1>4. QED
  BY <1>2, <1>3 DEF Opens, Joins, Opening, Joining

\* A message outside the queue is one of the two.
LEMMA SentOutstanding ==
    ASSUME NEW d, Phase(d), d.state \in Opening \cup Joining, NEW ms, NEW m \in Outstanding(d, ms)
    PROVE  m \in ms /\ m.kind \in Direct
<1>1. d.queue = <<>>
  BY PhaseQueue
<1>2. QED
  BY <1>1 DEF Outstanding, Direct

\* A step that does not ask for the composition data.
LEMMA SentStill ==
    ASSUME NEW c, NEW ms, Sent(c, ms), NEW d, Phase(d), Connected(c) => Connected(d),
           Follows(c, d), d.state = "GET_REMOTE_COMPOSITION_DATA" => c.state = d.state,
           NEW ns, ns \subseteq ms
    PROVE  Sent(d, Outstanding(d, ns))
<1>1. \A m \in Outstanding(d, ns) : m \in ms
  BY DEF Outstanding
<1>2. d.state \in Opening \cup Joining => \A m \in Outstanding(d, ns) : m.kind \in Direct
  BY SentOutstanding
<1>3. QED
  BY <1>1, <1>2 DEF Sent, Follows

\* A step that may ask for it.
LEMMA SentClient ==
    ASSUME NEW c, NEW ms, Sent(c, ms), NEW d, Phase(d), Connected(c) => Connected(d),
           Follows(c, d),
           d.state = "GET_REMOTE_COMPOSITION_DATA" /\ c.state # d.state => ~ Connected(c),
           NEW ns, ns = IF d.state = "GET_REMOTE_COMPOSITION_DATA" /\ c.state # d.state
                        THEN {Msg("COMP_GET", d.addr)} ELSE {}
    PROVE  Sent(d, Outstanding(d, ms) \cup ns)
<1>1. CASE d.state = "GET_REMOTE_COMPOSITION_DATA" /\ c.state # d.state
  <2> DEFINE get == Msg("COMP_GET", d.addr)
  <2>1. ns = {get} /\ get.kind = "COMP_GET" /\ get = Msg("COMP_GET", d.addr) /\ ~ Connected(c)
    BY <1>1 DEF Msg
  <2> HIDE DEF get
  <2>2. \A m \in Outstanding(d, ms) : m \in ms /\ m.kind \in Direct
    BY <1>1, SentOutstanding DEF Joining
  <2>3. Outstanding(d, ms) = {}
    BY <1>1, <2>1, <2>2 DEF Sent, Direct
  <2>4. \A m \in Outstanding(d, ms) \cup ns :
           m.kind = "COMP_GET" /\ m = Msg("COMP_GET", d.addr)
    BY <2>1, <2>3
  <2>5. QED
    BY <1>1, <2>4 DEF Sent, Direct
<1>2. CASE ~ (d.state = "GET_REMOTE_COMPOSITION_DATA" /\ c.state # d.state)
  <2>1. Outstanding(d, ms) \cup ns = Outstanding(d, ms)
    BY <1>2
  <2>2. QED
    BY <1>2, <2>1, SentStill
<1>3. QED
  BY <1>1, <1>2

\* The end of a connection: what is on its way is lost but for the refresh.
LEMMA SentGone ==
    ASSUME NEW d, Phase(d), NEW ms
    PROVE  Sent(d, {m \in Outstanding(d, ms) : m.kind \notin {"COMP_GET", "IDENTITY"}})
<1> DEFINE ns == {m \in Outstanding(d, ms) : m.kind \notin {"COMP_GET", "IDENTITY"}}
<1>1. d.state \in Opening \cup Joining => ns = {}
  BY SentOutstanding DEF Direct
<1>2. \A m \in ns : m.kind \notin Direct
  BY DEF Direct
<1> HIDE DEF ns
<1>3. Sent(d, ns)
  BY <1>1, <1>2 DEF Sent, Direct, Joining
<1>4. QED
  BY <1>3 DEF ns

LEMMA GotGone ==
    ASSUME NEW c, Phase(c), NEW rs, Got(c, rs), NEW d
    PROVE  Got(d, [a \in Addresses |-> IF a = Local THEN rs[a] ELSE <<>>])
<1> DEFINE ts == [a \in Addresses |-> IF a = Local THEN rs[a] ELSE <<>>]
<1>1. PICK S : rs \in [Addresses -> Seq(S)]
  BY DEF Got
<1>2. ts \in [Addresses -> Seq(S)]
  BY <1>1
<1>3. ASSUME NEW b \in Addresses, NEW i \in DOMAIN ts[b]
      PROVE  b = Local /\ ts[b] = rs[b] /\ i \in DOMAIN rs[b]
  BY <1>3
<1>4. ASSUME NEW i \in DOMAIN rs[Local], Local \in Addresses, rs[Local][i].kind = "COMP_GET"
      PROVE  FALSE
  <2>1. c.state = "GET_REMOTE_COMPOSITION_DATA" /\ Local = c.addr
    BY <1>4 DEF Got
  <2>2. QED
    BY <2>1, PhaseQueue DEF Joining, Unicast
<1> HIDE DEF ts
<1>5. Got(d, ts)
  BY <1>2, <1>3, <1>4 DEF Got
<1>6. QED
  BY <1>5 DEF ts

-----------------------------------------------------------------------------
(***************************************************************************)
(* The inductive invariant, and what a step of the client may be.           *)
(***************************************************************************)
StepsInv ==
    /\ Phase(cl)
    /\ Linked(cl)
    /\ Sent(cl, inflight)
    /\ Got(cl, replies)

Asked(c, d) == Rests(c) /\ \E x \in Devices : Started(c, d, x)

Promise(c, d) == Steps(c, d) \/ Joined(c, d) \/ Asked(c, d)

LEMMA StepsHold ==
    ASSUME StepsInv, Phase(cl'), Linked(cl'), Sent(cl', inflight'), Got(cl', replies')
    PROVE  StepsInv'
BY DEF StepsInv, Phase, Opens, Joins, Busy, Configures, Rests, Held,
   Good, IsClient, DbOK, Unique, Settled, Linked, NodesAt, Sent, Connected, Got

LEMMA LinkedCalm ==
    ASSUME NEW c, Linked(c), c.state \notin Opening, NEW d, Calm(c, d)
    PROVE  Linked(d)
BY LinkedOut DEF Calm

\* The client is left alone, and so are the messages of the core.
LEMMA StillSteps ==
    ASSUME StepsInv, UNCHANGED cl
    PROVE  Promise(cl, cl')
BY PhaseHolds, KeptSelf, KeptSteps DEF StepsInv, Promise

\* The answers change alone.
LEMMA RepliesSteps ==
    ASSUME StepsInv, UNCHANGED <<cl, inflight>>, Got(cl, replies')
    PROVE  StepsInv' /\ Promise(cl, cl')
<1>1. cl' = cl /\ inflight' = inflight
  OBVIOUS
<1>2. Phase(cl') /\ Linked(cl') /\ Sent(cl', inflight') /\ Got(cl', replies')
  BY <1>1 DEF StepsInv
<1>3. QED
  BY <1>2, StepsHold, StillSteps

LEMMA ClientSteps ==
    ASSUME StepsInv, NEW c, Client(c), UNCHANGED replies,
           Phase(c), Linked(c), Connected(cl) => Connected(c), Follows(cl, c),
           c.state = "GET_REMOTE_COMPOSITION_DATA" /\ cl.state # c.state => ~ Connected(cl)
    PROVE  StepsInv'
<1>1. cl' = c /\ Phase(cl') /\ Linked(cl')
  BY DEF Client
<1>2. Sent(cl', inflight')
  BY SentClient DEF Client, CompositionGet, StepsInv
<1>3. Got(cl', replies')
  BY <1>1, GotFollows DEF StepsInv
<1>4. QED
  BY <1>1, <1>2, <1>3 DEF StepsInv, Phase, Opens, Joins, Busy, Configures, Rests, Held,
     Good, IsClient, DbOK, Unique, Settled, Linked, NodesAt, Sent, Connected, Got

\* The client is not in a procedure that concerns a new node.
LEMMA OutsideRests ==
    ASSUME NEW c, Phase(c), c.state \notin Active
    PROVE  Rests(c)
BY DEF Phase, Opens, Joins, Busy, Configures, Active, Opening, Joining

LEMMA BusyOut ==
    ASSUME NEW c, Busy(c)
    PROVE  c.state \notin Opening \cup Joining
BY DEF Busy, Configures, Rests, Active, Opening, Joining

LEMMA BusySteps ==
    ASSUME StepsInv, Busy(cl), NEW c, Busy(c), Steps(cl, c), Calm(cl, c), Client(c),
           UNCHANGED replies
    PROVE  StepsInv' /\ Promise(cl, cl')
<1>1. Phase(c) /\ cl' = c
  BY DEF Phase, Client
<1>2. cl.state \notin Opening \cup Joining /\ c.state \notin Opening \cup Joining
  BY BusyOut
<1>3. Linked(c)
  BY <1>2, LinkedOut DEF StepsInv, Calm
<1>4. (Connected(cl) => Connected(c)) /\ Follows(cl, c)
  BY <1>2 DEF Calm, Follows, Joining
<1>5. c.state # "GET_REMOTE_COMPOSITION_DATA"
  BY <1>2 DEF Joining
<1>6. StepsInv'
  BY <1>1, <1>3, <1>4, <1>5, ClientSteps
<1>7. QED
  BY <1>1, <1>6 DEF Promise

LEMMA ProvisionSteps ==
    ASSUME StepsInv, NEW d \in Devices, Provision(d)
    PROVE  StepsInv' /\ Promise(cl, cl')
<1> DEFINE c == ProvisionStart(cl, d)
<1>1. Rests(cl)
  BY OutsideRests DEF StepsInv, Provision, Active, Opening, Joining
<1>2. Started(cl, c, d) /\ Linked(c) /\ c.state \in Opening /\ (Connected(cl) => Connected(c))
  BY <1>1, ProvisionStartOpens DEF StepsInv
<1>3. Client(c) /\ UNCHANGED replies /\ cl.state = "IDLE"
  BY DEF Provision
<1> HIDE DEF c
<1>4. cl' = c
  BY <1>3 DEF Client
<1>5. Phase(c)
  BY <1>2 DEF Started, Phase
<1>6. Follows(cl, c) /\ c.state # "GET_REMOTE_COMPOSITION_DATA"
  BY <1>2, <1>3 DEF Follows, Opening
<1>7. StepsInv'
  BY <1>2, <1>3, <1>5, <1>6, ClientSteps
<1>8. Asked(cl, cl')
  BY <1>1, <1>2, <1>4 DEF Asked
<1>9. QED
  BY <1>7, <1>8 DEF Promise

LEMMA ConnectNetworkSteps ==
    ASSUME StepsInv, ConnectNetwork
    PROVE  StepsInv' /\ Promise(cl, cl')
<1> DEFINE net == [cl EXCEPT !.state = "NETWORK_CONNECT"]
           c   == ConnectProxy(net, "net")
<1>1. Rests(cl) /\ Good(cl)
  BY OutsideRests, PhaseHolds DEF StepsInv, ConnectNetwork, Active, Opening, Joining
<1>2. Rests(net) /\ Goes(cl, net)
  BY <1>1, StateRests DEF Active, Opening, Joining
<1>3. Calm(cl, net)
  BY <1>1, CalmState DEF Opening
<1>4. Client(c) /\ UNCHANGED replies
  BY DEF ConnectNetwork
<1> HIDE DEF net
<1>5. Rests(c) /\ Goes(net, c) /\ Calm(net, c)
  BY <1>2, <1>3, ConnectProxyRests, CalmConnectProxy, CalmTrusts
<1> HIDE DEF c
<1>6. Calm(cl, c) /\ Steps(cl, c)
  BY <1>1, <1>2, <1>3, <1>5, CalmChain, GoesChain, GoesSteps DEF Busy
<1>7. QED
  BY <1>1, <1>4, <1>5, <1>6, BusySteps DEF Busy

LEMMA ConfigurePublicationSteps ==
    ASSUME StepsInv, NEW r, ConfigurePublication(r)
    PROVE  StepsInv' /\ Promise(cl, cl')
<1> DEFINE clean  == CleanAll(cl)
           begun  == [clean EXCEPT !.state = "RECONFIGURATION"]
           ops    == <<Msg("SET", r.addr)>>
           queued == Enqueue(begun, ops)
           c      == Execute(queued)
<1>1. Rests(cl) /\ Good(cl)
  BY OutsideRests, PhaseHolds DEF StepsInv, ConfigurePublication, Active, Opening, Joining
<1>2. Client(c) /\ UNCHANGED replies
  BY DEF ConfigurePublication
<1>3. Ops(ops)
  BY OpsOne DEF OpKinds, ConfigKinds
<1>4. Aside(cl, clean) /\ clean.state = cl.state
  BY <1>1, QueueAside, OpsEmpty DEF CleanAll
<1> HIDE DEF clean, ops
<1>5. Rests(clean) /\ Goes(cl, clean) /\ Calm(cl, clean)
  BY <1>1, <1>4, RestsAside, CalmAside
<1>6. Rests(begun) /\ Goes(clean, begun) /\ Calm(clean, begun)
  BY <1>5, StateRests, CalmState, CalmTrusts DEF Active, Opening, Joining
<1> HIDE DEF begun
<1>7. Rests(queued) /\ Goes(begun, queued) /\ Calm(begun, queued)
  BY <1>3, <1>6, EnqueueRests, CalmEnqueue, CalmTrusts
<1> HIDE DEF queued
<1>8. Goes(queued, c) /\ Calm(queued, c)
  BY <1>7, ExecuteGoes, CalmExecute, CalmTrusts DEF Busy
<1> HIDE DEF c
<1>9. Goes(cl, c)
  BY <1>1, <1>5, <1>6, <1>7, <1>8, GoesChain DEF Busy
<1>10. Calm(cl, c)
  BY <1>5, <1>6, <1>7, <1>8, CalmChain
<1>11. QED
  BY <1>1, <1>2, <1>9, <1>10, GoesSteps, BusySteps DEF Busy, Goes

LEMMA ConnectComponentSteps ==
    ASSUME StepsInv, NEW r \in cl.db, ConnectComponent(r)
    PROVE  StepsInv' /\ Promise(cl, cl')
<1> DEFINE m == Msg("IDENTITY", r.addr)
<1>1. Rests(cl) /\ Held(cl)
  BY OutsideRests, PhaseHolds DEF StepsInv, ConnectComponent, Active, Opening, Joining
<1>2. /\ cl.state = "IDLE" /\ Connected(cl) /\ inflight' = inflight \cup {m}
      /\ cl' = [cl EXCEPT !.state = "WAIT_NODE_IDENTITY", !.addr = r.addr]
      /\ UNCHANGED replies /\ m.kind = "IDENTITY"
  BY DEF ConnectComponent, Msg
<1> HIDE DEF m
<1>3. r.addr \in Nat
  BY <1>1 DEF Held, Good, DbOK, Records, Unicast
<1>4. /\ IsClient(cl') /\ cl'.db = cl.db /\ cl'.state = "WAIT_NODE_IDENTITY"
      /\ cl'.uuid = cl.uuid /\ cl'.told = cl.told /\ cl'.completed_sent = cl.completed_sent
      /\ cl'.last_status = cl.last_status /\ cl'.plink = cl.plink /\ cl'.link = cl.link
  BY <1>1, <1>2, <1>3 DEF Held, Good, IsClient
<1>5. cl.last_status \notin Ongoing
  BY <1>1 DEF Rests, Held
<1>6. Kept(cl, cl')
  BY <1>1, <1>4, <1>5, KeptAccount
<1>7. Rests(cl') /\ Goes(cl, cl')
  BY <1>1, <1>4, <1>6, RestsKept DEF Active, Opening, Joining
<1>8. Phase(cl') /\ Steps(cl, cl')
  BY <1>7, GoesSteps DEF Phase, Busy
<1>9. Linked(cl')
  BY <1>2, <1>4, LinkedOut DEF StepsInv, Opening
<1>10. Sent(cl', inflight')
  BY <1>2, <1>4 DEF StepsInv, Sent, Connected, Opening, Joining
<1>11. Got(cl', replies')
  BY <1>2, GotFollows DEF StepsInv, Follows
<1>12. Phase(cl)' /\ Linked(cl)' /\ Sent(cl, inflight)' /\ Got(cl, replies)'
  BY <1>8, <1>9, <1>10, <1>11 DEF Phase, Opens, Joins, Busy, Configures, Rests, Held,
     Good, IsClient, DbOK, Unique, Settled, Linked, NodesAt, Sent, Connected, Got
<1>13. QED
  BY <1>8, <1>12 DEF StepsInv, Promise

\* The connection is given up between two procedures.
LEMMA DisconnectSteps ==
    ASSUME StepsInv, DisconnectNetwork, cl.state \notin Active
    PROVE  StepsInv' /\ Promise(cl, cl')
<1> DEFINE idle == [cl EXCEPT !.state = "IDLE"]
           off  == ProxyDisconnect(idle)
           c    == [off EXCEPT !.proxy_addr = 0]
<1>1. Rests(cl) /\ Good(cl)
  BY OutsideRests, PhaseHolds DEF StepsInv
<1>2. cl' \in {c, idle} /\ UNCHANGED <<inflight, replies>>
  BY DEF DisconnectNetwork
<1>3. Rests(idle) /\ Goes(cl, idle) /\ Calm(cl, idle)
  BY <1>1, StateRests, CalmState DEF Active, Opening, Joining
<1> HIDE DEF idle
<1>4. Rests(off) /\ Goes(idle, off) /\ Calm(idle, off)
  BY <1>3, ProxyDisconnectRests, CalmProxyDisconnect, CalmTrusts
<1> HIDE DEF off
<1>5. Aside(off, c) /\ c.state = off.state
  BY <1>4 DEF Calm, Good, IsClient, Connected, Aside, Beside
<1> HIDE DEF c
<1>6. Rests(c) /\ Goes(off, c) /\ Calm(off, c)
  BY <1>4, <1>5, RestsAside, CalmAside, CalmTrusts
<1>7. Rests(cl') /\ Goes(cl, cl') /\ Calm(cl, cl')
  BY <1>1, <1>2, <1>3, <1>4, <1>6, GoesChain, CalmChain DEF Busy
<1>8. cl.state \notin Opening \cup Joining /\ cl'.state \notin Opening \cup Joining
  BY <1>1, <1>7, BusyOut DEF Busy
<1>9. Linked(cl')
  BY <1>7, <1>8, LinkedCalm DEF StepsInv
<1>10. Sent(cl', inflight')
  BY <1>2, <1>7, <1>8 DEF StepsInv, Sent, Calm, Joining
<1>11. Got(cl', replies')
  BY <1>2, <1>8, GotFollows DEF StepsInv, Follows, Joining
<1>12. Phase(cl') /\ Steps(cl, cl')
  BY <1>7, GoesSteps DEF Phase, Busy
<1>13. StepsInv'
  BY <1>9, <1>10, <1>11, <1>12, StepsHold
<1>14. QED
  BY <1>12, <1>13 DEF Promise

\* mesh_client_disconnect_network is called between two procedures.
Patient == DisconnectNetwork => cl.state \notin Active

LEMMA UserSteps ==
    ASSUME Patient, StepsInv, User
    PROVE  StepsInv' /\ Promise(cl, cl')
<1>1. ASSUME NEW d \in Devices, FactoryReset(d) PROVE StepsInv' /\ Promise(cl, cl')
  <2>1. UNCHANGED <<cl, inflight, replies>>
    BY <1>1 DEF FactoryReset
  <2>2. Got(cl, replies')
    BY <2>1 DEF StepsInv
  <2>3. QED
    BY <2>1, <2>2, RepliesSteps
<1>2. QED
  BY <1>1, ProvisionSteps, ConnectNetworkSteps, ConnectComponentSteps, DisconnectSteps,
     ConfigurePublicationSteps DEF User, Patient

-----------------------------------------------------------------------------
(* The messages. *)

\* An answer more, and one less.
LEMMA GotAppend ==
    ASSUME NEW c, NEW rs, Got(c, rs), NEW a, NEW x, x.kind = "BIND" => x.ok,
           x.kind = "COMP_GET" =>
              /\ c.state = "GET_REMOTE_COMPOSITION_DATA" /\ a = c.addr /\ x.src = a
              /\ a \in Addresses => \A i \in DOMAIN rs[a] : rs[a][i].kind # "COMP_GET"
    PROVE  Got(c, [rs EXCEPT ![a] = Append(@, x)])
<1> DEFINE ts == [rs EXCEPT ![a] = Append(@, x)]
<1>1. PICK S : rs \in [Addresses -> Seq(S)]
  BY DEF Got
<1>2. CASE a \notin Addresses
  <2>1. ts = rs
    BY <1>1, <1>2
  <2>2. QED
    BY <2>1
<1>3. CASE a \in Addresses
  <2> DEFINE T  == S \cup {x}
             qa == rs[a]
             q  == Append(qa, x)
  <2>1. qa \in Seq(S) /\ qa \in Seq(T) /\ x \in T
    BY <1>1, <1>3
  <2>2. /\ q \in Seq(T) /\ DOMAIN q = 1 .. (Len(qa) + 1) /\ DOMAIN qa = 1 .. Len(qa)
        /\ Len(qa) \in Nat /\ q[Len(qa) + 1] = x /\ \A i \in 1 .. Len(qa) : q[i] = qa[i]
    BY <2>1
  <2>3. \A b \in Addresses : rs[b] \in Seq(T)
    BY <1>1
  <2>4. ts = [b \in Addresses |-> IF b = a THEN q ELSE rs[b]]
    BY <1>1, <1>3
  <2> HIDE DEF T, qa, q, ts
  <2>5. ts \in [Addresses -> Seq(T)]
    BY <2>2, <2>3, <2>4
  <2>6. ASSUME NEW b \in Addresses, NEW i \in DOMAIN ts[b]
        PROVE  /\ ts[b][i].kind = "BIND" => ts[b][i].ok
               /\ ts[b][i].kind = "COMP_GET" =>
                    /\ c.state = "GET_REMOTE_COMPOSITION_DATA" /\ b = c.addr /\ ts[b][i].src = b
                    /\ \A j \in DOMAIN ts[b] : ts[b][j].kind = "COMP_GET" => j = i
    <3>1. CASE b # a
      <4>1. ts[b] = rs[b]
        BY <2>4, <3>1
      <4>2. QED
        BY <2>6, <4>1 DEF Got
    <3>2. CASE b = a
      <4>1. /\ ts[b] = q
            /\ \A j \in DOMAIN q :
                  \/ j \in DOMAIN qa /\ q[j] = qa[j]
                  \/ j = Len(qa) + 1 /\ q[j] = x /\ j \notin DOMAIN qa
        BY <2>2, <2>4, <3>2
      <4>2. \A j \in DOMAIN qa :
               /\ qa[j].kind = "BIND" => qa[j].ok
               /\ qa[j].kind = "COMP_GET" =>
                    /\ c.state = "GET_REMOTE_COMPOSITION_DATA" /\ a = c.addr /\ qa[j].src = a
                    /\ x.kind # "COMP_GET"
                    /\ \A k \in DOMAIN qa : qa[k].kind = "COMP_GET" => k = j
        BY <1>3 DEF qa, Got
      <4>3. x.kind = "COMP_GET" => \A j \in DOMAIN qa : qa[j].kind # "COMP_GET"
        BY <1>3 DEF qa
      <4>4. QED
        BY <2>6, <3>2, <4>1, <4>2, <4>3
    <3>3. QED
      BY <3>1, <3>2
  <2>7. Got(c, ts)
    BY <2>5, <2>6 DEF Got
  <2>8. QED
    BY <2>7 DEF ts
<1>4. QED
  BY <1>2, <1>3

LEMMA GotTail ==
    ASSUME NEW c, NEW rs, Got(c, rs), NEW a \in Addresses, rs[a] # <<>>
    PROVE  LET ts == [rs EXCEPT ![a] = Tail(@)]
           IN  /\ Got(c, ts)
               /\ Head(rs[a]).kind = "BIND" => Head(rs[a]).ok
               /\ Head(rs[a]).kind = "COMP_GET" =>
                     /\ c.state = "GET_REMOTE_COMPOSITION_DATA" /\ a = c.addr
                     /\ Head(rs[a]).src = a
                     /\ \A d : Got(d, ts)
<1> DEFINE ts == [rs EXCEPT ![a] = Tail(@)]
           qa == rs[a]
           q  == Tail(qa)
<1>1. PICK S : rs \in [Addresses -> Seq(S)]
  BY DEF Got
<1>2. qa \in Seq(S) /\ qa # <<>>
  BY <1>1
<1>3. /\ q \in Seq(S) /\ Head(qa) = qa[1] /\ 1 \in DOMAIN qa
      /\ \A i \in DOMAIN q : i \in Nat \ {0} /\ i + 1 \in DOMAIN qa /\ q[i] = qa[i + 1]
  BY <1>2
<1>4. ts = [b \in Addresses |-> IF b = a THEN q ELSE rs[b]]
  BY <1>1
<1>5. \A i \in DOMAIN qa :
         /\ qa[i].kind = "BIND" => qa[i].ok
         /\ qa[i].kind = "COMP_GET" =>
              /\ c.state = "GET_REMOTE_COMPOSITION_DATA" /\ a = c.addr /\ qa[i].src = a
              /\ \A j \in DOMAIN qa : qa[j].kind = "COMP_GET" => j = i
  BY DEF Got
<1>6. Head(rs[a]) = Head(qa)
  OBVIOUS
<1> HIDE DEF qa, q, ts
<1>7. ts \in [Addresses -> Seq(S)]
  BY <1>1, <1>3, <1>4
<1>8. ASSUME NEW b \in Addresses, b # a
      PROVE  ts[b] = rs[b]
  BY <1>4, <1>8
<1>9. ts[a] = q
  BY <1>4
<1>10. \A i \in DOMAIN q :
          /\ q[i].kind = "BIND" => q[i].ok
          /\ q[i].kind = "COMP_GET" =>
               /\ c.state = "GET_REMOTE_COMPOSITION_DATA" /\ a = c.addr /\ q[i].src = a
               /\ qa[1].kind # "COMP_GET"
               /\ \A j \in DOMAIN q : q[j].kind = "COMP_GET" => j = i
  <2>1. ASSUME NEW i \in DOMAIN q
        PROVE  i \in Nat \ {0} /\ i + 1 \in DOMAIN qa /\ q[i] = qa[i + 1] /\ i + 1 # 1
    BY <1>3
  <2>2. ASSUME NEW i \in DOMAIN q, NEW j \in DOMAIN q, i + 1 = j + 1
        PROVE  i = j
    BY <2>1, <2>2
  <2>3. QED
    BY <1>3, <1>5, <2>1, <2>2
<1>11. Got(c, ts)
  <2>1. \A b \in Addresses : \A i \in DOMAIN ts[b] :
          /\ ts[b][i].kind = "BIND" => ts[b][i].ok
          /\ ts[b][i].kind = "COMP_GET" =>
                /\ c.state = "GET_REMOTE_COMPOSITION_DATA" /\ b = c.addr /\ ts[b][i].src = b
                /\ \A j \in DOMAIN ts[b] : ts[b][j].kind = "COMP_GET" => j = i
    BY <1>8, <1>9, <1>10 DEF Got
  <2>2. QED
    BY <1>7, <2>1 DEF Got
<1>12. ASSUME qa[1].kind = "COMP_GET"
       PROVE  /\ c.state = "GET_REMOTE_COMPOSITION_DATA" /\ a = c.addr /\ qa[1].src = a
              /\ \A d : Got(d, ts)
  <2>1. c.state = "GET_REMOTE_COMPOSITION_DATA" /\ a = c.addr /\ qa[1].src = a
    BY <1>3, <1>5, <1>12
  <2>2. \A i \in DOMAIN q : q[i].kind # "COMP_GET"
    BY <1>10, <1>12
  <2>3. \A b \in Addresses : \A i \in DOMAIN ts[b] :
           (ts[b][i].kind = "BIND" => ts[b][i].ok) /\ ts[b][i].kind # "COMP_GET"
    BY <1>8, <1>9, <1>10, <2>1, <2>2 DEF Got
  <2>4. \A d : Got(d, ts)
    BY <1>7, <2>3 DEF Got
  <2>5. QED
    BY <2>1, <2>4
<1>13. Head(qa).kind = "BIND" => Head(qa).ok
  BY <1>3, <1>5
<1>14. QED
  BY <1>3, <1>6, <1>11, <1>12, <1>13 DEF ts

LEMMA TimerSteps ==
    ASSUME StepsInv, TimerFires
    PROVE  StepsInv' /\ Promise(cl, cl')
<1>1. Phase(cl) /\ Good(cl)
  BY PhaseHolds DEF StepsInv
<1>2. cl' = [cl EXCEPT !.timer = FALSE] /\ UNCHANGED replies
  BY DEF TimerFires
<1>3. /\ Alike(cl, cl') /\ cl'.link = cl.link /\ cl'.plink = cl.plink
      /\ cl'.over_gatt = cl.over_gatt
  BY <1>1, <1>2 DEF Alike, Good, IsClient
<1>4. Phase(cl') /\ Kept(cl, cl')
  BY <1>1, <1>3, PhaseAlike
<1>5. Linked(cl')
  BY <1>3 DEF StepsInv, Linked, Alike, NodesAt
<1>6. Sent(cl', inflight')
  <2>1. Sent(cl, inflight)
    BY DEF StepsInv
  <2>2. CASE cl.queue = <<>>
    <3>1. inflight' = inflight
      BY <2>2 DEF TimerFires
    <3>2. QED
      BY <1>3, <2>1, <3>1 DEF Sent, Alike, Connected
  <2>3. CASE cl.queue # <<>>
    <3> DEFINE h == Head(cl.queue)
    <3>1. inflight' = inflight \cup {h}
      BY <2>3 DEF TimerFires
    <3>2. h.kind \in OpKinds
      BY <1>1, <2>3, OpsTail DEF Good, IsClient
    <3> HIDE DEF h
    <3>3. h.kind \notin Direct
      BY <3>2 DEF OpKinds, ConfigKinds, Direct
    <3>4. cl.state \notin Opening \cup Joining
      BY <1>1, <2>3, PhaseQueue
    <3>5. QED
      BY <1>3, <2>1, <3>1, <3>3, <3>4 DEF Sent, Alike, Connected, Direct, Joining
  <2>4. QED
    BY <2>2, <2>3
<1>7. Got(cl', replies')
  BY <1>2, <1>3, GotFollows DEF StepsInv, Follows, Alike
<1>8. QED
  BY <1>2, <1>4, <1>5, <1>6, <1>7, StepsHold, KeptSteps DEF Promise

LEMMA DeviceHandlesSteps ==
    ASSUME "BIND" \notin Rejects, "COMP_GET" \notin DupKinds,
           StepsInv, NEW m \in inflight, NEW d, NEW ok \in BOOLEAN, DeviceHandles(m, d, ok)
    PROVE  StepsInv' /\ Promise(cl, cl')
<1> DEFINE a == Target(m)
           x == Answer(m, ok)
<1>1. /\ replies' = [replies EXCEPT ![a] = Append(@, x)] /\ UNCHANGED <<cl, inflight>>
      /\ ok \/ m.kind \in Rejects
      /\ m.kind \in DupKinds \/ ~ Answered(m)
  BY DEF DeviceHandles
<1>2. x.kind = m.kind /\ x.src = a /\ x.ok = ok
  BY DEF Answer
<1>3. x.kind = "BIND" => x.ok
  BY <1>1, <1>2
<1>4. ASSUME m.kind = "COMP_GET"
      PROVE  /\ cl.state = "GET_REMOTE_COMPOSITION_DATA" /\ a = cl.addr
             /\ a \in Addresses => \A i \in DOMAIN replies[a] : replies[a][i].kind # "COMP_GET"
  <2>1. cl.state = "GET_REMOTE_COMPOSITION_DATA" /\ m = Msg("COMP_GET", cl.addr)
    BY <1>4 DEF StepsInv, Sent
  <2>2. m.dst = cl.addr /\ a = cl.addr
    BY <1>4, <2>1 DEF Msg, Target
  <2>3. ASSUME a \in Addresses, NEW i \in DOMAIN replies[a], replies[a][i].kind = "COMP_GET"
        PROVE  FALSE
    <3>1. replies[a][i].src = a
      BY <2>3 DEF StepsInv, Got
    <3>2. Answers(replies[a][i], m)
      BY <1>4, <2>2, <2>3, <3>1 DEF Answers
    <3>3. QED
      BY <1>1, <1>4, <2>3, <3>2 DEF Answered
  <2>4. QED
    BY <2>1, <2>2, <2>3
<1> HIDE DEF a, x
<1>5. Got(cl, replies')
  BY <1>1, <1>2, <1>3, <1>4, GotAppend DEF StepsInv
<1>6. QED
  BY <1>1, <1>5, RepliesSteps

LEMMA LocalHandlesSteps ==
    ASSUME StepsInv, NEW m, LocalHandles(m)
    PROVE  StepsInv' /\ Promise(cl, cl')
<1> DEFINE x == Answer(m, TRUE)
<1>1. replies' = [replies EXCEPT ![Local] = Append(@, x)] /\ UNCHANGED <<cl, inflight>>
  BY DEF LocalHandles
<1>2. x.kind = "REFRESH"
  BY DEF Answer, LocalHandles
<1> HIDE DEF x
<1>3. Got(cl, replies')
  BY <1>1, <1>2, GotAppend DEF StepsInv
<1>4. QED
  BY <1>1, <1>3, RepliesSteps

LEMMA AnswerLostSteps ==
    ASSUME StepsInv, NEW a \in Addresses, AnswerLost(a)
    PROVE  StepsInv' /\ Promise(cl, cl')
<1>1. /\ replies' = [replies EXCEPT ![a] = Tail(@)] /\ UNCHANGED <<cl, inflight>>
      /\ replies[a] # <<>>
  BY DEF AnswerLost
<1>2. Got(cl, replies')
  BY <1>1, GotTail DEF StepsInv
<1>3. QED
  BY <1>1, <1>2, RepliesSteps

LEMMA SentNothing == ASSUME NEW c PROVE Sent(c, Outstanding(c, {}))
BY DEF Sent, Outstanding

\* The node does not answer.
LEMMA MessageFailsSteps ==
    ASSUME StepsInv, NEW m \in inflight, NEW finished, MessageFails(m, finished)
    PROVE  StepsInv' /\ Promise(cl, cl')
<1> DEFINE c  == TxFailed(cl, m, finished)
           ms == inflight \ {m}
<1>1. /\ cl' = c /\ inflight' = Outstanding(c, ms) /\ UNCHANGED replies
      /\ ~ Answered(m)
  BY DEF MessageFails
<1>2. Phase(cl) /\ Linked(cl) /\ Sent(cl, inflight) /\ Got(cl, replies) /\ Good(cl)
  BY PhaseHolds DEF StepsInv
<1>3. Calm(cl, c)
  BY <1>2, CalmTxFailed
<1>4. ms \subseteq inflight
  OBVIOUS
<1>5. CASE cl.state \in (Opening \cup Joining) \ {"GET_REMOTE_COMPOSITION_DATA"}
  <2>1. c = cl
    BY <1>5, TxFailedWaits
  <2> HIDE DEF c, ms
  <2>2. Sent(cl, Outstanding(cl, ms))
    BY <1>2, <1>4, SentStill DEF Follows
  <2>3. Phase(cl') /\ Linked(cl') /\ Sent(cl', inflight') /\ Got(cl', replies')
    BY <1>1, <1>2, <2>1, <2>2
  <2>4. QED
    BY <1>1, <2>1, <2>3, StepsHold, StillSteps
<1>6. CASE cl.state = "GET_REMOTE_COMPOSITION_DATA"
  <2>1. Joins(cl)
    BY <1>2, <1>6, PhaseQueue DEF Joining
  <2>2. Advances(cl, c)
    BY <1>6, <2>1, TxFailedComposition
  <2>3. cl.state \in Opening \cup Joining /\ cl.state \notin Opening
    BY <1>6 DEF Opening, Joining
  <2>4. \A n \in inflight : n = Msg("COMP_GET", cl.addr)
    BY <1>2, <1>6, <2>3 DEF Sent, Direct
  <2>5. ms = {} /\ m = Msg("COMP_GET", cl.addr)
    BY <2>4
  <2>6. ASSUME NEW b \in Addresses, NEW i \in DOMAIN replies[b], replies[b][i].kind = "COMP_GET"
        PROVE  FALSE
    <3>1. replies[b][i].src = cl.addr
      BY <1>2, <2>6 DEF Got
    <3>2. Answers(replies[b][i], m)
      BY <2>5, <2>6, <3>1 DEF Answers, Msg
    <3>3. QED
      BY <1>1, <2>6, <3>2 DEF Answered
  <2>7. Got(c, replies)
    BY <1>2, <2>6 DEF Got
  <2> HIDE DEF c, ms
  <2>8. Linked(c)
    BY <1>2, <1>3, <2>3, LinkedCalm
  <2>9. Sent(c, Outstanding(c, ms))
    BY <2>5, SentNothing
  <2>10. Phase(c) /\ Steps(cl, c)
    BY <2>2, AdvancesSteps DEF Steps
  <2>11. QED
    BY <1>1, <2>7, <2>8, <2>9, <2>10, StepsHold DEF Promise
<1>7. CASE cl.state \notin Opening \cup Joining
  <2>1. Busy(cl)
    BY <1>2, <1>7 DEF Phase, Opens, Joins
  <2>2. Busy(c) /\ Steps(cl, c)
    BY <2>1, TxFailedBusy
  <2> HIDE DEF c, ms
  <2>3. c.state \notin Opening \cup Joining
    BY <2>2, BusyOut
  <2>4. Linked(c)
    BY <1>2, <1>3, <1>7, LinkedCalm
  <2>5. Follows(cl, c) /\ c.state # "GET_REMOTE_COMPOSITION_DATA"
    BY <1>7, <2>3 DEF Follows, Joining
  <2>6. Sent(c, Outstanding(c, ms))
    BY <1>2, <1>3, <1>4, <2>2, <2>5, SentStill DEF Phase, Calm
  <2>7. Got(c, replies)
    BY <1>2, <2>5, GotFollows
  <2>8. QED
    BY <1>1, <2>2, <2>4, <2>6, <2>7, StepsHold DEF Promise, Phase
<1>8. QED
  BY <1>5, <1>6, <1>7

LEMMA AnswerArrivesSteps ==
    ASSUME StepsInv, NEW a \in Addresses, NEW finished, AnswerArrives(a, finished)
    PROVE  StepsInv' /\ Promise(cl, cl')
<1> DEFINE r  == Head(replies[a])
           c  == Status(cl, r, finished)
           ms == {m \in inflight : ~ Answers(r, m)}
           rs == [replies EXCEPT ![a] = Tail(@)]
<1>1. cl' = c /\ inflight' = Outstanding(c, ms) /\ replies' = rs
  BY DEF AnswerArrives
<1>2. Phase(cl) /\ Linked(cl) /\ Sent(cl, inflight) /\ Got(cl, replies) /\ Good(cl)
  BY PhaseHolds DEF StepsInv
<1>3. /\ Got(cl, rs) /\ (r.kind = "BIND" => r.ok)
      /\ r.kind = "COMP_GET" =>
            /\ cl.state = "GET_REMOTE_COMPOSITION_DATA" /\ a = cl.addr /\ r.src = a
            /\ \A d : Got(d, rs)
  BY <1>2, GotTail DEF AnswerArrives
<1>4. Calm(cl, c)
  BY <1>2, CalmStatus
<1>5. ms \subseteq inflight
  OBVIOUS
<1>6. CASE r.kind = "COMP_GET"
  <2>1. /\ cl.state = "GET_REMOTE_COMPOSITION_DATA" /\ r.src = cl.addr /\ Got(c, rs)
        /\ cl.state \in Joining /\ cl.state \notin Opening
    BY <1>3, <1>6 DEF Joining, Opening
  <2>2. Joins(cl)
    BY <1>2, <2>1, PhaseQueue
  <2> HIDE DEF rs
  <2>3. Steps(cl, c) /\ c.state \notin Opening \cup Joining
    BY <1>6, <2>1, <2>2, StatusComposition
  <2>4. \A n \in inflight : n = Msg("COMP_GET", cl.addr)
    BY <1>2, <2>1 DEF Sent, Direct
  <2>5. ms = {}
    <3>1. \A n \in inflight : Answers(r, n)
      BY <1>6, <2>1, <2>4 DEF Answers, Msg
    <3>2. QED
      BY <3>1
  <2> HIDE DEF r, c, ms
  <2>6. Sent(c, Outstanding(c, ms))
    BY <2>5, SentNothing
  <2>7. Linked(c)
    BY <1>2, <1>4, <2>1, LinkedCalm
  <2>8. QED
    BY <1>1, <2>1, <2>3, <2>6, <2>7, StepsHold DEF Promise, Steps
<1>7. CASE r.kind # "COMP_GET" /\ cl.state \in Opening \cup Joining
  <2>1. c = Noted(cl, r)
    BY <1>2, <1>7, StatusWaits
  <2> HIDE DEF r, c, ms, rs
  <2>2. Apart(cl, c) /\ c.link = cl.link /\ c.over_gatt = cl.over_gatt
    BY <1>2, <2>1, NotedApart
  <2>3. Phase(c) /\ Kept(cl, c)
    BY <1>2, <2>2, PhaseApart
  <2>4. /\ c.state = cl.state /\ c.addr = cl.addr /\ c.db = cl.db /\ c.plink = cl.plink
        /\ Connected(cl) => Connected(c)
    BY <2>2 DEF Apart, Aside, Beside
  <2>5. Linked(c)
    BY <1>2, <2>2, <2>4 DEF Linked, NodesAt
  <2>6. Follows(cl, c)
    BY <2>4 DEF Follows
  <2>7. Got(c, rs)
    BY <1>3, <2>6, GotFollows
  <2>8. Sent(c, Outstanding(c, ms))
    BY <1>2, <1>5, <2>3, <2>4, <2>6, SentStill
  <2>9. QED
    BY <1>1, <2>3, <2>5, <2>7, <2>8, StepsHold, KeptSteps DEF Promise
<1>8. CASE r.kind # "COMP_GET" /\ cl.state \notin Opening \cup Joining
  <2>1. Busy(cl)
    BY <1>2, <1>8 DEF Phase, Opens, Joins
  <2>2. Busy(c) /\ Steps(cl, c)
    BY <1>3, <1>8, <2>1, StatusBusy
  <2> HIDE DEF r, c, ms, rs
  <2>3. c.state \notin Opening \cup Joining
    BY <2>2, BusyOut
  <2>4. Linked(c)
    BY <1>2, <1>4, <1>8, LinkedCalm
  <2>5. Follows(cl, c) /\ c.state # "GET_REMOTE_COMPOSITION_DATA"
    BY <1>8, <2>3 DEF Follows, Joining
  <2>6. Sent(c, Outstanding(c, ms))
    BY <1>2, <1>4, <1>5, <2>2, <2>5, SentStill DEF Phase, Calm
  <2>7. Got(c, rs)
    BY <1>3, <2>5, GotFollows
  <2>8. QED
    BY <1>1, <2>2, <2>4, <2>6, <2>7, StepsHold DEF Promise, Phase
<1>9. QED
  BY <1>6, <1>7, <1>8

LEMMA MessagesSteps ==
    ASSUME "BIND" \notin Rejects, "COMP_GET" \notin DupKinds, StepsInv, Messages
    PROVE  StepsInv' /\ Promise(cl, cl')
BY TimerSteps, DeviceHandlesSteps, LocalHandlesSteps, MessageFailsSteps, AnswerArrivesSteps,
   AnswerLostSteps DEF Messages

-----------------------------------------------------------------------------
(* The connections. *)

\* A proxy connection once the device has its address.
LEMMA ProxyStatusSteps ==
    ASSUME NEW c, Phase(c), Linked(c), c.state \notin Opening, NEW up
    PROVE  LET d == ProxyStatus(c, up)
           IN  /\ Phase(d) /\ Linked(d) /\ Steps(c, d)
               /\ Connected(c) => Connected(d)
<1> DEFINE d == ProxyStatus(c, up)
<1>1. Calm(c, d)
  BY PhaseHolds, CalmProxyStatus DEF Opening
<1>2. Linked(d) /\ (Connected(c) => Connected(d))
  BY <1>1, LinkedCalm DEF Calm
<1>3. Steps(c, d)
  <2>1. CASE Busy(c)
    BY <2>1, ProxyStatusBusy, GoesSteps
  <2>2. CASE Joins(c)
    BY <2>2, ProxyStatusJoins, AdvancesSteps
  <2>3. QED
    BY <2>1, <2>2 DEF Phase, Opens
<1>4. QED
  BY <1>2, <1>3 DEF Steps

\* mesh_node_connecting_link_status again, when the node was connected to before.
LEMMA ConnectedAgain ==
    ASSUME NEW c, Good(c), c.state = "GET_REMOTE_COMPOSITION_DATA"
    PROVE  Follows(c, ProxyStatus(c, TRUE))
<1> DEFINE n == [c EXCEPT !.state = "NODE_CONNECTING"]
           d == [n EXCEPT !.state = "GET_REMOTE_COMPOSITION_DATA"]
<1>1. ProxyStatus(c, TRUE) = d
  BY DEF ProxyStatus, NodeConnecting
<1>2. d.state = "GET_REMOTE_COMPOSITION_DATA" /\ d.addr = c.addr
  BY DEF Good, IsClient
<1>3. QED
  BY <1>1, <1>2 DEF Follows

LEMMA ProxyUpSteps ==
    ASSUME StepsInv, NEW x, ProxyUp(x)
    PROVE  StepsInv' /\ Promise(cl, cl')
<1> DEFINE c == LinkUp(cl, dev[x].addr)
           d == ProxyStatus(c, TRUE)
<1>1. Client(d) /\ UNCHANGED replies /\ cl.link.st \in {"node", "net"}
  BY DEF ProxyUp, MayConnect
<1>2. Phase(cl) /\ Linked(cl) /\ Good(cl) /\ ~ Connected(cl)
  BY <1>1, PhaseHolds DEF StepsInv, Connected
<1>3. cl.state \notin Opening
  BY <1>1, <1>2 DEF Linked
<1>4. Alike(cl, c) /\ c.plink = cl.plink
  BY <1>2 DEF LinkUp, Alike, Good, IsClient
<1> HIDE DEF c
<1>5. Phase(c) /\ Kept(cl, c)
  BY <1>2, <1>4, PhaseAlike
<1>6. c.state = cl.state /\ c.addr = cl.addr /\ Linked(c)
  BY <1>2, <1>3, <1>4, LinkedOut DEF Alike
<1>7. Phase(d) /\ Linked(d) /\ Steps(c, d)
  BY <1>3, <1>5, <1>6, ProxyStatusSteps
<1>8. Follows(cl, d)
  BY <1>5, <1>6, PhaseHolds, ConnectedAgain DEF Follows
<1> HIDE DEF d
<1>9. Steps(cl, d)
  BY <1>2, <1>5, <1>7, StepsChain
<1>10. StepsInv'
  BY <1>1, <1>2, <1>7, <1>8, ClientSteps
<1>11. QED
  BY <1>1, <1>9, <1>10 DEF Client, Promise

LEMMA ProxyGoneSteps ==
    ASSUME StepsInv, ProxyDown \/ ProxyLost
    PROVE  StepsInv' /\ Promise(cl, cl')
<1> DEFINE c == LinkDown(cl)
           d == ProxyStatus(c, FALSE)
<1>1. Disconnected(d)
  BY DEF ProxyDown, ProxyLost
<1>2. Phase(cl) /\ Linked(cl) /\ Good(cl) /\ Got(cl, replies)
  BY PhaseHolds DEF StepsInv
<1>3. Alike(cl, c) /\ c.plink = cl.plink /\ c.link.st = "down"
  BY <1>2 DEF LinkDown, Down, Alike, Good, IsClient
<1> HIDE DEF c
<1>4. Phase(c) /\ Kept(cl, c)
  BY <1>2, <1>3, PhaseAlike
<1>5. c.state = cl.state /\ Linked(c)
  BY <1>2, <1>3 DEF Alike, Linked, NodesAt
<1>6. Phase(d) /\ Linked(d) /\ Steps(c, d)
  <2>1. CASE c.state \notin Opening
    BY <1>4, <1>5, <2>1, ProxyStatusSteps
  <2>2. CASE c.state = "PROVISIONING"
    <3>1. d = c
      BY <2>2 DEF ProxyStatus
    <3> HIDE DEF d
    <3>2. QED
      BY <1>4, <1>5, <3>1, PhaseHolds, KeptSelf, KeptSteps
  <2>3. CASE c.state = "CONNECTING"
    <3> DEFINE more == ProvisionConnect(c)
    <3>1. d = NotifyStatus(more, "CONNECTING")
      BY <2>3 DEF ProxyStatus
    <3>2. Opens(c)
      BY <1>4, <2>3, PhaseQueue DEF Opening
    <3>3. Opens(more) /\ Kept(c, more) /\ Linked(more)
      BY <1>3, <2>3, <3>2, ProvisionConnectOpens
    <3> HIDE DEF more, d
    <3>4. Opens(d) /\ Kept(more, d) /\ Linked(d)
      BY <3>1, <3>3, NotifyOpens
    <3>5. Kept(c, d)
      BY <3>3, <3>4, KeptChain
    <3>6. QED
      BY <3>4, <3>5, KeptSteps DEF Phase
  <2>4. QED
    BY <2>1, <2>2, <2>3 DEF Opening
<1> HIDE DEF d
<1>7. Steps(cl, d)
  BY <1>2, <1>4, <1>6, StepsChain
<1>8. cl' = d /\ Sent(d, inflight') /\ Got(d, replies')
  BY <1>1, <1>2, <1>6, SentGone, GotGone DEF Disconnected
<1>9. QED
  BY <1>1, <1>6, <1>7, <1>8, StepsHold DEF Promise

LEMMA PbOpensSteps ==
    ASSUME StepsInv, PbOpens
    PROVE  StepsInv' /\ Promise(cl, cl')
<1> DEFINE open == [cl EXCEPT !.plink.st = "open"]
           d    == [open EXCEPT !.over_gatt = TRUE]
<1>1. Phase(cl) /\ Linked(cl) /\ Good(cl) /\ cl.state = "CONNECTING"
  BY PhaseHolds DEF StepsInv, PbOpens, Linked
<1>2. /\ Alike(cl, open) /\ open.plink.st = "open" /\ open.link = cl.link
  BY <1>1 DEF Alike, Good, IsClient
<1>3. /\ Alike(cl, d) /\ d.plink.st = "open" /\ d.link = cl.link /\ d.over_gatt
  BY <1>1 DEF Alike, Good, IsClient
<1>4. Client(d) /\ UNCHANGED replies
  <2>1. LinkReport(open, TRUE) = d
    BY <1>1, <1>2 DEF LinkReport, Alike
  <2>2. QED
    BY <2>1 DEF PbOpens, PbStep
<1> HIDE DEF open, d
<1>5. Phase(d) /\ Kept(cl, d)
  BY <1>1, <1>3, PhaseAlike
<1>6. Linked(d)
  BY <1>1, <1>3 DEF Linked, Alike, Opening
<1>7. Follows(cl, d) /\ d.state = cl.state /\ (Connected(cl) => Connected(d))
  BY <1>3 DEF Follows, Alike, Connected
<1>8. StepsInv'
  BY <1>4, <1>5, <1>6, <1>7, ClientSteps
<1>9. QED
  BY <1>4, <1>5, <1>8, KeptSteps DEF Client, Promise

\* The end of a provisioning link, by state.
LEMMA LinkGoneSteps ==
    ASSUME StepsInv, UNCHANGED replies,
           Client(LinkReport([cl EXCEPT !.plink = PbDown], FALSE))
    PROVE  StepsInv' /\ Promise(cl, cl')
<1> DEFINE c == [cl EXCEPT !.plink = PbDown]
           d == LinkReport(c, FALSE)
<1>1. Phase(cl) /\ Linked(cl) /\ Good(cl)
  BY PhaseHolds DEF StepsInv
<1>2. Alike(cl, c) /\ c.plink.st = "down" /\ c.link = cl.link
  BY <1>1 DEF Alike, PbDown, Good, IsClient
<1>3. Client(d)
  OBVIOUS
<1> HIDE DEF c
<1>4. Phase(c) /\ Kept(cl, c) /\ Good(c) /\ Held(c)
  BY <1>1, <1>2, PhaseAlike, PhaseHolds
<1>5. c.state = cl.state /\ c.addr = cl.addr /\ (Connected(c) <=> Connected(cl))
  BY <1>2 DEF Alike, Connected
<1>6. /\ Steps(c, d) /\ Linked(d) /\ (Connected(c) => Connected(d)) /\ Follows(c, d)
      /\ d.state = "GET_REMOTE_COMPOSITION_DATA" => d.state = c.state
  <2>1. CASE c.state \in Opening
    <3>1. Opens(c) /\ c.link.st # "up"
      BY <1>1, <1>2, <1>4, <1>5, <2>1, PhaseQueue DEF Linked
    <3>2. d = ProvisionAgain(c)
      BY <2>1 DEF LinkReport, Opening
    <3> HIDE DEF d
    <3>3. Opened(c, d)
      BY <1>2, <3>1, <3>2, ProvisionAgainOpened
    <3>4. QED
      BY <2>1, <3>3 DEF Opened, Follows, Opening, Joining
  <2>2. CASE c.state = "PROVISION_DISCONNECTING"
    <3> DEFINE next == [c EXCEPT !.state = "NODE_CONNECTING"]
               zero == [next EXCEPT !.retries = 0]
    <3>1. d = ConnectProxy(zero, "node")
      <4>1. [c EXCEPT !.state = "NODE_CONNECTING", !.retries = 0] = zero
        OBVIOUS
      <4>2. QED
        BY <2>2, <4>1 DEF LinkReport
    <3>2. Aside(c, next) /\ next.state = "NODE_CONNECTING" /\ next.queue = c.queue
      BY <1>4, StateAside DEF Good, IsClient
    <3> HIDE DEF next
    <3>3. Kept(c, next)
      BY <1>4, <3>2, KeptAside
    <3>4. Joins(c)
      BY <1>4, <2>2, PhaseQueue DEF Joining
    <3>5. Joins(next)
      BY <3>2, <3>3, <3>4, JoinsKept DEF Joining
    <3>6. Apart(next, zero) /\ Good(next)
      <4>1. Good(next)
        BY <3>5 DEF Joins, Held
      <4>2. Aside(next, zero) /\ zero.state = next.state
        BY <4>1, RetriesAside
      <4>3. zero.queue = next.queue /\ zero.remote_comp = next.remote_comp
        BY <4>1 DEF Good, IsClient
      <4>4. QED
        BY <4>1, <4>2, <4>3 DEF Apart
    <3> HIDE DEF zero
    <3>7. Phase(zero) /\ Kept(next, zero)
      BY <3>5, <3>6, PhaseApart DEF Phase
    <3>8. Apart(zero, ConnectProxy(zero, "node"))
      BY <3>7, PhaseHolds, ConnectProxyApart
    <3> HIDE DEF d
    <3>9. Phase(d) /\ Kept(zero, d)
      BY <3>1, <3>7, <3>8, PhaseApart
    <3>10. Kept(c, d)
      BY <3>3, <3>7, <3>9, KeptChain
    <3>11. /\ d.plink = c.plink /\ (Connected(c) => Connected(d))
           /\ d.state = "NODE_CONNECTING"
      BY <3>1, <3>2, <3>6, <3>8 DEF Apart, Aside, Beside
    <3>12. Linked(d)
      BY <1>2, <3>11, LinkedEnded DEF Opening
    <3>13. QED
      BY <2>2, <3>9, <3>10, <3>11, <3>12, KeptSteps DEF Follows
  <2>3. CASE c.state \notin Opening \cup {"PROVISION_DISCONNECTING"}
    <3>1. d = c
      BY <2>3 DEF LinkReport, Opening
    <3>2. Linked(c)
      BY <1>2, <2>3, LinkedEnded
    <3> HIDE DEF d
    <3>3. QED
      BY <1>4, <3>1, <3>2, KeptSelf, KeptSteps DEF Follows
  <2>4. QED
    BY <2>1, <2>2, <2>3
<1> HIDE DEF d
<1>7. Steps(cl, d) /\ Phase(d)
  BY <1>1, <1>4, <1>6, StepsChain DEF Steps
<1>8. Follows(cl, d)
  BY <1>5, <1>6 DEF Follows
<1>9. StepsInv'
  BY <1>3, <1>5, <1>6, <1>7, <1>8, ClientSteps
<1>10. QED
  BY <1>3, <1>7, <1>9 DEF Client, Promise

LEMMA PbCapabilitiesSteps ==
    ASSUME StepsInv, PbCapabilities
    PROVE  StepsInv' /\ Promise(cl, cl')
<1> DEFINE d == DeviceCaps(cl)
<1>1. Phase(cl) /\ Linked(cl) /\ cl.state = "CONNECTING" /\ cl.plink.st = "open"
  BY DEF StepsInv, PbCapabilities, Linked
<1>2. Client(d) /\ UNCHANGED replies
  BY <1>1 DEF PbCapabilities, PbStep
<1>3. Opens(cl)
  BY <1>1, PhaseQueue DEF Opening
<1>4. Opened(cl, d)
  BY <1>1, <1>3, DeviceCapsOpened
<1> HIDE DEF d
<1>5. Follows(cl, d) /\ d.state # "GET_REMOTE_COMPOSITION_DATA"
  BY <1>1, <1>4 DEF Follows, Opened, Joining
<1>6. StepsInv'
  BY <1>2, <1>4, <1>5, ClientSteps DEF Opened, Steps
<1>7. QED
  BY <1>2, <1>4, <1>6 DEF Client, Promise, Opened

LEMMA PbEndSteps ==
    ASSUME StepsInv, NEW ok \in BOOLEAN, PbEnd(ok)
    PROVE  StepsInv' /\ Promise(cl, cl')
<1> DEFINE c == [cl EXCEPT !.plink.st = "ended"]
           d == ProvisionEnd(c, ok)
<1>1. /\ Phase(cl) /\ Linked(cl) /\ Good(cl) /\ cl.state = "PROVISIONING"
      /\ cl.plink.st = "started"
  BY PhaseHolds DEF StepsInv, PbEnd, Linked
<1>2. Client(d) /\ UNCHANGED replies
  BY <1>1 DEF PbEnd, PbStep
<1>3. /\ Alike(cl, c) /\ c.plink.st = "ended" /\ c.link = cl.link
      /\ c.over_gatt = cl.over_gatt
  BY <1>1 DEF Alike, Good, IsClient
<1> HIDE DEF c
<1>4. Phase(c) /\ Kept(cl, c)
  BY <1>1, <1>3, PhaseAlike
<1>5. Opens(c) /\ (Connected(c) <=> Connected(cl)) /\ c.uuid = cl.uuid
  BY <1>1, <1>3, <1>4, PhaseQueue DEF Alike, Opening, Connected
<1>6. c.addr \in Unicast /\ NodesAt(c, c.addr) = {} /\ (~ c.over_gatt => ~ Connected(c))
  BY <1>1, <1>3 DEF Linked, Alike, NodesAt, Connected
<1>7. /\ Phase(d) /\ (Steps(c, d) \/ Joined(c, d))
      /\ Linked(d) /\ (Connected(c) => Connected(d))
      /\ d.state = "GET_REMOTE_COMPOSITION_DATA" => ~ Connected(c)
  BY <1>3, <1>5, <1>6, ProvisionEndJoins
<1> HIDE DEF d
<1>8. Follows(cl, d)
  BY <1>1 DEF Follows
<1>9. StepsInv'
  BY <1>2, <1>5, <1>7, <1>8, ClientSteps
<1>10. Steps(cl, d) \/ Joined(cl, d)
  <2>1. CASE Steps(c, d)
    BY <1>1, <1>4, <2>1, StepsChain
  <2>2. CASE Joined(c, d)
    BY <1>4, <1>5, <2>2 DEF Joined, Kept, Same
  <2>3. QED
    BY <1>7, <2>1, <2>2
<1>11. QED
  BY <1>2, <1>9, <1>10 DEF Client, Promise

LEMMA ConnectionsSteps ==
    ASSUME StepsInv, Connections
    PROVE  StepsInv' /\ Promise(cl, cl')
<1>1. ASSUME PbCloses \/ \E b \in BOOLEAN : PbLost(b)
      PROVE  StepsInv' /\ Promise(cl, cl')
  <2>1. /\ Client(LinkReport([cl EXCEPT !.plink = PbDown], FALSE)) /\ UNCHANGED replies
    BY <1>1 DEF PbCloses, PbLost, PbStep
  <2>2. QED
    BY <2>1, LinkGoneSteps
<1>2. QED
  BY <1>1, ProxyUpSteps, ProxyGoneSteps, PbOpensSteps, PbCapabilitiesSteps, PbEndSteps
     DEF Connections

-----------------------------------------------------------------------------
(* The initial state. *)

LEMMA InitHolds ==
    /\ Phase(ClientInit) /\ Linked(ClientInit)
    /\ \A x \in Devices :
          /\ ClientInit.told[x] = "none"
          /\ StageIn(ClientInit.db, x) =
                IF x \in {Known[i] : i \in DOMAIN Known} THEN "member" ELSE "out"
<1> DEFINE node(i) == [Record(Known[i], i + 1) EXCEPT !.complete = TRUE]
           c       == ClientInit
<1>1. Good(c)
  BY FreeInit DEF Free
<1>2. c.db = {node(i) : i \in DOMAIN Known}
  BY DEF ClientInit
<1>3. /\ c.state = "IDLE" /\ c.uuid = NoDevice /\ c.completed_sent = FALSE
      /\ c.last_status = "NONE" /\ c.plink.st = "down" /\ c.link.st = "down"
      /\ c.told = [d \in Devices \cup {NoDevice} |-> "none"]
  BY DEF ClientInit, PbDown, Down
<1>4. \A i : node(i).complete /\ ~ node(i).blocked /\ node(i).uuid = Known[i]
  <2> SUFFICES ASSUME NEW i
               PROVE  node(i).complete /\ ~ node(i).blocked /\ node(i).uuid = Known[i]
    OBVIOUS
  <2> DEFINE d == Known[i]
             a == i + 1
             r == node(i)
  <2>1. r = [Record(d, a) EXCEPT !.complete = TRUE]
    OBVIOUS
  <2> HIDE DEF d, a, r
  <2>2. r.complete /\ ~ r.blocked /\ r.uuid = d
    BY <2>1 DEF Record
  <2>3. QED
    BY <2>2 DEF d, r
<1> HIDE DEF node, c
<1>5. \A r \in c.db : r.complete /\ ~ r.blocked /\ r.uuid \in {Known[i] : i \in DOMAIN Known}
  BY <1>2, <1>4
<1>6. \A i \in DOMAIN Known : \E r \in c.db : r.uuid = Known[i]
  BY <1>2, <1>4
<1>7. ASSUME NEW x \in Devices
      PROVE  StageIn(c.db, x) =
                IF x \in {Known[i] : i \in DOMAIN Known} THEN "member" ELSE "out"
  <2>1. CASE x \in {Known[i] : i \in DOMAIN Known}
    <3>1. PICK r \in c.db : r.uuid = x
      BY <1>6, <2>1
    <3>2. StageIn(c.db, x) = Mark(r)
      BY <1>1, <3>1, StageOfRecord DEF Good
    <3>3. QED
      BY <1>5, <2>1, <3>1, <3>2 DEF Mark
  <2>2. CASE x \notin {Known[i] : i \in DOMAIN Known}
    BY <1>5, <2>2, StageOfNone
  <2>3. QED
    BY <2>1, <2>2
<1>8. Held(c)
  <2>1. c.told = [d \in Devices \cup {NoDevice} |-> c.told[d]]
    BY <1>3
  <2>2. \A d \in Devices : c.told[d] = "none" /\ d # c.uuid
    BY <1>3, ProvisioningAssumption
  <2>3. c.last_status \notin Ongoing
    BY <1>3 DEF Ongoing
  <2>4. QED
    BY <1>1, <1>3, <1>5, <2>1, <2>2, <2>3 DEF Held
<1>9. Rests(c)
  BY <1>3, <1>8 DEF Rests, Settled, Active, Opening, Joining
<1>10. Phase(c) /\ Linked(c)
  BY <1>3, <1>9, LinkedEnded DEF Phase, Busy, Opening
<1>11. QED
  BY <1>3, <1>7, <1>10 DEF c

LEMMA StepsInit == Init => StepsInv
<1> SUFFICES ASSUME Init PROVE StepsInv
  OBVIOUS
<1>1. Phase(cl) /\ Linked(cl)
  BY InitHolds DEF Init
<1>2. Sent(cl, inflight)
  BY DEF Init, Sent
<1>3. Got(cl, replies)
  <2> DEFINE S == {}
  <2>1. <<>> \in Seq(S)
    OBVIOUS
  <2> HIDE DEF S
  <2>2. replies \in [Addresses -> Seq(S)] /\ \A b \in Addresses : replies[b] = <<>>
    BY <2>1 DEF Init
  <2>3. QED
    BY <2>2 DEF Got
<1>4. QED
  BY <1>1, <1>2, <1>3 DEF StepsInv

-----------------------------------------------------------------------------
(***************************************************************************)
(* The steps of the client as those of module Membership.                   *)
(***************************************************************************)
LEMMA StageIs == \A x : Stage(x) = StageIn(cl.db, x)
BY DEF Stage, StageIn

LEMMA StageIsNext == \A x : Stage(x)' = StageIn(cl'.db, x)
BY DEF Stage, StageIn

LEMMA PromiseInit == Init => Promised!Init
<1> SUFFICES ASSUME Init PROVE Promised!Init
  OBVIOUS
<1>1. \A x \in Devices :
         /\ cl.told[x] = "none"
         /\ Stage(x) = IF x \in {Known[i] : i \in DOMAIN Known} THEN "member" ELSE "out"
  BY InitHolds, StageIs DEF Init
<1>2. QED
  BY <1>1 DEF Promised!Init

LEMMA KeptPromise ==
    ASSUME Kept(cl, cl')
    PROVE  UNCHANGED Promised!vars
<1>1. \A x \in Devices : Stage(x)' = Stage(x) /\ cl'.told[x] = cl.told[x]
  BY StageIs, StageIsNext DEF Kept, Same
<1>2. QED
  BY <1>1 DEF Promised!vars

\* The device under way is the one the application waits for.
LEMMA PendingOne ==
    ASSUME Held(cl), ~ Settled(cl)
    PROVE  cl.uuid \in Devices /\ cl.told[cl.uuid] = "pending"
<1>1. cl.uuid \in Devices /\ ~ cl.completed_sent
  BY DEF Settled, Held, Good, IsClient
<1>2. QED
  BY <1>1 DEF Held

LEMMA FailedPromise ==
    ASSUME Held(cl), Failed(cl, cl')
    PROVE  Promised!Next
<1> DEFINE d == cl.uuid
<1>1. d \in Devices /\ cl.told[d] = "pending"
  BY PendingOne DEF Failed
<1>2. \A x \in Devices :
         /\ cl'.told[x] = IF x = d THEN "FAILED" ELSE cl.told[x]
         /\ Stage(x)' = IF x = d /\ Stage(x) = "fresh" THEN "revoked" ELSE Stage(x)
  BY StageIs, StageIsNext DEF Failed
<1> HIDE DEF d
<1>3. Promised!Fail(d)
  BY <1>1, <1>2 DEF Promised!Fail
<1>4. Promised!End
  BY <1>1, <1>3 DEF Promised!End, Promised!Fail, Promised!Succeed
<1>5. QED
  BY <1>4 DEF Promised!Next

LEMMA SucceededPromise ==
    ASSUME Held(cl), Succeeded(cl, cl')
    PROVE  Promised!Next
<1> DEFINE d == cl.uuid
<1>1. d \in Devices /\ cl.told[d] = "pending" /\ Stage(d) = "fresh"
  BY PendingOne, StageIs DEF Succeeded
<1>2. \A x \in Devices :
         /\ cl'.told[x] = IF x = d THEN "SUCCESS" ELSE cl.told[x]
         /\ Stage(x)' = IF x = d THEN "member" ELSE Stage(x)
  BY StageIs, StageIsNext DEF Succeeded
<1> HIDE DEF d
<1>3. Promised!Succeed(d)
  BY <1>1, <1>2 DEF Promised!Succeed
<1>4. Promised!End
  BY <1>1, <1>3 DEF Promised!End, Promised!Fail, Promised!Succeed
<1>5. QED
  BY <1>4 DEF Promised!Next

LEMMA RemovedPromise ==
    ASSUME Removed(cl, cl')
    PROVE  Promised!Next \/ UNCHANGED Promised!vars
<1>1. \A x \in Devices :
         /\ cl'.told[x] = cl.told[x]
         /\ Stage(x)' = IF Stage(x) = "revoked" THEN "out" ELSE Stage(x)
  BY StageIs, StageIsNext DEF Removed
<1>2. CASE \E x \in Devices : Stage(x) = "revoked"
  <2>1. Promised!Remove
    BY <1>1, <1>2 DEF Promised!Remove
  <2>2. QED
    BY <2>1 DEF Promised!Next
<1>3. CASE ~ \E x \in Devices : Stage(x) = "revoked"
  BY <1>1, <1>3 DEF Promised!vars
<1>4. QED
  BY <1>2, <1>3

LEMMA JoinedPromise ==
    ASSUME Held(cl), Joined(cl, cl')
    PROVE  Promised!Next
<1> DEFINE d == cl.uuid
<1>1. d \in Devices /\ cl.told[d] = "pending"
  BY PendingOne DEF Joined
<1>2. \A x \in Devices :
         cl'.told[x] = cl.told[x] /\ Stage(x)' = IF x = d THEN "fresh" ELSE Stage(x)
  BY StageIs, StageIsNext DEF Joined
<1> HIDE DEF d
<1>3. Promised!Join(d)
  BY <1>1, <1>2 DEF Promised!Join
<1>4. QED
  BY <1>1, <1>3 DEF Promised!Next

LEMMA AskedPromise ==
    ASSUME Asked(cl, cl')
    PROVE  Promised!Next
<1>1. PICK d \in Devices : Started(cl, cl', d)
  BY DEF Asked
<1>2. \A x \in Devices :
         cl'.told[x] = (IF x = d THEN "pending" ELSE cl.told[x]) /\ Stage(x)' = Stage(x)
  BY <1>1, StageIs, StageIsNext DEF Started
<1>3. \A x \in Devices : cl.told[x] # "pending"
  BY ProvisioningAssumption DEF Asked, Rests, Held, Settled
<1>4. Promised!Start(d)
  BY <1>2, <1>3 DEF Promised!Start
<1>5. QED
  BY <1>4 DEF Promised!Next

LEMMA PromiseKept ==
    ASSUME StepsInv, Promise(cl, cl')
    PROVE  [Promised!Next]_(Promised!vars)
<1>1. Held(cl)
  BY PhaseHolds DEF StepsInv
<1>2. QED
  BY <1>1, KeptPromise, FailedPromise, SucceededPromise, RemovedPromise, JoinedPromise,
     AskedPromise DEF Promise, Steps, Moved

-----------------------------------------------------------------------------
\* The client does what Membership promises, for every set of devices, every database
\* at the start and however often connections, messages and answers are lost: a device
\* becomes a member exactly when provision_status_notify reports its success, one that
\* was not configured to the end is revoked when it reports the failure, one that is
\* being removed is gone when a refresh ends, and nothing else happens to any device.
\* It takes what wiced_mesh_client.c leaves to its callers and to the devices: the
\* application does not disconnect in the middle of a procedure, no device rejects a
\* binding, and the composition data is answered once.
THEOREM ClientKeepsPromise ==
    ASSUME "BIND" \notin Rejects, "COMP_GET" \notin DupKinds
    PROVE  Spec /\ [][Patient]_vars => StepsAsPromised
<1>1. Init => StepsInv /\ Promised!Init
  BY StepsInit, PromiseInit
<1>2. StepsInv /\ [Next]_vars /\ [Patient]_vars => StepsInv' /\ [Promised!Next]_(Promised!vars)
  <2> SUFFICES ASSUME StepsInv, [Next]_vars, [Patient]_vars
               PROVE  StepsInv' /\ [Promised!Next]_(Promised!vars)
    OBVIOUS
  <2>1. CASE Next /\ Patient
    <3>1. StepsInv' /\ Promise(cl, cl')
      BY <2>1, UserSteps, MessagesSteps, ConnectionsSteps DEF Next
    <3>2. QED
      BY <3>1, PromiseKept
  <2>2. CASE UNCHANGED vars
    <3>1. UNCHANGED <<cl, inflight, replies>>
      BY <2>2 DEF vars
    <3>2. Got(cl, replies') /\ UNCHANGED <<cl, inflight>>
      BY <3>1 DEF StepsInv
    <3>3. StepsInv' /\ Promise(cl, cl')
      BY <3>2, RepliesSteps
    <3>4. QED
      BY <3>3, PromiseKept
  <2>3. QED
    BY <2>1, <2>2
<1>3. QED
  BY <1>1, <1>2, PTL DEF Spec, StepsAsPromised

\* While the client keeps its promise no device is left half configured once the
\* application was told of its end, and only one whose provisioning was reported as
\* failed, or that is provisioned again, is on its way out of the network: what
\* wiced_mesh_client.h says of the statuses of mesh_client_provision.
THEOREM NoneHalfConfigured ==
    ASSUME "BIND" \notin Rejects, "COMP_GET" \notin DupKinds
    PROVE  Spec /\ [][Patient]_vars => []Promised!Inv
<1>1. Promised!Init /\ [][Promised!Next]_(Promised!vars) => []Promised!Inv
  BY Promised!MembershipHolds
<1>2. QED
  BY <1>1, ClientKeepsPromise, PTL DEF StepsAsPromised

-----------------------------------------------------------------------------
(***************************************************************************)
(* The configuration of a node to its end.  While it goes on, the operations *)
(* that are left and the messages the node accepted make up the whole of it, *)
(* at most the operation at the head is being transmitted, and an answer     *)
(* about a key is the only one and is to that operation: an answer about     *)
(* another one would take the operation at the head away during a refresh.   *)
(***************************************************************************)
KeyKinds == {"NET_KEY", "APP_KEY"}

\* What the devices keep.
Devs(v) == \E S : v \in [Devices -> [new : BOOLEAN, addr : S, applied : SUBSET Required]]

\* Without a connection no answer is on its way, but for those of the client itself;
\* and while the composition data is read none is to a message of a configuration.
Drained(c, rs) ==
    /\ ~ Connected(c) => \A b \in Addresses : b # Local => rs[b] = <<>>
    /\ \A b \in Addresses : \A i \in DOMAIN rs[b] : rs[b][i].kind \in ConfigKinds =>
          /\ b # Local /\ rs[b][i].src = b
          /\ c.state # "GET_REMOTE_COMPOSITION_DATA"
          /\ rs[b][i].kind = "SET" => rs[b][i].ok

\* The operations that are left are of this node, each kind once, and a message it has
\* not accepted is among them.
QueueLeft(c, v) ==
    /\ \A i \in DOMAIN c.queue :
          \/ c.queue[i].kind = "FILTER_ADD"
          \/ c.queue[i].kind \in ConfigKinds /\ c.queue[i].dst = c.addr
    /\ \A i, j \in DOMAIN c.queue : c.queue[i].kind = c.queue[j].kind => i = j
    /\ \A k \in Required : k \in v[c.uuid].applied \/ \E i \in DOMAIN c.queue : c.queue[i].kind = k

OneSent(c, ms) == \A m \in ms : m.kind \in Direct \/ m = Head(c.queue)

KeyAnswers(c, rs) ==
    \A b \in Addresses : \A i \in DOMAIN rs[b] : rs[b][i].kind \in KeyKinds =>
        /\ HeadIs(c, rs[b][i].kind, b)
        /\ \A j \in DOMAIN rs[b] : rs[b][j].kind \in KeyKinds => j = i

\* What the node says it accepted it did accept.
AnswersMean(c, v, rs) ==
    \A b \in Addresses : \A i \in DOMAIN rs[b] :
        rs[b][i].kind \in Required /\ rs[b][i].ok /\ b = c.addr =>
            rs[b][i].kind \in v[c.uuid].applied

OnTrack(c, v, ms, rs) ==
    c.state = "CONFIGURATION" =>
        QueueLeft(c, v) /\ OneSent(c, ms) /\ KeyAnswers(c, rs) /\ AnswersMean(c, v, rs)

\* The nodes are devices, and a device that is being provisioned is given the address
\* that is kept for it.
Owned(c)   == \A r \in c.db : r.uuid \in Devices
Plinked(c) == c.plink.st = "started" => c.plink.addr = c.addr

Proper(c, v) ==
    \A r \in c.db : r.complete /\ ~ r.blocked /\ v[r.uuid].addr = r.addr =>
        v[r.uuid].applied = Required

ConfInv ==
    /\ Devs(dev) /\ Owned(cl) /\ Plinked(cl)
    /\ Drained(cl, replies)
    /\ OnTrack(cl, dev, inflight, replies)
    /\ Proper(cl, dev)

-----------------------------------------------------------------------------
(* What a step does to the devices, the database and what was told. *)

\* A device that has the address of a node had it, and accepted no less.
Lasts(c, v, w) ==
    \A r \in c.db : r.complete /\ ~ r.blocked /\ w[r.uuid].addr = r.addr =>
        v[r.uuid].addr = r.addr /\ v[r.uuid].applied \subseteq w[r.uuid].applied

\* A node was there, or is new and not configured.
Based(c, d) ==
    \A r \in d.db :
        \/ \E s \in c.db : s.uuid = r.uuid /\ s.addr = r.addr
        \/ r.uuid \in Devices /\ ~ r.complete

Told(c, d, w) ==
    \A x \in Devices : d.told[x] = "SUCCESS" /\ c.told[x] # "SUCCESS" => w[x].applied = Required

\* Nothing is configured, and no success reported.
Out(c, d) ==
    /\ d.state # "CONFIGURATION"
    /\ \A x \in Devices : d.told[x] = "SUCCESS" => c.told[x] = "SUCCESS"

LEMMA OutTold ==
    ASSUME NEW c, NEW d, Out(c, d), NEW w
    PROVE  Told(c, d, w)
BY DEF Out, Told

LEMMA MemberMark ==
    ASSUME NEW db, DbOK(db), NEW x, StageIn(db, x) = "member"
    PROVE  \E r \in db : r.uuid = x /\ r.complete /\ ~ r.blocked
<1>1. PICK r \in db : r.uuid = x
  BY StageOfNone
<1>2. Mark(r) = "member"
  BY <1>1, StageOfRecord
<1>3. QED
  BY <1>1, <1>2 DEF Mark

\* Who is a member after a step was one before or is the one whose success is reported.
LEMMA PromiseMembers ==
    ASSUME NEW c, NEW d, Held(c), Promise(c, d), NEW x \in Devices, StageIn(d.db, x) = "member"
    PROVE  \/ StageIn(c.db, x) = "member"
           \/ c.told[x] = "pending" /\ d.told[x] = "SUCCESS"
<1>1. CASE Kept(c, d)
  BY <1>1 DEF Kept, Same
<1>2. CASE Failed(c, d)
  <2>1. StageIn(d.db, x) = IF x = c.uuid /\ StageIn(c.db, x) = "fresh" THEN "revoked"
                           ELSE StageIn(c.db, x)
    BY <1>2 DEF Failed
  <2>2. QED
    BY <2>1
<1>3. CASE Succeeded(c, d)
  <2>1. StageIn(d.db, x) = IF x = c.uuid THEN "member" ELSE StageIn(c.db, x)
    BY <1>3 DEF Succeeded
  <2>2. CASE x = c.uuid
    <3>1. d.told[x] = "SUCCESS" /\ ~ Settled(c)
      BY <1>3, <2>2 DEF Succeeded
    <3>2. QED
      BY <2>2, <3>1 DEF Held, Settled
  <2>3. QED
    BY <2>1, <2>2
<1>4. CASE Removed(c, d)
  <2>1. StageIn(d.db, x) = IF StageIn(c.db, x) = "revoked" THEN "out" ELSE StageIn(c.db, x)
    BY <1>4 DEF Removed
  <2>2. QED
    BY <2>1
<1>5. CASE Joined(c, d)
  <2>1. StageIn(d.db, x) = IF x = c.uuid THEN "fresh" ELSE StageIn(c.db, x)
    BY <1>5 DEF Joined
  <2>2. QED
    BY <2>1
<1>6. CASE Asked(c, d)
  BY <1>6 DEF Asked, Started
<1>7. QED
  BY <1>1, <1>2, <1>3, <1>4, <1>5, <1>6 DEF Promise, Steps, Moved

\* A node that is completely configured stays so.
LEMMA ProperStep ==
    ASSUME NEW c, Held(c), NEW v, Owned(c), Proper(c, v), Devs(v),
           NEW d, Good(d), Promise(c, d), Based(c, d),
           NEW w, Devs(w), Lasts(c, v, w), Told(c, d, w)
    PROVE  Owned(d) /\ Proper(d, w)
<1>1. Owned(d)
  BY DEF Owned, Based
<1>2. ASSUME NEW r \in d.db, r.complete, ~ r.blocked, w[r.uuid].addr = r.addr
      PROVE  w[r.uuid].applied = Required
  <2>1. r.uuid \in Devices
    BY <1>1 DEF Owned
  <2>2. StageIn(d.db, r.uuid) = "member"
    BY <1>2, StageOfRecord DEF Good, Mark
  <2>3. CASE c.told[r.uuid] = "pending" /\ d.told[r.uuid] = "SUCCESS"
    BY <2>1, <2>3 DEF Told
  <2>4. CASE StageIn(c.db, r.uuid) = "member"
    <3>1. PICK s \in c.db : s.uuid = r.uuid /\ s.complete /\ ~ s.blocked
      BY <2>4, MemberMark DEF Held, Good
    <3>2. PICK t \in c.db : t.uuid = r.uuid /\ t.addr = r.addr
      BY <1>2 DEF Based
    <3>3. s = t
      BY <3>1, <3>2 DEF Held, Good, DbOK, Unique
    <3>4. v[r.uuid].addr = r.addr /\ v[r.uuid].applied \subseteq w[r.uuid].applied
      BY <1>2, <3>1, <3>2, <3>3 DEF Lasts
    <3>5. v[r.uuid].applied = Required
      BY <3>1, <3>2, <3>3, <3>4 DEF Proper
    <3>6. w[r.uuid].applied \subseteq Required
      BY <2>1 DEF Devs
    <3>7. QED
      BY <3>4, <3>5, <3>6
  <2>5. QED
    BY <2>1, <2>2, <2>3, <2>4, PromiseMembers
<1>3. QED
  BY <1>1, <1>2 DEF Proper


\* The closing of a step: what has to be shown of each.
LEMMA Conclude ==
    ASSUME StepsInv, ConfInv, Phase(cl'), Promise(cl, cl'), Based(cl, cl'), Plinked(cl'),
           Devs(dev'), Lasts(cl, dev, dev'), Told(cl, cl', dev'), Drained(cl', replies'),
           OnTrack(cl', dev', inflight', replies')
    PROVE  ConfInv'
<1>1. Held(cl) /\ Good(cl')
  BY PhaseHolds DEF StepsInv
<1>2. Owned(cl') /\ Proper(cl', dev')
  BY <1>1, ProperStep DEF ConfInv
<1>3. QED
  BY <1>2 DEF ConfInv, Devs, Owned, Plinked, Drained, OnTrack, QueueLeft, OneSent, KeyAnswers,
     AnswersMean, Proper, Connected, HeadIs

\* The closing of one that leaves the configuration, or has nothing to do with it.
LEMMA ConcludeOut ==
    ASSUME StepsInv, ConfInv, Phase(cl'), Promise(cl, cl'), Based(cl, cl'), Plinked(cl'),
           Devs(dev'), Lasts(cl, dev, dev'), Out(cl, cl'), Drained(cl', replies')
    PROVE  ConfInv' /\ Told(cl, cl', dev')
<1>1. Told(cl, cl', dev')
  BY OutTold
<1>2. OnTrack(cl', dev', inflight', replies')
  BY DEF Out, OnTrack
<1>3. QED
  BY <1>1, <1>2, Conclude

LEMMA CalmBased ==
    ASSUME NEW c, NEW d, Calm(c, d)
    PROVE  Based(c, d)
BY DEF Calm, NoNew, Based

LEMMA CalmPlinked ==
    ASSUME NEW c, Plinked(c), NEW d, Calm(c, d), Linked(d)
    PROVE  Plinked(d)
BY DEF Calm, Plinked, Linked, Opening

\* Out of the provisioning nothing is asked of its link.
LEMMA LinkedPlinked ==
    ASSUME NEW d, Linked(d), d.state # "PROVISIONING"
    PROVE  Plinked(d)
BY DEF Linked, Plinked

\* By phase: a client that rests does not begin to configure or to join a node.
LEMMA RestsOut ==
    ASSUME NEW c, Rests(c), NEW d, Promise(c, d)
    PROVE  Out(c, d) /\ d.state \notin Joining /\ (d.state \in Opening => Asked(c, d))
<1>1. Settled(c)
  BY DEF Rests
<1>2. CASE Steps(c, d)
  <2>1. Kept(c, d) \/ Removed(c, d)
    BY <1>1, <1>2, SettledKeeps DEF Steps
  <2>2. Settled(d)
    BY <1>1, <2>1 DEF Kept, Removed, Rests
  <2>3. Rests(d)
    BY <1>2, <2>2 DEF Steps, Phase, Opens, Joins, Busy, Configures, Held
  <2>4. \A x \in Devices : d.told[x] = c.told[x]
    BY <2>1 DEF Kept, Same, Removed
  <2>5. QED
    BY <2>3, <2>4 DEF Out, Rests, Active
<1>3. CASE Joined(c, d)
  BY <1>1, <1>3 DEF Joined
<1>4. CASE Asked(c, d)
  <2>1. PICK x \in Devices : Started(c, d, x)
    BY <1>4 DEF Asked
  <2>2. d.state \in Opening /\ \A y \in Devices : d.told[y] \in {"pending", c.told[y]}
    BY <2>1 DEF Started, Opens
  <2>3. QED
    BY <1>4, <2>2 DEF Out, Opening, Joining
<1>5. QED
  BY <1>2, <1>3, <1>4 DEF Promise

\* What ended with a failure is at rest.
LEMMA FailedOut ==
    ASSUME NEW c, NEW d, Failed(c, d), Phase(d)
    PROVE  Out(c, d) /\ Rests(d) /\ d.state \notin Active
<1>1. Rests(d)
  BY DEF Failed, Phase, Opens, Joins, Busy, Configures, Held
<1>2. \A x \in Devices : d.told[x] = "SUCCESS" => c.told[x] = "SUCCESS"
  BY DEF Failed
<1>3. QED
  BY <1>1, <1>2 DEF Out, Rests, Active

\* The provisioning leads to a node that is created, or to its end.
LEMMA OpensOut ==
    ASSUME NEW c, Opens(c), NEW d, Promise(c, d)
    PROVE  Out(c, d)
<1>1. Held(c) /\ ~ Settled(c) /\ c.last_status \notin Ongoing
  BY DEF Opens
<1>2. CASE Kept(c, d) /\ Phase(d)
  <2>1. ~ Joins(d) /\ ~ Configures(d)
    BY <1>1, <1>2 DEF Kept, Joins, Configures
  <2>2. d.state # "CONFIGURATION"
    BY <1>2, <2>1 DEF Phase, Opens, Busy, Rests, Opening, Active
  <2>3. QED
    BY <1>2, <2>2 DEF Out, Kept, Same
<1>3. CASE Failed(c, d) /\ Phase(d)
  BY <1>3, FailedOut
<1>4. CASE Succeeded(c, d)
  <2>1. c.uuid \in Devices
    BY <1>1 DEF Settled, Held, Good, IsClient
  <2>2. StageIn(c.db, c.uuid) # "fresh"
    BY <1>1, <2>1, NoneFresh
  <2>3. QED
    BY <1>4, <2>2 DEF Succeeded
<1>5. CASE Removed(c, d)
  BY <1>5 DEF Out, Removed, Rests, Active
<1>6. CASE Joined(c, d)
  BY <1>6 DEF Out, Joined, Joins, Joining
<1>7. CASE Asked(c, d)
  BY <1>1, <1>7 DEF Asked, Rests
<1>8. QED
  BY <1>2, <1>3, <1>4, <1>5, <1>6, <1>7 DEF Promise, Steps, Moved

\* A node that is being connected to is not configured yet: it goes on, or fails.
Onward(c, d) == Failed(c, d) \/ d.state \in Joining

LEMMA JoinsOut ==
    ASSUME NEW c, Joins(c), NEW d, Promise(c, d), Onward(c, d)
    PROVE  Out(c, d)
<1>1. ~ Settled(c)
  BY DEF Joins, Held
<1>2. CASE Failed(c, d) /\ Phase(d)
  BY <1>2, FailedOut
<1>3. CASE d.state \in Joining /\ Steps(c, d)
  <2>1. Joins(d)
    BY <1>3, PhaseQueue DEF Steps
  <2>2. ~ Settled(d) /\ d.state # "CONFIGURATION"
    BY <2>1 DEF Joins, Held, Joining
  <2>3. \A x \in Devices : d.told[x] = c.told[x]
    BY <1>3, <2>2 DEF Steps, Moved, Kept, Failed, Succeeded, Removed, Rests, Same
  <2>4. QED
    BY <2>2, <2>3 DEF Out
<1>4. CASE Joined(c, d)
  BY <1>4 DEF Out, Joined, Joins, Joining
<1>5. CASE Asked(c, d)
  BY <1>1, <1>5 DEF Asked, Rests
<1>6. QED
  BY <1>2, <1>3, <1>4, <1>5 DEF Promise, Steps, Onward, Joined, Joins, Failed, Asked

-----------------------------------------------------------------------------
(* The answers on their way. *)

\* No answer more, and none by itself.
Fewer(rs, ts) ==
    \A b \in Addresses :
        /\ \A i \in DOMAIN ts[b] : \E j \in DOMAIN rs[b] : rs[b][j] = ts[b][i]
        /\ b # Local /\ rs[b] = <<>> => ts[b] = <<>>

LEMMA FewerSame == ASSUME NEW rs PROVE Fewer(rs, rs)
BY DEF Fewer

LEMMA DrainedFewer ==
    ASSUME NEW c, NEW rs, Drained(c, rs), NEW d, Connected(c) => Connected(d),
           d.state = "GET_REMOTE_COMPOSITION_DATA" => c.state = d.state \/ ~ Connected(c),
           NEW ts, Fewer(rs, ts)
    PROVE  Drained(d, ts)
<1>1. ~ Connected(d) => \A b \in Addresses : b # Local => ts[b] = <<>>
  BY DEF Drained, Fewer
<1>2. ASSUME NEW b \in Addresses, NEW i \in DOMAIN ts[b], ts[b][i].kind \in ConfigKinds
      PROVE  /\ b # Local /\ ts[b][i].src = b
             /\ d.state # "GET_REMOTE_COMPOSITION_DATA"
             /\ ts[b][i].kind = "SET" => ts[b][i].ok
  <2>1. PICK j \in DOMAIN rs[b] : rs[b][j] = ts[b][i]
    BY <1>2 DEF Fewer
  <2>2. /\ b # Local /\ ts[b][i].src = b /\ (ts[b][i].kind = "SET" => ts[b][i].ok)
        /\ c.state # "GET_REMOTE_COMPOSITION_DATA"
    BY <1>2, <2>1 DEF Drained
  <2>3. ASSUME d.state = "GET_REMOTE_COMPOSITION_DATA" PROVE FALSE
    <3>1. rs[b] = <<>>
      BY <2>2, <2>3 DEF Drained
    <3>2. QED
      BY <2>1, <3>1
  <2>4. QED
    BY <2>2, <2>3
<1>3. QED
  BY <1>1, <1>2 DEF Drained

\* The end of the connection.
LEMMA DrainedGone ==
    ASSUME NEW c, NEW rs, Drained(c, rs), NEW d
    PROVE  Drained(d, [a \in Addresses |-> IF a = Local THEN rs[a] ELSE <<>>])
<1> DEFINE ts == [a \in Addresses |-> IF a = Local THEN rs[a] ELSE <<>>]
<1>1. \A b \in Addresses : IF b = Local THEN ts[b] = rs[b] ELSE ts[b] = <<>>
  OBVIOUS
<1> HIDE DEF ts
<1>2. ASSUME NEW b \in Addresses, NEW i \in DOMAIN ts[b]
      PROVE  ts[b][i].kind \notin ConfigKinds
  BY <1>1, <1>2 DEF Drained
<1>3. Drained(d, ts)
  BY <1>1, <1>2 DEF Drained
<1>4. QED
  BY <1>3 DEF ts

\* The first answer of an address is taken.
Taken(rs, a, ts) ==
    /\ Fewer(rs, ts) /\ 1 \in DOMAIN rs[a] /\ Head(rs[a]) = rs[a][1]
    /\ \A b \in Addresses : b # a => ts[b] = rs[b]
    /\ \A i \in DOMAIN ts[a] :
          i \in Nat \ {0} /\ i + 1 \in DOMAIN rs[a] /\ ts[a][i] = rs[a][i + 1]

LEMMA TailFewer ==
    ASSUME NEW c, NEW rs, Got(c, rs), NEW a \in Addresses, rs[a] # <<>>,
           NEW ts, ts = [rs EXCEPT ![a] = Tail(@)]
    PROVE  Taken(rs, a, ts)
<1> DEFINE qa == rs[a]
           q  == Tail(qa)
<1>1. PICK S : rs \in [Addresses -> Seq(S)]
  BY DEF Got
<1>2. qa \in Seq(S) /\ qa # <<>>
  BY <1>1
<1>3. /\ q \in Seq(S) /\ Head(qa) = qa[1] /\ 1 \in DOMAIN qa
      /\ \A i \in DOMAIN q : i \in Nat \ {0} /\ i + 1 \in DOMAIN qa /\ q[i] = qa[i + 1]
  BY <1>2
<1>4. ts = [b \in Addresses |-> IF b = a THEN q ELSE rs[b]]
  BY <1>1
<1>5. Head(rs[a]) = Head(qa) /\ rs[a] = qa
  OBVIOUS
<1> HIDE DEF qa, q
<1>6. \A b \in Addresses : b # a => ts[b] = rs[b]
  BY <1>4
<1>7. ts[a] = q
  BY <1>4
<1>8. Fewer(rs, ts)
  <2>1. ASSUME NEW b \in Addresses, NEW i \in DOMAIN ts[b]
        PROVE  \E j \in DOMAIN rs[b] : rs[b][j] = ts[b][i]
    BY <1>3, <1>5, <1>6, <1>7
  <2>2. ASSUME NEW b \in Addresses, rs[b] = <<>>
        PROVE  ts[b] = <<>>
    BY <1>6, <2>2
  <2>3. QED
    BY <2>1, <2>2 DEF Fewer
<1>9. QED
  BY <1>3, <1>5, <1>6, <1>7, <1>8 DEF Taken


-----------------------------------------------------------------------------
(* The devices. *)

LEMMA DevSame ==
    ASSUME NEW c, NEW v
    PROVE  Lasts(c, v, v)
BY DEF Lasts

\* One device changes: it has no node's address, or accepted no less with the one it had.
Shaped(y) ==
    /\ y = [new |-> y.new, addr |-> y.addr, applied |-> y.applied]
    /\ y.new \in BOOLEAN /\ y.applied \subseteq Required

Becomes(v, x, y, w) == w = [v EXCEPT ![x] = y]

LEMMA DevOne ==
    ASSUME NEW v, Devs(v), NEW c, NEW x, NEW y, Shaped(y),
           NEW w, Becomes(v, x, y, w),
           \/ x \in Devices /\ y.addr = v[x].addr /\ v[x].applied \subseteq y.applied
           \/ \A r \in c.db : r.addr # y.addr
    PROVE  /\ Devs(w) /\ Lasts(c, v, w)
           /\ \A d \in Devices : d # x => w[d] = v[d]
           /\ x \in Devices => w[x] = y
<1> USE DEF Becomes
<1>1. PICK S : v \in [Devices -> [new : BOOLEAN, addr : S, applied : SUBSET Required]]
  BY DEF Devs
<1>2. DOMAIN v = Devices /\ v = [d \in Devices |-> v[d]]
  BY <1>1
<1>3. CASE x \notin Devices
  <2>1. w = v
    BY <1>2, <1>3
  <2>2. QED
    BY <1>3, <2>1 DEF Lasts
<1>4. CASE x \in Devices
  <2> DEFINE T == S \cup {y.addr}
  <2>1. /\ w \in [Devices -> [new : BOOLEAN, addr : T, applied : SUBSET Required]]
        /\ w[x] = y /\ \A d \in Devices : d # x => w[d] = v[d]
    <3>1. y \in [new : BOOLEAN, addr : T, applied : SUBSET Required]
      <4>1. \E e \in BOOLEAN, a \in T, p \in SUBSET Required :
               y = [new |-> e, addr |-> a, applied |-> p]
        BY DEF Shaped
      <4>2. QED
        BY <4>1
    <3>2. \A d \in Devices : v[d] \in [new : BOOLEAN, addr : T, applied : SUBSET Required]
      BY <1>1
    <3> HIDE DEF T
    <3>3. QED
      BY <1>2, <1>4, <3>1, <3>2
  <2> HIDE DEF T
  <2>2. Devs(w)
    BY <2>1 DEF Devs
  <2>3. ASSUME NEW r \in c.db, w[r.uuid].addr = r.addr, r.uuid # x => w[r.uuid] = v[r.uuid]
        PROVE  v[r.uuid].addr = r.addr /\ v[r.uuid].applied \subseteq w[r.uuid].applied
    BY <2>1, <2>3
  <2>4. \A d : d # x => w[d] = v[d]
    OBVIOUS
  <2>5. Lasts(c, v, w)
    BY <2>3, <2>4 DEF Lasts
  <2>6. QED
    BY <2>1, <2>2, <2>5
<1>5. QED
  BY <1>3, <1>4

\* The nodes that a refresh removed: they lost their address, and accepted what they did.
LEMMA DevCut ==
    ASSUME ConfInv, Held(cl), NEW c, dev' = [d \in Devices |-> CutOff(d, c)]
    PROVE  /\ Devs(dev') /\ Lasts(cl, dev, dev')
           /\ \A d \in Devices : dev'[d].applied = dev[d].applied
<1>1. PICK S : dev \in [Devices -> [new : BOOLEAN, addr : S, applied : SUBSET Required]]
  BY DEF ConfInv, Devs
<1> DEFINE T == S \cup {0}
<1>2. ASSUME NEW d \in Devices
      PROVE  /\ CutOff(d, c) \in [new : BOOLEAN, addr : T, applied : SUBSET Required]
             /\ CutOff(d, c).applied = dev[d].applied
             /\ CutOff(d, c).addr \in {0, dev[d].addr}
  <2> DEFINE y == [dev[d] EXCEPT !.addr = 0]
  <2>1. dev[d] \in [new : BOOLEAN, addr : S, applied : SUBSET Required]
    BY <1>1
  <2>2. /\ y \in [new : BOOLEAN, addr : T, applied : SUBSET Required]
        /\ y.applied = dev[d].applied /\ y.addr = 0
    BY <2>1
  <2>3. dev[d] \in [new : BOOLEAN, addr : T, applied : SUBSET Required]
    BY <2>1
  <2>4. CutOff(d, c) \in {y, dev[d]}
    BY DEF CutOff
  <2> HIDE DEF y, T
  <2>5. QED
    BY <2>2, <2>3, <2>4
<1>3. \A d \in Devices : dev'[d] = CutOff(d, c)
  OBVIOUS
<1>4. dev' \in [Devices -> [new : BOOLEAN, addr : T, applied : SUBSET Required]]
  BY <1>2
<1> HIDE DEF T
<1>5. Devs(dev')
  BY <1>4 DEF Devs
<1>6. ASSUME NEW r \in cl.db, dev'[r.uuid].addr = r.addr
      PROVE  dev[r.uuid].addr = r.addr /\ dev[r.uuid].applied = dev'[r.uuid].applied
  <2>1. r.uuid \in Devices /\ r.addr # 0
    BY DEF ConfInv, Owned, Held, Good, DbOK, Records, Unicast
  <2>2. QED
    BY <1>2, <1>3, <1>6, <2>1
<1>7. Lasts(cl, dev, dev')
  BY <1>6 DEF Lasts
<1>8. QED
  BY <1>2, <1>3, <1>5, <1>7

-----------------------------------------------------------------------------
(* The actions that leave the configuration as it is. *)

\* Clients at the same point of a configuration.
Level(c, d) ==
    d.state = c.state /\ d.queue = c.queue /\ d.addr = c.addr /\ d.uuid = c.uuid

LEMMA ApartLevel ==
    ASSUME NEW c, NEW d, Apart(c, d)
    PROVE  Level(c, d) /\ d.told = c.told /\ d.db = c.db /\ d.plink = c.plink
           /\ (Connected(c) => Connected(d))
BY DEF Apart, Aside, Beside, Level

LEMMA AlikeLevel ==
    ASSUME NEW c, NEW d, Alike(c, d)
    PROVE  Level(c, d) /\ d.told = c.told /\ d.db = c.db
BY DEF Alike, Level

LEMMA SameTold ==
    ASSUME NEW c, NEW d, d.told = c.told, NEW w
    PROVE  Told(c, d, w)
BY DEF Told

LEMMA SameBased ==
    ASSUME NEW c, NEW d, d.db = c.db
    PROVE  Based(c, d)
BY DEF Based

\* The messages are fewer but for the operation at the head, and of the answers about
\* a key none is new.
LEMMA TrackLevel ==
    ASSUME NEW c, NEW v, NEW ms, NEW rs, OnTrack(c, v, ms, rs),
           NEW d, Level(c, d), NEW w, w[c.uuid].applied = v[c.uuid].applied,
           NEW ns, \A m \in ns : m \in ms \/ m.kind \in Direct \/ m = Head(c.queue),
           NEW ts, Fewer(rs, ts), KeyAnswers(c, rs) => KeyAnswers(c, ts)
    PROVE  OnTrack(d, w, ns, ts)
<1> SUFFICES ASSUME d.state = "CONFIGURATION"
             PROVE  QueueLeft(d, w) /\ OneSent(d, ns) /\ KeyAnswers(d, ts) /\ AnswersMean(d, w, ts)
  BY DEF OnTrack
<1>1. QueueLeft(c, v) /\ OneSent(c, ms) /\ KeyAnswers(c, rs) /\ AnswersMean(c, v, rs)
  BY DEF OnTrack, Level
<1>2. QueueLeft(d, w)
  BY <1>1 DEF QueueLeft, Level
<1>3. OneSent(d, ns)
  BY <1>1 DEF OneSent, Level
<1>4. KeyAnswers(d, ts)
  BY <1>1 DEF KeyAnswers, Level, HeadIs
<1>5. AnswersMean(d, w, ts)
  <2>1. ASSUME NEW b \in Addresses, NEW i \in DOMAIN ts[b],
               ts[b][i].kind \in Required, ts[b][i].ok, b = d.addr
        PROVE  ts[b][i].kind \in w[d.uuid].applied
    <3>1. PICK j \in DOMAIN rs[b] : rs[b][j] = ts[b][i]
      BY <2>1 DEF Fewer
    <3>2. QED
      BY <1>1, <2>1, <3>1 DEF AnswersMean, Level
  <2>2. QED
    BY <2>1 DEF AnswersMean
<1>6. QED
  BY <1>2, <1>3, <1>4, <1>5

\* The first answer is taken: the one about a key is the only one still.
LEMMA KeyAnswersTail ==
    ASSUME NEW c, NEW rs, KeyAnswers(c, rs), NEW a \in Addresses, NEW ts, Taken(rs, a, ts)
    PROVE  /\ KeyAnswers(c, ts)
           /\ Head(rs[a]).kind \in KeyKinds =>
                 \A b \in Addresses : \A i \in DOMAIN ts[b] : b = a => ts[b][i].kind \notin KeyKinds
<1>1. /\ 1 \in DOMAIN rs[a] /\ Head(rs[a]) = rs[a][1]
      /\ \A b \in Addresses : b # a => ts[b] = rs[b]
      /\ \A i \in DOMAIN ts[a] : /\ i \in Nat \ {0} /\ i + 1 \in DOMAIN rs[a]
                                 /\ ts[a][i] = rs[a][i + 1]
  BY DEF Taken
<1>2. ASSUME NEW i \in DOMAIN ts[a], ts[a][i].kind \in KeyKinds
      PROVE  /\ HeadIs(c, ts[a][i].kind, a)
             /\ \A j \in DOMAIN ts[a] : ts[a][j].kind \in KeyKinds => j = i
             /\ rs[a][1].kind \notin KeyKinds
  <2>1. /\ HeadIs(c, rs[a][i + 1].kind, a)
        /\ \A k \in DOMAIN rs[a] : rs[a][k].kind \in KeyKinds => k = i + 1
    BY <1>1, <1>2 DEF KeyAnswers
  <2>2. i \in Nat \ {0} /\ ts[a][i] = rs[a][i + 1]
    BY <1>1
  <2>3. ASSUME NEW j \in DOMAIN ts[a], ts[a][j].kind \in KeyKinds
        PROVE  j = i
    <3>1. j \in Nat \ {0} /\ j + 1 = i + 1
      BY <1>1, <2>1, <2>3
    <3>2. QED
      BY <2>2, <3>1
  <2>4. rs[a][1].kind \notin KeyKinds
    <3>1. rs[a][1].kind \in KeyKinds => 1 = i + 1
      BY <1>1, <2>1
    <3>2. QED
      BY <2>2, <3>1
  <2>5. QED
    BY <2>1, <2>2, <2>3, <2>4
<1>3. ASSUME NEW b \in Addresses, NEW i \in DOMAIN ts[b], ts[b][i].kind \in KeyKinds
      PROVE  /\ HeadIs(c, ts[b][i].kind, b)
             /\ \A j \in DOMAIN ts[b] : ts[b][j].kind \in KeyKinds => j = i
  <2>1. CASE b = a
    BY <1>2, <1>3, <2>1
  <2>2. CASE b # a
    BY <1>1, <1>3, <2>2 DEF KeyAnswers
  <2>3. QED
    BY <2>1, <2>2
<1>4. KeyAnswers(c, ts)
  BY <1>3 DEF KeyAnswers
<1>5. QED
  BY <1>1, <1>2, <1>4


\* An answer more.
Added(rs, a, x, ts) ==
    /\ \A b \in Addresses : b # a => ts[b] = rs[b]
    /\ a \in Addresses =>
          \E n : /\ n \notin DOMAIN rs[a]
                 /\ \A i \in DOMAIN ts[a] : \/ i \in DOMAIN rs[a] /\ ts[a][i] = rs[a][i]
                                            \/ i = n /\ ts[a][i] = x

LEMMA AppendAdded ==
    ASSUME NEW c, NEW rs, Got(c, rs), NEW a, NEW x,
           NEW ts, ts = [rs EXCEPT ![a] = Append(@, x)]
    PROVE  Added(rs, a, x, ts)
<1>1. PICK S : rs \in [Addresses -> Seq(S)]
  BY DEF Got
<1>2. \A b \in Addresses : b # a => ts[b] = rs[b]
  BY <1>1
<1>3. ASSUME a \in Addresses
      PROVE  \E n : /\ n \notin DOMAIN rs[a]
                    /\ \A i \in DOMAIN ts[a] : \/ i \in DOMAIN rs[a] /\ ts[a][i] = rs[a][i]
                                               \/ i = n /\ ts[a][i] = x
  <2> DEFINE T  == S \cup {x}
             qa == rs[a]
             q  == Append(qa, x)
             n  == Len(qa) + 1
  <2>1. qa \in Seq(T) /\ x \in T
    BY <1>1, <1>3
  <2>2. /\ DOMAIN q = 1 .. (Len(qa) + 1) /\ DOMAIN qa = 1 .. Len(qa)
        /\ Len(qa) \in Nat /\ q[Len(qa) + 1] = x /\ \A i \in 1 .. Len(qa) : q[i] = qa[i]
    BY <2>1
  <2>3. ts[a] = q /\ rs[a] = qa
    BY <1>1, <1>3
  <2> HIDE DEF T, qa, q
  <2>4. /\ n \notin DOMAIN qa
        /\ \A i \in DOMAIN q : (i \in DOMAIN qa /\ q[i] = qa[i]) \/ (i = n /\ q[i] = x)
    BY <2>2
  <2> HIDE DEF n
  <2>5. QED
    BY <2>3, <2>4
<1>4. QED
  BY <1>2, <1>3 DEF Added

LEMMA DrainedAdded ==
    ASSUME NEW c, NEW rs, Drained(c, rs), NEW a, NEW x, NEW ts, Added(rs, a, x, ts),
           a # Local => Connected(c),
           x.kind \in ConfigKinds =>
              /\ a # Local /\ x.src = a
              /\ c.state # "GET_REMOTE_COMPOSITION_DATA"
              /\ x.kind = "SET" => x.ok
    PROVE  Drained(c, ts)
<1>1. ASSUME NEW b \in Addresses, ~ Connected(c), b # Local
      PROVE  ts[b] = <<>>
  BY <1>1 DEF Added, Drained
<1>2. ASSUME NEW b \in Addresses, NEW i \in DOMAIN ts[b], ts[b][i].kind \in ConfigKinds
      PROVE  /\ b # Local /\ ts[b][i].src = b
             /\ c.state # "GET_REMOTE_COMPOSITION_DATA"
             /\ ts[b][i].kind = "SET" => ts[b][i].ok
  <2>1. CASE b = a /\ ts[b][i] = x
    BY <1>2, <2>1
  <2>2. CASE i \in DOMAIN rs[b] /\ ts[b][i] = rs[b][i]
    BY <1>2, <2>2 DEF Drained
  <2>3. QED
    BY <1>2, <2>1, <2>2 DEF Added
<1>3. QED
  BY <1>1, <1>2 DEF Drained

\* An answer that is added in the configuration.
LEMMA TrackAdded ==
    ASSUME NEW c, NEW v, NEW ms, NEW rs, OnTrack(c, v, ms, rs),
           NEW w, v[c.uuid].applied \subseteq w[c.uuid].applied,
           NEW a, NEW x, NEW ts, Added(rs, a, x, ts),
           x.kind \in KeyKinds /\ c.state = "CONFIGURATION" =>
              /\ HeadIs(c, x.kind, a)
              /\ a \in Addresses => \A i \in DOMAIN rs[a] : rs[a][i].kind \notin KeyKinds,
           x.kind \in Required /\ x.ok /\ a = c.addr /\ c.state = "CONFIGURATION" =>
              x.kind \in w[c.uuid].applied
    PROVE  OnTrack(c, w, ms, ts)
<1> SUFFICES ASSUME c.state = "CONFIGURATION"
             PROVE  QueueLeft(c, w) /\ OneSent(c, ms) /\ KeyAnswers(c, ts) /\ AnswersMean(c, w, ts)
  BY DEF OnTrack
<1>1. QueueLeft(c, v) /\ OneSent(c, ms) /\ KeyAnswers(c, rs) /\ AnswersMean(c, v, rs)
  BY DEF OnTrack
<1>2. QueueLeft(c, w)
  BY <1>1 DEF QueueLeft
<1>3. ASSUME NEW b \in Addresses, NEW i \in DOMAIN ts[b]
      PROVE  \/ i \in DOMAIN rs[b] /\ ts[b][i] = rs[b][i]
             \/ i \notin DOMAIN rs[b] /\ b = a /\ ts[b][i] = x
  BY DEF Added
<1>4. ASSUME NEW b \in Addresses, NEW i \in DOMAIN ts[b], ts[b][i].kind \in KeyKinds,
             NEW j \in DOMAIN ts[b], ts[b][j].kind \in KeyKinds
      PROVE  HeadIs(c, ts[b][i].kind, b) /\ j = i
  <2>1. CASE ts[b][i] = rs[b][i] /\ i \in DOMAIN rs[b] /\ ts[b][j] = rs[b][j] /\ j \in DOMAIN rs[b]
    BY <1>1, <1>4, <2>1 DEF KeyAnswers
  <2>2. CASE b = a /\ i \notin DOMAIN rs[b] /\ j \notin DOMAIN rs[b] /\ ts[b][i] = x /\ ts[b][j] = x
    <3>1. HeadIs(c, ts[b][i].kind, b)
      BY <1>4, <2>2
    <3>2. i = j
      BY <1>4, <2>2 DEF Added
    <3>3. QED
      BY <3>1, <3>2
  <2>3. CASE b = a /\ x.kind \in KeyKinds /\ \E k \in DOMAIN rs[b] : rs[b][k].kind \in KeyKinds
    BY <2>3
  <2>4. QED
    BY <1>3, <1>4, <2>1, <2>2, <2>3
<1>5. ASSUME NEW b \in Addresses, NEW i \in DOMAIN ts[b],
             ts[b][i].kind \in Required, ts[b][i].ok, b = c.addr
      PROVE  ts[b][i].kind \in w[c.uuid].applied
  <2>1. CASE i \in DOMAIN rs[b] /\ ts[b][i] = rs[b][i]
    BY <1>1, <1>5, <2>1 DEF AnswersMean
  <2>2. CASE b = a /\ ts[b][i] = x
    BY <1>5, <2>2
  <2>3. QED
    BY <1>3, <2>1, <2>2
<1>6. KeyAnswers(c, ts) /\ AnswersMean(c, w, ts)
  BY <1>4, <1>5 DEF KeyAnswers, AnswersMean
<1>7. QED
  BY <1>1, <1>2, <1>6

\* The client is left alone.
LEMMA StillConf ==
    ASSUME StepsInv, ConfInv, UNCHANGED cl, Promise(cl, cl'),
           Devs(dev'), Lasts(cl, dev, dev'), Drained(cl, replies'),
           OnTrack(cl, dev', inflight', replies')
    PROVE  ConfInv' /\ Told(cl, cl', dev')
<1>1. cl' = cl
  OBVIOUS
<1>2. Told(cl, cl', dev') /\ Based(cl, cl')
  BY <1>1, SameTold, SameBased
<1>3. Phase(cl') /\ Plinked(cl') /\ Drained(cl', replies') /\ OnTrack(cl', dev', inflight', replies')
  BY <1>1 DEF StepsInv, ConfInv
<1>4. QED
  BY <1>2, <1>3, Conclude

LEMMA LocalHandlesConf ==
    ASSUME StepsInv, ConfInv, Promise(cl, cl'), NEW m, LocalHandles(m)
    PROVE  ConfInv' /\ Told(cl, cl', dev')
<1> DEFINE x == Answer(m, TRUE)
<1>1. /\ replies' = [replies EXCEPT ![Local] = Append(@, x)]
      /\ UNCHANGED <<cl, inflight, dev>>
  BY DEF LocalHandles
<1>2. x.kind = "REFRESH"
  BY DEF Answer, LocalHandles
<1> HIDE DEF x
<1>3. Added(replies, Local, x, replies')
  BY <1>1, AppendAdded DEF StepsInv
<1>4. Drained(cl, replies')
  BY <1>2, <1>3, DrainedAdded DEF ConfInv, ConfigKinds
<1>5. OnTrack(cl, dev, inflight, replies')
  BY <1>2, <1>3, TrackAdded DEF ConfInv, KeyKinds, Required
<1>6. Devs(dev') /\ Lasts(cl, dev, dev') /\ OnTrack(cl, dev', inflight', replies')
  BY <1>1, <1>5, DevSame DEF ConfInv
<1>7. QED
  BY <1>1, <1>4, <1>6, StillConf

LEMMA AnswerLostConf ==
    ASSUME StepsInv, ConfInv, Promise(cl, cl'), NEW a \in Addresses, AnswerLost(a)
    PROVE  ConfInv' /\ Told(cl, cl', dev')
<1>1. /\ replies' = [replies EXCEPT ![a] = Tail(@)] /\ replies[a] # <<>>
      /\ UNCHANGED <<cl, inflight, dev>>
  BY DEF AnswerLost
<1>2. Taken(replies, a, replies')
  BY <1>1, TailFewer DEF StepsInv
<1>3. Fewer(replies, replies')
  BY <1>2 DEF Taken
<1>4. KeyAnswers(cl, replies) => KeyAnswers(cl, replies')
  BY <1>2, KeyAnswersTail
<1>5. Drained(cl, replies')
  BY <1>3, DrainedFewer DEF ConfInv
<1>6. OnTrack(cl, dev, inflight, replies')
  BY <1>3, <1>4, TrackLevel DEF ConfInv, Level
<1>7. Devs(dev') /\ Lasts(cl, dev, dev') /\ OnTrack(cl, dev', inflight', replies')
  BY <1>1, <1>6, DevSame DEF ConfInv
<1>8. QED
  BY <1>1, <1>5, <1>7, StillConf

LEMMA ConfigPhase ==
    ASSUME NEW c, Phase(c), c.state = "CONFIGURATION"
    PROVE  Configures(c)
BY DEF Phase, Opens, Joins, Busy, Rests, Opening, Joining, Active

LEMMA FactoryResetConf ==
    ASSUME StepsInv, ConfInv, Promise(cl, cl'), NEW d \in Devices, FactoryReset(d)
    PROVE  ConfInv' /\ Told(cl, cl', dev')
<1> DEFINE y == NewDevice
<1>1. /\ dev' = [dev EXCEPT ![d] = y] /\ cl.told[d] # "pending"
      /\ UNCHANGED <<cl, inflight, replies>>
  BY DEF FactoryReset
<1>2. Shaped(y) /\ y.addr = 0
  BY DEF NewDevice, Shaped
<1>3. Held(cl)
  BY PhaseHolds DEF StepsInv
<1>4. \A r \in cl.db : r.addr # y.addr
  BY <1>2, <1>3 DEF Held, Good, DbOK, Records, Unicast
<1> HIDE DEF y
<1>5. /\ Devs(dev') /\ Lasts(cl, dev, dev')
      /\ \A e \in Devices : e # d => dev'[e] = dev[e]
  <2>1. Devs(dev)
    BY DEF ConfInv
  <2>2. Becomes(dev, d, y, dev')
    BY <1>1 DEF Becomes
  <2>3. QED
    BY <1>2, <1>4, <2>1, <2>2, DevOne
<1>6. OnTrack(cl, dev', inflight, replies)
  <2>1. CASE cl.state = "CONFIGURATION"
    <3>1. cl.last_status \in Ongoing
      BY <2>1, ConfigPhase DEF StepsInv, Configures
    <3>2. cl.uuid \in Devices /\ ~ Settled(cl)
      BY <1>3, <3>1, OneFresh
    <3>3. cl.uuid # d
      BY <1>1, <1>3, <3>2 DEF Held, Settled
    <3>4. dev'[cl.uuid].applied = dev[cl.uuid].applied
      BY <1>5, <3>2, <3>3
    <3>5. QED
      BY <3>4, TrackLevel, FewerSame DEF ConfInv, Level
  <2>2. CASE cl.state # "CONFIGURATION"
    BY <2>2 DEF OnTrack
  <2>3. QED
    BY <2>1, <2>2
<1>7. Drained(cl, replies') /\ OnTrack(cl, dev', inflight', replies')
  BY <1>1, <1>6 DEF ConfInv
<1>8. QED
  BY <1>1, <1>5, <1>7, StillConf

LEMMA TimerConf ==
    ASSUME StepsInv, ConfInv, Promise(cl, cl'), TimerFires
    PROVE  ConfInv' /\ Told(cl, cl', dev')
<1>1. Phase(cl) /\ Good(cl)
  BY PhaseHolds DEF StepsInv
<1>2. cl' = [cl EXCEPT !.timer = FALSE] /\ UNCHANGED <<dev, replies>>
  BY DEF TimerFires
<1>3. Alike(cl, cl') /\ cl'.link = cl.link /\ cl'.plink = cl.plink
  BY <1>1, <1>2 DEF Alike, Good, IsClient
<1>4. Level(cl, cl') /\ Told(cl, cl', dev') /\ Based(cl, cl')
  BY <1>3, AlikeLevel, SameTold, SameBased
<1>5. \A m \in inflight' : m \in inflight \/ m = Head(cl.queue)
  BY DEF TimerFires
<1>6. OnTrack(cl', dev, inflight', replies)
  BY <1>4, <1>5, TrackLevel, FewerSame DEF ConfInv
<1>7. Drained(cl', replies) /\ Plinked(cl')
  <2>1. Connected(cl) <=> Connected(cl')
    BY <1>3 DEF Connected
  <2>2. QED
    BY <1>3, <1>4, <2>1 DEF ConfInv, Drained, Plinked, Level
<1>8. /\ Devs(dev') /\ Lasts(cl, dev, dev') /\ OnTrack(cl', dev', inflight', replies')
      /\ Drained(cl', replies')
  BY <1>2, <1>6, <1>7, DevSame DEF ConfInv
<1>9. Phase(cl')
  BY <1>1, <1>3, PhaseAlike
<1>10. QED
  BY <1>4, <1>7, <1>8, <1>9, Conclude


\* The operation that is being transmitted is the one at the head, or the composition
\* data is asked for.
LEMMA ConfiguringHead ==
    ASSUME StepsInv, ConfInv, cl.state = "CONFIGURATION"
    PROVE  /\ Held(cl) /\ cl.uuid \in Devices /\ cl.queue # <<>>
           /\ Record(cl.uuid, cl.addr) \in cl.db
           /\ LET h == Head(cl.queue)
              IN  h.kind = "FILTER_ADD" \/ (h.kind \in ConfigKinds /\ h.dst = cl.addr)
<1>1. Configures(cl) /\ Held(cl) /\ cl.queue # <<>>
  BY ConfigPhase DEF StepsInv, Configures
<1>2. cl.uuid \in Devices /\ Record(cl.uuid, cl.addr) \in cl.db
  BY <1>1, OneFresh DEF Configures
<1>3. QueueLeft(cl, dev)
  BY DEF ConfInv, OnTrack
<1>4. PICK S : cl.queue \in Seq(S)
  BY <1>1 DEF Held, Good, IsClient, Ops
<1>5. 1 \in DOMAIN cl.queue /\ Head(cl.queue) = cl.queue[1]
  BY <1>1, <1>4
<1>6. QED
  BY <1>1, <1>2, <1>3, <1>5 DEF QueueLeft

\* A device that handles a message accepted no less, or is reset.
LEMMA AppliedDevice ==
    ASSUME StepsInv, ConfInv, NEW m, NEW d \in Devices, NEW ok \in BOOLEAN,
           Becomes(dev, d, Applied(dev[d], m, ok), dev')
    PROVE  /\ Devs(dev') /\ Lasts(cl, dev, dev')
           /\ \A e \in Devices : e # d => dev'[e] = dev[e]
           /\ m.kind # "NODE_RESET" => dev[d].applied \subseteq dev'[d].applied
           /\ m.kind \in Required /\ ok => m.kind \in dev'[d].applied
<1> DEFINE v    == dev[d]
           more == [v EXCEPT !.applied = @ \cup {m.kind}]
           y    == Applied(v, m, ok)
<1>1. PICK S : dev \in [Devices -> [new : BOOLEAN, addr : S, applied : SUBSET Required]]
  BY DEF ConfInv, Devs
<1>2. v \in [new : BOOLEAN, addr : S, applied : SUBSET Required]
  BY <1>1
<1>3. Shaped(v)
  BY <1>2 DEF Shaped
<1>4. m.kind \in Required =>
         /\ Shaped(more) /\ more.addr = v.addr /\ v.applied \subseteq more.applied
         /\ m.kind \in more.applied
  BY <1>2 DEF Shaped
<1>5. Shaped(NewDevice) /\ NewDevice.addr = 0
  BY DEF Shaped, NewDevice
<1>6. y = IF m.kind = "NODE_RESET" THEN NewDevice
          ELSE IF m.kind \in Required /\ ok THEN more ELSE v
  <2>1. CASE m.kind = "NODE_RESET"
    BY <2>1 DEF Applied, Required
  <2>2. CASE m.kind # "NODE_RESET" /\ m.kind \in Required /\ ok
    BY <2>2 DEF Applied
  <2>3. CASE m.kind # "NODE_RESET" /\ ~ (m.kind \in Required /\ ok)
    BY <2>3 DEF Applied
  <2>4. QED
    BY <2>1, <2>2, <2>3
<1>7. "NODE_RESET" \notin Required
  BY DEF Required
<1>8. v = dev[d] /\ Becomes(dev, d, y, dev')
  OBVIOUS
<1> HIDE DEF v, more, y
<1>9. \A r \in cl.db : r.addr # 0
  BY PhaseHolds DEF StepsInv, Good, DbOK, Records, Unicast
<1>10. /\ Shaped(y)
       /\ \/ y.addr = dev[d].addr /\ dev[d].applied \subseteq y.applied
          \/ \A r \in cl.db : r.addr # y.addr
  BY <1>3, <1>4, <1>5, <1>6, <1>8, <1>9
<1>11. Devs(dev)
  BY DEF ConfInv
<1>12. /\ Devs(dev') /\ Lasts(cl, dev, dev') /\ dev'[d] = y
       /\ \A e \in Devices : e # d => dev'[e] = dev[e]
  BY <1>8, <1>10, <1>11, DevOne
<1>13. QED
  BY <1>3, <1>4, <1>6, <1>7, <1>8, <1>12

LEMMA DeviceHandlesConf ==
    ASSUME DupKinds \cap KeyKinds = {}, StepsInv, ConfInv, Promise(cl, cl'),
           NEW m \in inflight, NEW d \in Devices, NEW ok \in BOOLEAN, DeviceHandles(m, d, ok)
    PROVE  ConfInv' /\ Told(cl, cl', dev')
<1> DEFINE a == Target(m)
           x == Answer(m, ok)
<1>1. /\ replies' = [replies EXCEPT ![a] = Append(@, x)] /\ UNCHANGED <<cl, inflight>>
      /\ Becomes(dev, d, Applied(dev[d], m, ok), dev')
      /\ Connected(cl) /\ HasDeviceKey(d, m)
      /\ ok \/ m.kind \in Rejects
      /\ m.kind \in DupKinds \/ ~ Answered(m)
  BY DEF DeviceHandles, Becomes
<1>2. x.kind = m.kind /\ x.src = a /\ x.ok = ok
  BY DEF Answer
<1>3. m.kind # "FILTER_ADD" => a = m.dst
  BY DEF Target
<1> HIDE DEF a, x
<1>4. Held(cl) /\ Got(cl, replies) /\ Sent(cl, inflight) /\ Drained(cl, replies)
  BY PhaseHolds DEF StepsInv, ConfInv
<1>5. Added(replies, a, x, replies')
  BY <1>1, <1>4, AppendAdded
<1>6. ASSUME m.kind \in ConfigKinds
      PROVE  /\ a = m.dst /\ a # Local /\ cl.state # "GET_REMOTE_COMPOSITION_DATA"
             /\ m.kind = "SET" => ok
             /\ \E r \in cl.db : r.uuid = d /\ r.addr = a
  <2>1. m.kind \notin Direct /\ m.kind # "FILTER_ADD" /\ (m.kind = "SET" => ok)
    BY <1>1, <1>6, ProvisioningAssumption DEF ConfigKinds, Direct
  <2>2. PICK r \in cl.db : r.uuid = d /\ r.addr = m.dst
    BY <1>1, <2>1 DEF HasDeviceKey
  <2>3. r.addr # Local
    BY <1>4 DEF Held, Good, DbOK, Records, Unicast
  <2>4. cl.state # "GET_REMOTE_COMPOSITION_DATA"
    BY <1>4, <2>1 DEF Sent, Joining
  <2>5. QED
    BY <1>3, <2>1, <2>2, <2>3, <2>4
<1>7. Drained(cl, replies')
  BY <1>1, <1>2, <1>4, <1>5, <1>6, DrainedAdded
<1>8. /\ Devs(dev') /\ Lasts(cl, dev, dev')
      /\ \A e \in Devices : e # d => dev'[e] = dev[e]
      /\ m.kind # "NODE_RESET" => dev[d].applied \subseteq dev'[d].applied
      /\ m.kind \in Required /\ ok => m.kind \in dev'[d].applied
  BY <1>1, AppliedDevice
<1>9. OnTrack(cl, dev', inflight, replies')
  <2>1. CASE cl.state # "CONFIGURATION"
    BY <2>1 DEF OnTrack
  <2>2. CASE cl.state = "CONFIGURATION"
    <3> DEFINE h == Head(cl.queue)
    <3>1. /\ cl.uuid \in Devices /\ Record(cl.uuid, cl.addr) \in cl.db /\ cl.queue # <<>>
          /\ h.kind = "FILTER_ADD" \/ (h.kind \in ConfigKinds /\ h.dst = cl.addr)
      BY <2>2, ConfiguringHead
    <3>2. m.kind \in Direct \/ m = h
      BY <2>2 DEF ConfInv, OnTrack, OneSent
    <3>3. m.kind # "NODE_RESET"
      BY <3>1, <3>2 DEF Direct, ConfigKinds
    <3>4. dev[cl.uuid].applied \subseteq dev'[cl.uuid].applied
      BY <1>8, <3>1, <3>3
    <3>5. KeyKinds \subseteq ConfigKinds /\ Required \subseteq ConfigKinds
      BY DEF KeyKinds, ConfigKinds, Required
    <3>6. ASSUME x.kind \in KeyKinds
          PROVE  /\ HeadIs(cl, x.kind, a)
                 /\ a \in Addresses => \A i \in DOMAIN replies[a] : replies[a][i].kind \notin KeyKinds
      <4>1. m.kind \in ConfigKinds /\ m = h /\ a = m.dst
        BY <1>2, <1>6, <3>2, <3>5, <3>6 DEF Direct, ConfigKinds
      <4>2. HeadIs(cl, m.kind, a)
        BY <3>1, <4>1 DEF HeadIs
      <4>3. ASSUME a \in Addresses, NEW i \in DOMAIN replies[a], replies[a][i].kind \in KeyKinds
            PROVE  FALSE
        <5>1. HeadIs(cl, replies[a][i].kind, a)
          BY <2>2, <4>3 DEF ConfInv, OnTrack, KeyAnswers
        <5>2. replies[a][i].kind = m.kind /\ replies[a][i].src = a
          BY <1>4, <3>5, <4>1, <4>3, <5>1 DEF HeadIs, Drained
        <5>3. Answered(m)
          BY <4>1, <4>3, <5>2 DEF Answered, Answers
        <5>4. QED
          BY <1>1, <1>2, <3>6, <5>3
      <4>4. QED
        BY <1>2, <4>2, <4>3
    <3>7. ASSUME x.kind \in Required, x.ok, a = cl.addr
          PROVE  x.kind \in dev'[cl.uuid].applied
      <4>1. PICK r \in cl.db : r.uuid = d /\ r.addr = cl.addr
        BY <1>2, <1>6, <3>5, <3>7
      <4>2. d = cl.uuid
        <5> DEFINE s == Record(cl.uuid, cl.addr)
        <5>1. s \in cl.db /\ s.uuid = cl.uuid /\ s.addr = cl.addr
          BY <3>1 DEF Record
        <5> HIDE DEF s
        <5>2. QED
          BY <1>4, <4>1, <5>1 DEF Held, Good, DbOK, Unique
      <4>3. QED
        BY <1>2, <1>8, <3>7, <4>2
    <3>8. OnTrack(cl, dev, inflight, replies)
      BY DEF ConfInv
    <3>9. QED
      BY <1>5, <3>4, <3>6, <3>7, <3>8, TrackAdded
  <2>3. QED
    BY <2>1, <2>2
<1>10. OnTrack(cl, dev', inflight', replies')
  BY <1>1, <1>9
<1>11. QED
  BY <1>1, <1>7, <1>8, <1>10, StillConf

-----------------------------------------------------------------------------
(* The client rests. *)

LEMMA RestsConf ==
    ASSUME StepsInv, ConfInv, Promise(cl, cl'), Linked(cl'), Rests(cl), Calm(cl, cl'),
           Devs(dev'), Lasts(cl, dev, dev'), Drained(cl', replies')
    PROVE  ConfInv' /\ Told(cl, cl', dev')
<1>1. Out(cl, cl')
  BY RestsOut
<1>2. Phase(cl')
  BY DEF Promise, Steps, Joined, Asked, Started, Phase
<1>3. Based(cl, cl') /\ Plinked(cl')
  BY CalmBased, CalmPlinked DEF ConfInv
<1>4. QED
  BY <1>1, <1>2, <1>3, ConcludeOut

\* The answers that are left, after a step of a client that rests.
LEMMA RestsDrained ==
    ASSUME ConfInv, Rests(cl), Promise(cl, cl'), Connected(cl) => Connected(cl'),
           Fewer(replies, replies')
    PROVE  Drained(cl', replies')
<1>1. cl'.state # "GET_REMOTE_COMPOSITION_DATA"
  BY RestsOut DEF Joining
<1>2. QED
  BY <1>1, DrainedFewer DEF ConfInv

LEMMA RestsQuiet ==
    ASSUME StepsInv, ConfInv, Promise(cl, cl'), Linked(cl'), Rests(cl), Calm(cl, cl'),
           UNCHANGED <<dev, replies>>
    PROVE  ConfInv' /\ Told(cl, cl', dev')
<1>1. Devs(dev') /\ Lasts(cl, dev, dev')
  BY DevSame DEF ConfInv
<1>2. Drained(cl', replies')
  BY RestsDrained, FewerSame DEF Calm
<1>3. QED
  BY <1>1, <1>2, RestsConf

LEMMA ConnectNetworkConf ==
    ASSUME StepsInv, ConfInv, Promise(cl, cl'), Linked(cl'), ConnectNetwork
    PROVE  ConfInv' /\ Told(cl, cl', dev')
<1> DEFINE net == [cl EXCEPT !.state = "NETWORK_CONNECT"]
<1>1. Rests(cl) /\ Good(cl)
  BY OutsideRests, PhaseHolds DEF StepsInv, ConnectNetwork, Active, Opening, Joining
<1>2. Calm(cl, net)
  BY <1>1, CalmState DEF Opening
<1>3. cl' = ConnectProxy(net, "net") /\ UNCHANGED <<dev, replies>>
  BY DEF ConnectNetwork, Client
<1> HIDE DEF net
<1>4. Calm(cl, cl')
  BY <1>2, <1>3, CalmConnectProxy, CalmTrusts, CalmChain
<1>5. QED
  BY <1>1, <1>3, <1>4, RestsQuiet

LEMMA DisconnectConf ==
    ASSUME StepsInv, ConfInv, Promise(cl, cl'), Linked(cl'), DisconnectNetwork,
           cl.state \notin Active
    PROVE  ConfInv' /\ Told(cl, cl', dev')
<1> DEFINE idle == [cl EXCEPT !.state = "IDLE"]
           off  == ProxyDisconnect(idle)
           c    == [off EXCEPT !.proxy_addr = 0]
<1>1. Rests(cl) /\ Good(cl)
  BY OutsideRests, PhaseHolds DEF StepsInv
<1>2. cl' \in {c, idle} /\ UNCHANGED <<dev, replies>>
  BY DEF DisconnectNetwork
<1>3. Calm(cl, idle)
  BY <1>1, CalmState DEF Opening
<1> HIDE DEF idle
<1>4. Calm(idle, off)
  BY <1>3, CalmProxyDisconnect, CalmTrusts
<1> HIDE DEF off
<1>5. Aside(off, c) /\ c.state = off.state
  BY <1>4 DEF Calm, Good, IsClient, Connected, Aside, Beside
<1> HIDE DEF c
<1>6. Calm(cl, c)
  BY <1>3, <1>4, <1>5, CalmAside, CalmTrusts, CalmChain
<1>7. Calm(cl, cl')
  BY <1>2, <1>3, <1>6
<1>8. QED
  BY <1>1, <1>2, <1>7, RestsQuiet

LEMMA ConfigurePublicationConf ==
    ASSUME StepsInv, ConfInv, Promise(cl, cl'), Linked(cl'), NEW r, ConfigurePublication(r)
    PROVE  ConfInv' /\ Told(cl, cl', dev')
<1> DEFINE clean  == CleanAll(cl)
           begun  == [clean EXCEPT !.state = "RECONFIGURATION"]
           ops    == <<Msg("SET", r.addr)>>
           queued == Enqueue(begun, ops)
<1>1. Rests(cl) /\ Good(cl)
  BY OutsideRests, PhaseHolds DEF StepsInv, ConfigurePublication, Active, Opening, Joining
<1>2. cl' = Execute(queued) /\ UNCHANGED <<dev, replies>>
  BY DEF ConfigurePublication, Client
<1>3. Ops(ops)
  BY OpsOne DEF OpKinds, ConfigKinds
<1>4. Calm(cl, clean)
  BY <1>1, CalmCleanAll
<1> HIDE DEF clean, ops
<1>5. Calm(clean, begun)
  BY <1>4, CalmState, CalmTrusts DEF Opening
<1> HIDE DEF begun
<1>6. Calm(begun, queued)
  BY <1>3, <1>5, CalmEnqueue, CalmTrusts
<1> HIDE DEF queued
<1>7. Calm(queued, cl')
  BY <1>2, <1>6, CalmExecute, CalmTrusts
<1>8. Calm(cl, cl')
  BY <1>4, <1>5, <1>6, <1>7, CalmChain
<1>9. QED
  BY <1>1, <1>2, <1>8, RestsQuiet

\* connect_component takes the address of another node.
LEMMA ConnectComponentConf ==
    ASSUME StepsInv, ConfInv, Promise(cl, cl'), Linked(cl'), NEW r, ConnectComponent(r)
    PROVE  ConfInv' /\ Told(cl, cl', dev')
<1>1. Rests(cl) /\ Good(cl)
  BY OutsideRests, PhaseHolds DEF StepsInv, ConnectComponent, Active, Opening, Joining
<1>2. /\ cl' = [cl EXCEPT !.state = "WAIT_NODE_IDENTITY", !.addr = r.addr]
      /\ UNCHANGED <<dev, replies>>
  BY DEF ConnectComponent
<1>3. cl'.db = cl.db /\ cl'.state = "WAIT_NODE_IDENTITY" /\ cl'.link = cl.link
  BY <1>1, <1>2 DEF Good, IsClient
<1>4. Based(cl, cl') /\ Plinked(cl')
  BY <1>3, SameBased, LinkedPlinked
<1>5. Devs(dev') /\ Lasts(cl, dev, dev')
  BY <1>2, DevSame DEF ConfInv
<1>6. Drained(cl', replies')
  BY <1>1, <1>2, <1>3, RestsDrained, FewerSame DEF Connected
<1>7. Out(cl, cl')
  BY <1>1, RestsOut
<1>8. Phase(cl')
  BY DEF Promise, Steps, Joined, Asked, Started, Phase
<1>9. QED
  BY <1>4, <1>5, <1>6, <1>7, <1>8, ConcludeOut

\* A provisioning begins: its link is not there yet.
LEMMA ProvisionConf ==
    ASSUME StepsInv, ConfInv, Promise(cl, cl'), Linked(cl'), NEW d \in Devices, Provision(d)
    PROVE  ConfInv' /\ Told(cl, cl', dev')
<1> DEFINE start == [CleanAll(cl) EXCEPT
                        !.uuid = d, !.completed_sent = FALSE, !.remote_comp = FALSE,
                        !.state = "CONNECTING", !.over_gatt = FALSE, !.retries = 0,
                        !.told[d] = "pending"]
           off   == ProxyDisconnect(start)
           more  == ProvisionConnect(start)
<1>1. Rests(cl) /\ Good(cl) /\ Linked(cl)
  BY OutsideRests, PhaseHolds DEF StepsInv, Provision, Active, Opening, Joining
<1>2. cl' \in {off, NotifyStatus(more, "CONNECTING")} /\ UNCHANGED <<dev, replies>>
  BY DEF Provision, Client, ProvisionStart
<1>3. Connected(cl) => Connected(cl')
  BY <1>1, ProvisionStartOpens DEF Provision, Client
<1>4. Good(start) /\ start.db = cl.db /\ start.state = "CONNECTING" /\ start.completed_sent = FALSE
  <2>1. Good(CleanAll(cl)) /\ CleanAll(cl).db = cl.db
    <3>1. Aside(cl, CleanAll(cl))
      BY <1>1, QueueAside, OpsEmpty DEF CleanAll
    <3>2. QED
      BY <1>1, <3>1 DEF Good, Aside, Beside
  <2> DEFINE clean == CleanAll(cl)
  <2> HIDE DEF clean
  <2>2. start = [clean EXCEPT
                        !.uuid = d, !.completed_sent = FALSE, !.remote_comp = FALSE,
                        !.state = "CONNECTING", !.over_gatt = FALSE, !.retries = 0,
                        !.told[d] = "pending"]
    BY DEF clean
  <2>3. Good(clean) /\ clean.db = cl.db
    BY <2>1 DEF clean
  <2> HIDE DEF start
  <2>4. QED
    BY <2>2, <2>3 DEF Good, IsClient
<1> HIDE DEF start
<1>5. off.state = "CONNECTING" /\ off.db = cl.db
  BY <1>4, ProxyDisconnectAside DEF Aside, Beside
<1>6. Alike(start, more) /\ Good(more)
  BY <1>4, ProvisionConnectShape, GoodLink DEF Alike, Good
<1> HIDE DEF off, more
<1>7. LET t == NotifyStatus(more, "CONNECTING") IN t.state = "CONNECTING" /\ t.db = cl.db
  <2>1. NotifyResult(more, "CONNECTING", NotifyStatus(more, "CONNECTING"))
    BY <1>4, <1>6, NotifyShape DEF Alike
  <2>2. QED
    BY <1>4, <1>6, <2>1 DEF NotifyResult, Resets, Alike
<1>8. cl'.state = "CONNECTING" /\ cl'.db = cl.db
  BY <1>2, <1>5, <1>7
<1>9. Based(cl, cl') /\ Plinked(cl')
  BY <1>8, SameBased, LinkedPlinked
<1>10. Devs(dev') /\ Lasts(cl, dev, dev')
  BY <1>2, DevSame DEF ConfInv
<1>11. Drained(cl', replies')
  BY <1>1, <1>2, <1>3, RestsDrained, FewerSame
<1>12. Out(cl, cl')
  BY <1>1, RestsOut
<1>13. Phase(cl')
  BY DEF Promise, Steps, Joined, Asked, Started, Phase
<1>14. QED
  BY <1>9, <1>10, <1>11, <1>12, <1>13, ConcludeOut

LEMMA UserConf ==
    ASSUME Patient, StepsInv, ConfInv, Promise(cl, cl'), Linked(cl'), User
    PROVE  ConfInv' /\ Told(cl, cl', dev')
BY FactoryResetConf, ProvisionConf, ConnectNetworkConf, DisconnectConf, ConnectComponentConf,
   ConfigurePublicationConf DEF User, Patient


-----------------------------------------------------------------------------
(* The node under configuration answers. *)

\* A failure that is reported once the rest is put in order.
LEMMA AsideFails ==
    ASSUME NEW c, Held(c), ~ Settled(c), NEW d, Aside(c, d)
    PROVE  Failed(c, NotifyStatus(d, "FAILED"))
<1> DEFINE e == NotifyStatus(d, "FAILED")
<1>1. Kept(c, d)
  BY KeptAside
<1>2. d.uuid = c.uuid /\ c.uuid \in Devices
  BY <1>1, KeptPending
<1>3. Failed(d, e)
  BY <1>1, NotifyFailed DEF Kept
<1> HIDE DEF e
<1>4. Failed(c, e)
  BY <1>1, <1>2, <1>3 DEF Failed, Kept, Same
<1>5. QED
  BY <1>4 DEF e

LEMMA FailFails ==
    ASSUME NEW c, Held(c), ~ Settled(c)
    PROVE  Failed(c, Fail(c))
<1> DEFINE idle  == [c EXCEPT !.state = "IDLE"]
           clean == CleanAll(idle)
<1>1. Aside(c, idle)
  BY StateAside DEF Held
<1>2. Good(idle)
  BY <1>1, KeptAside DEF Kept, Held
<1>3. Fail(c) = NotifyStatus(clean, "FAILED")
  BY DEF Fail
<1> HIDE DEF idle
<1>4. Aside(idle, clean)
  BY <1>2, QueueAside, OpsEmpty DEF CleanAll
<1> HIDE DEF clean
<1>5. Aside(c, clean)
  BY <1>1, <1>4 DEF Aside, Beside
<1>6. QED
  BY <1>3, <1>5, AsideFails

\* The operation at the head is done: the next is on, or it was the last.
Takes(c, d) ==
    \/ Tail(c.queue) # <<>> /\ Aside(c, d) /\ d.state = c.state /\ d.queue = Tail(c.queue)
    \/ Tail(c.queue) = <<>> /\ d.state \notin Active

LEMMA TakesApart ==
    ASSUME NEW c, NEW d, Apart(c, d), NEW e, Takes(d, e), NEW f, Apart(e, f)
    PROVE  Takes(c, f)
BY DEF Takes, Apart, Aside, Beside

LEMMA ApartSelf ==
    ASSUME NEW c, Good(c)
    PROVE  Apart(c, c)
BY DEF Apart, Aside, Beside, Good

LEMMA ApartChain ==
    ASSUME NEW c, NEW d, Apart(c, d), NEW e, Apart(d, e)
    PROVE  Apart(c, e)
BY DEF Apart, Aside, Beside

LEMMA StartNextOpTakes ==
    ASSUME NEW c, Configures(c)
    PROVE  Takes(c, StartNextOp(c))
<1> DEFINE d == [c EXCEPT !.queue = IF @ = <<>> THEN @ ELSE Tail(@)]
           e == Execute(d)
<1>1. Held(c) /\ Good(c) /\ c.queue # <<>>
  BY DEF Configures, Held
<1>2. Aside(c, d) /\ d.state = c.state /\ d.remote_comp = c.remote_comp
  BY <1>1, TailAside
<1>3. d.queue = Tail(c.queue)
  BY <1>1 DEF Good, IsClient
<1>4. StartNextOp(c) = QueueDone(e)
  BY DEF StartNextOp
<1> HIDE DEF d
<1>5. Kept(c, d) /\ Good(d)
  BY <1>1, <1>2, KeptAside DEF Kept, Held
<1>6. CASE d.queue # <<>>
  <2>1. Apart(d, e)
    BY <1>5, <1>6, ExecuteApart
  <2> HIDE DEF e
  <2>2. QueueDone(e) = e
    BY <1>6, <2>1, QueueDoneSelf DEF Apart
  <2>3. QED
    BY <1>2, <1>3, <1>4, <1>6, <2>1, <2>2 DEF Takes, Apart, Aside, Beside
<1>7. CASE d.queue = <<>>
  <2>1. d.last_status \in Ongoing /\ d.remote_comp /\ d.state = "CONFIGURATION" /\ Held(d)
    BY <1>2, <1>5 DEF Configures, Kept
  <2>2. Held(e) /\ Settled(e) /\ e.state = "CONFIGURATION" /\ e.queue = <<>>
    BY <1>7, <2>1, ExecuteEnds
  <2> HIDE DEF e
  <2>3. Rests(QueueDone(e))
    BY <2>2, QueueDoneRests
  <2>4. QED
    BY <1>3, <1>4, <1>7, <2>3 DEF Takes, Rests
<1>8. QED
  BY <1>6, <1>7

LEMMA CountAnewApart ==
    ASSUME NEW c, Good(c)
    PROVE  Apart(c, CountAnew(c))
<1> DEFINE d == [c EXCEPT !.retries = 0]
<1>1. Apart(c, d)
  BY DEF Good, IsClient, Apart, Aside, Beside, Connected
<1>2. CountAnew(c) \in {c, d}
  BY DEF CountAnew
<1> HIDE DEF d
<1>3. QED
  BY <1>1, <1>2, ApartSelf

\* The answer is to the operation at the head.
Meant(c, r) ==
    /\ Head(c.queue).kind = r.kind
    /\ r.kind # "FILTER_ADD" => Head(c.queue).dst = r.src
    /\ r.kind = "APP_KEY" /\ r.src = c.addr => r.ok

Turns(c, r, d) == Apart(c, d) \/ Failed(c, d) \/ (Takes(c, d) /\ Meant(c, r))

LEMMA TurnsAnew ==
    ASSUME NEW c, NEW r, NEW d, Good(d), Turns(c, r, d), c.state = "CONFIGURATION"
    PROVE  Turns(c, r, CountAnew(d))
<1>1. Apart(d, CountAnew(d))
  BY CountAnewApart
<1>2. CASE Apart(c, d)
  BY <1>1, <1>2, ApartChain DEF Turns
<1>3. CASE Failed(c, d)
  <2>1. Kept(d, CountAnew(d))
    BY <1>1, <1>3, KeptAside DEF Failed, Apart
  <2>2. QED
    BY <1>3, <2>1 DEF Failed, Kept, Same, Turns
<1>4. CASE Takes(c, d) /\ Meant(c, r)
  BY <1>1, <1>4 DEF Turns, Takes, Apart, Aside, Beside
<1>5. QED
  BY <1>2, <1>3, <1>4 DEF Turns

LEMMA KeyStatusTurns ==
    ASSUME NEW c, Configures(c), NEW r, HeadIs(c, r.kind, r.src), r.kind # "FILTER_ADD"
    PROVE  Turns(c, r, KeyStatus(c, r))
<1> DEFINE next  == StartNextOp(c)
           idle  == [c EXCEPT !.state = "IDLE"]
           clean == Clean(idle, r.src)
           bad   == r.kind = "APP_KEY" /\ ~ r.ok /\ c.addr = r.src /\ NodesAt(c, r.src) # {}
<1>1. Held(c) /\ Good(c) /\ ~ Settled(c) /\ NodesAt(c, c.addr) # {}
  BY OneFresh DEF Configures, Held
<1>2. KeyStatus(c, r) = IF bad THEN NotifyStatus(clean, "FAILED") ELSE next
  BY DEF KeyStatus
<1>3. Takes(c, next)
  BY StartNextOpTakes
<1>4. ~ bad => Meant(c, r)
  BY <1>1 DEF Meant, HeadIs
<1>5. Aside(c, idle)
  BY <1>1, StateAside
<1>6. Good(idle)
  BY <1>1, <1>5, KeptAside DEF Kept, Held
<1> HIDE DEF next, idle, bad
<1>7. Aside(idle, clean)
  BY <1>6, CleanAside
<1> HIDE DEF clean
<1>8. Aside(c, clean)
  BY <1>5, <1>7 DEF Aside, Beside
<1>9. Failed(c, NotifyStatus(clean, "FAILED"))
  BY <1>1, <1>8, AsideFails
<1>10. QED
  BY <1>2, <1>3, <1>4, <1>9 DEF Turns

LEMMA ConfigStatusTurns ==
    ASSUME NEW c, Configures(c), NEW r, r.kind = "BIND" => r.ok,
           r.kind \in KeyKinds => HeadIs(c, r.kind, r.src), r.kind # "FILTER_ADD"
    PROVE  Turns(c, r, ConfigStatus(c, r))
<1>1. Good(c)
  BY DEF Configures, Held
<1>2. Turns(c, r, c)
  BY <1>1, ApartSelf DEF Turns
<1>3. Takes(c, StartNextOp(c))
  BY StartNextOpTakes
<1>4. HeadIs(c, r.kind, r.src) /\ r.kind # "APP_KEY" => Turns(c, r, StartNextOp(c))
  BY <1>3 DEF Turns, Meant, HeadIs
<1>5. CASE r.kind \in KeyKinds
  <2>1. ConfigStatus(c, r) = KeyStatus(c, r)
    BY <1>5 DEF ConfigStatus, KeyKinds
  <2>2. QED
    BY <1>5, <2>1, KeyStatusTurns
<1>6. CASE r.kind = "BIND"
  BY <1>2, <1>4, <1>6 DEF ConfigStatus, BindStatus
<1>7. CASE r.kind = "SET"
  BY <1>2, <1>4, <1>7 DEF ConfigStatus, SetStatus
<1>8. CASE r.kind \notin KeyKinds \cup {"BIND", "SET"}
  BY <1>2, <1>8 DEF ConfigStatus, KeyKinds
<1>9. QED
  BY <1>5, <1>6, <1>7, <1>8

LEMMA FilterStatusTurns ==
    ASSUME NEW c, Configures(c), NEW r, r.kind = "FILTER_ADD"
    PROVE  Turns(c, r, FilterStatus(c, r))
<1> DEFINE next == StartNextOp(c)
           d    == [next EXCEPT !.proxy_addr = r.src, !.over_gatt = TRUE]
<1>1. Good(c)
  BY DEF Configures, Held
<1>2. Takes(c, next) /\ Good(next)
  BY StartNextOpTakes, StartNextOpGoes, BusyHolds DEF Busy, Goes
<1>3. FilterStatus(c, r) = IF HeadIsFilter(c) THEN d ELSE c
  BY DEF FilterStatus
<1> HIDE DEF next
<1>4. Apart(next, d)
  BY <1>2 DEF Good, IsClient, Apart, Aside, Beside, Connected
<1> HIDE DEF d
<1>5. Takes(c, d)
  BY <1>1, <1>2, <1>4, ApartSelf, TakesApart
<1>6. HeadIsFilter(c) => Meant(c, r)
  BY DEF HeadIsFilter, HeadIs, Meant
<1>7. Turns(c, r, c)
  BY <1>1, ApartSelf DEF Turns
<1>8. QED
  BY <1>3, <1>5, <1>6, <1>7 DEF Turns

LEMMA StatusTurns ==
    ASSUME NEW c, Configures(c), NEW r, NEW finished, r.kind = "BIND" => r.ok,
           r.kind \in KeyKinds => HeadIs(c, r.kind, r.src)
    PROVE  Turns(c, r, Status(c, r, finished))
<1> DEFINE n == Noted(c, r)
<1>1. Held(c) /\ Good(c) /\ c.state = "CONFIGURATION" /\ Busy(c)
  BY DEF Configures, Held, Busy
<1>2. Apart(c, n)
  BY <1>1, NotedApart
<1>3. Status(c, r, finished) =
         IF r.kind = "FILTER_ADD" THEN CountAnew(FilterStatus(n, r))
         ELSE IF r.kind \in ConfigKinds THEN CountAnew(ConfigStatus(n, r)) ELSE n
  <2>1. n.state = "CONFIGURATION"
    BY <1>1, <1>2 DEF Apart
  <2>2. n = IF r.kind = "FILTER_ADD" THEN [c EXCEPT !.proxy_addr = r.src] ELSE c
    BY DEF Noted
  <2> HIDE DEF n
  <2>3. QED
    BY <2>1, <2>2 DEF Status, ConfigKinds
<1>4. n = IF r.kind = "FILTER_ADD" THEN n ELSE c
  BY DEF Noted
<1> HIDE DEF n
<1>5. CASE r.kind = "FILTER_ADD"
  <2>1. Configures(n)
    <3>1. Kept(c, n)
      BY <1>1, <1>2, KeptAside DEF Apart
    <3>2. QED
      BY <1>2, <3>1 DEF Configures, Kept, Apart
  <2> DEFINE e == FilterStatus(n, r)
  <2>2. Turns(n, r, e) /\ Good(e)
    BY <1>5, <2>1, FilterStatusTurns, FilterStatusGoes, BusyHolds DEF Busy, Goes
  <2> HIDE DEF e
  <2>3. Turns(n, r, CountAnew(e))
    BY <2>1, <2>2, TurnsAnew DEF Configures
  <2> DEFINE f == CountAnew(e)
  <2>4. Status(c, r, finished) = f
    BY <1>3, <1>5 DEF e
  <2> HIDE DEF f
  <2>5. CASE Apart(n, f)
    BY <1>2, <2>4, <2>5, ApartChain DEF Turns
  <2>6. CASE Failed(n, f)
    <3>1. Kept(c, n) /\ n.uuid = c.uuid
      BY <1>1, <1>2, KeptAside DEF Apart, Aside
    <3>2. Failed(c, f)
      BY <2>6, <3>1 DEF Failed, Kept, Same
    <3>3. QED
      BY <2>4, <3>2 DEF Turns
  <2>7. CASE Takes(n, f) /\ Meant(n, r)
    <3>1. Takes(c, f)
      BY <1>2, <2>7 DEF Takes, Apart, Aside, Beside
    <3>2. Meant(c, r)
      BY <1>2, <2>7 DEF Meant, Apart, Aside, Beside
    <3>3. QED
      BY <2>4, <3>1, <3>2 DEF Turns
  <2>8. QED
    BY <2>3, <2>5, <2>6, <2>7 DEF Turns, f
<1>6. CASE r.kind # "FILTER_ADD" /\ r.kind \in ConfigKinds
  <2> DEFINE e == ConfigStatus(c, r)
  <2>1. Turns(c, r, e) /\ Good(e)
    BY <1>1, <1>6, ConfigStatusTurns, ConfigStatusGoes, BusyHolds DEF Goes
  <2>2. Status(c, r, finished) = CountAnew(e)
    BY <1>3, <1>4, <1>6
  <2> HIDE DEF e
  <2>3. QED
    BY <1>1, <2>1, <2>2, TurnsAnew
<1>7. CASE r.kind # "FILTER_ADD" /\ r.kind \notin ConfigKinds
  BY <1>2, <1>3, <1>7 DEF Turns
<1>8. QED
  BY <1>5, <1>6, <1>7


\* The operations of a configuration: of the node but for the filter message, and one
\* of each of the kinds K.
Listed(q, a, K) ==
    /\ \E S : q \in Seq(S)
    /\ \A i \in DOMAIN q : q[i].kind \in K /\ (q[i].kind = "FILTER_ADD" \/ q[i].dst = a)
    /\ \A i, j \in DOMAIN q : q[i].kind = q[j].kind => i = j
    /\ \A k \in K : \E i \in DOMAIN q : q[i].kind = k

LEMMA ListedNone == ASSUME NEW a PROVE Listed(<<>>, a, {})
<1>1. <<>> \in Seq({})
  BY EmptySeq
<1>2. QED
  BY <1>1 DEF Listed

LEMMA ListedOne ==
    ASSUME NEW m, NEW a, m.kind = "FILTER_ADD" \/ m.dst = a
    PROVE  Listed(<<m>>, a, {m.kind})
<1> DEFINE q == <<m>>
<1>1. q \in Seq({m}) /\ DOMAIN q = 1 .. 1 /\ q[1] = m
  OBVIOUS
<1> HIDE DEF q
<1>2. Listed(q, a, {m.kind})
  BY <1>1 DEF Listed
<1>3. QED
  BY <1>2 DEF q

LEMMA ListedTwo ==
    ASSUME NEW m, NEW n, NEW a, m.dst = a, n.dst = a, m.kind # n.kind
    PROVE  Listed(<<m, n>>, a, {m.kind, n.kind})
<1> DEFINE q == <<m, n>>
<1>1. q \in Seq({m, n}) /\ DOMAIN q = 1 .. 2 /\ q[1] = m /\ q[2] = n
  OBVIOUS
<1> HIDE DEF q
<1>2. Listed(q, a, {m.kind, n.kind})
  BY <1>1 DEF Listed
<1>3. QED
  BY <1>2 DEF q

LEMMA ListedConcat ==
    ASSUME NEW p, NEW a, NEW K, Listed(p, a, K), NEW q, NEW L, Listed(q, a, L), K \cap L = {}
    PROVE  Listed(p \o q, a, K \cup L)
<1> DEFINE t == p \o q
<1>1. PICK S : p \in Seq(S)
  BY DEF Listed
<1>2. PICK T : q \in Seq(T)
  BY DEF Listed
<1> DEFINE U == S \cup T
<1>3. p \in Seq(U) /\ q \in Seq(U)
  BY <1>1, <1>2, SeqMonotonic
<1> HIDE DEF U
<1>4. /\ t \in Seq(U) /\ Len(t) = Len(p) + Len(q)
      /\ \A i \in 1 .. (Len(p) + Len(q)) : t[i] = IF i <= Len(p) THEN p[i] ELSE q[i - Len(p)]
  BY <1>3, ConcatProperties
<1>5. /\ DOMAIN p = 1 .. Len(p) /\ DOMAIN q = 1 .. Len(q) /\ DOMAIN t = 1 .. Len(t)
      /\ Len(p) \in Nat /\ Len(q) \in Nat
  BY <1>3, <1>4, LenProperties
<1> HIDE DEF t
<1>6. ASSUME NEW i \in DOMAIN t
      PROVE  \/ i \in DOMAIN p /\ t[i] = p[i]
             \/ i - Len(p) \in DOMAIN q /\ t[i] = q[i - Len(p)] /\ i \in Nat
  BY <1>4, <1>5
<1>7. \A i \in DOMAIN p : i \in DOMAIN t /\ t[i] = p[i]
  BY <1>4, <1>5
<1>8. \A i \in DOMAIN q : i + Len(p) \in DOMAIN t /\ t[i + Len(p)] = q[i]
  BY <1>4, <1>5
<1>9. \A i \in DOMAIN t : t[i].kind \in K \cup L /\ (t[i].kind = "FILTER_ADD" \/ t[i].dst = a)
  BY <1>6 DEF Listed
<1>10. ASSUME NEW i \in DOMAIN t, NEW j \in DOMAIN t, t[i].kind = t[j].kind
       PROVE  i = j
  <2>1. CASE i \in DOMAIN p /\ t[i] = p[i] /\ j \in DOMAIN p /\ t[j] = p[j]
    BY <1>10, <2>1 DEF Listed
  <2>2. CASE /\ i - Len(p) \in DOMAIN q /\ t[i] = q[i - Len(p)]
             /\ j - Len(p) \in DOMAIN q /\ t[j] = q[j - Len(p)] /\ i \in Nat /\ j \in Nat
    <3>1. i - Len(p) = j - Len(p)
      BY <1>10, <2>2 DEF Listed
    <3>2. QED
      BY <1>5, <2>2, <3>1
  <2>3. CASE t[i].kind \in K /\ t[j].kind \in L
    BY <1>10, <2>3
  <2>4. CASE t[i].kind \in L /\ t[j].kind \in K
    BY <1>10, <2>4
  <2>5. QED
    BY <1>6, <2>1, <2>2, <2>3, <2>4 DEF Listed
<1>11. ASSUME NEW k \in K \cup L
       PROVE  \E i \in DOMAIN t : t[i].kind = k
  <2>1. CASE k \in K
    BY <1>7, <2>1 DEF Listed
  <2>2. CASE k \in L
    <3>1. PICK i \in DOMAIN q : q[i].kind = k
      BY <2>2 DEF Listed
    <3>2. QED
      BY <1>8, <3>1
  <2>3. QED
    BY <2>1, <2>2
<1>12. Listed(t, a, K \cup L)
  BY <1>4, <1>9, <1>10, <1>11 DEF Listed
<1>13. QED
  BY <1>12 DEF t

LEMMA ConfigOpsListed ==
    ASSUME NEW c
    PROVE  \E K : /\ Required \subseteq K /\ K \subseteq ConfigKinds \cup {"FILTER_ADD"}
                  /\ Listed(ConfigOps(c), c.addr, K)
<1> DEFINE set  == <<Msg("SET", c.addr)>>
           net  == IF c.refresh THEN <<Msg("NET_KEY", c.addr)>> ELSE <<>>
           keys == <<Msg("APP_KEY", c.addr), Msg("BIND", c.addr)>>
           filt == IF c.proxy_addr # c.addr /\ c.over_gatt THEN <<FilterAdd>> ELSE <<>>
           N    == IF c.refresh THEN {"NET_KEY"} ELSE {}
           F    == IF c.proxy_addr # c.addr /\ c.over_gatt THEN {"FILTER_ADD"} ELSE {}
<1>1. \A k : Msg(k, c.addr).kind = k /\ Msg(k, c.addr).dst = c.addr
  BY DEF Msg
<1>2. Listed(set, c.addr, {"SET"})
  BY <1>1, ListedOne
<1>3. Listed(net, c.addr, N)
  <2>1. Listed(<<Msg("NET_KEY", c.addr)>>, c.addr, {"NET_KEY"})
    BY <1>1, ListedOne
  <2>2. QED
    BY <2>1, ListedNone
<1>4. Listed(keys, c.addr, {"APP_KEY", "BIND"})
  BY <1>1, ListedTwo
<1>5. Listed(filt, c.addr, F)
  <2>1. FilterAdd.kind = "FILTER_ADD"
    BY DEF FilterAdd, Msg
  <2>2. Listed(<<FilterAdd>>, c.addr, {"FILTER_ADD"})
    BY <2>1, ListedOne
  <2>3. QED
    BY <2>2, ListedNone
<1>6. ConfigOps(c) = set \o net \o keys \o filt
  BY DEF ConfigOps
<1>7. N \subseteq {"NET_KEY"} /\ F \subseteq {"FILTER_ADD"}
  OBVIOUS
<1> HIDE DEF set, net, keys, filt, N, F
<1>8. Listed(set \o net, c.addr, {"SET"} \cup N)
  BY <1>2, <1>3, <1>7, ListedConcat
<1>9. Listed(set \o net \o keys, c.addr, {"SET"} \cup N \cup {"APP_KEY", "BIND"})
  BY <1>4, <1>7, <1>8, ListedConcat
<1>10. Listed(set \o net \o keys \o filt, c.addr, {"SET"} \cup N \cup {"APP_KEY", "BIND"} \cup F)
  BY <1>5, <1>7, <1>9, ListedConcat
<1>11. QED
  BY <1>6, <1>7, <1>10 DEF Required, ConfigKinds

\* The composition data of the new node comes: its operations are queued.
LEMMA CompositionEnters ==
    ASSUME NEW c, Joins(c), NEW r, r.src = c.addr
    PROVE  LET d == CompositionStatus(c, r)
           IN  /\ Kept(c, d) /\ d.state = "CONFIGURATION" /\ d.addr = c.addr /\ d.db = c.db
               /\ \A v : QueueLeft(d, v)
<1> DEFINE told  == NotifyStatus(c, "CONFIGURING")
           taken == [told EXCEPT !.remote_comp = TRUE]
           conf  == [taken EXCEPT !.state = "CONFIGURATION"]
           ops   == ConfigOps(taken)
           d     == Enqueue(conf, ops)
           e     == Execute(d)
<1>1. Held(c) /\ Good(c) /\ c.last_status \in Ongoing /\ c.queue = <<>>
  BY DEF Joins, Held
<1>2. CompositionStatus(c, r) = IF NodesAt(told, r.src) = {} THEN NotifyStatus(told, "FAILED")
                                ELSE e
  BY DEF CompositionStatus, ConfigureRemote
<1>3. /\ Kept(c, told) /\ told.queue = <<>> /\ told.addr = c.addr /\ told.db = c.db
      /\ told.last_status = "CONFIGURING" /\ told.last_status \in Ongoing
  <2>1. "CONFIGURING" \in Ongoing
    BY DEF Ongoing
  <2>2. QED
    BY <1>1, <2>1, NotifyNews
<1> HIDE DEF told
<1>4. Good(told) /\ Held(told) /\ NodesAt(told, r.src) # {}
  BY <1>3, OneFresh DEF Kept, Held
<1>5. Aside(told, taken) /\ taken.queue = <<>>
  BY <1>3, <1>4 DEF Good, IsClient, Aside, Beside, Connected
<1>6. Ops(ops) /\ ops # <<>>
  BY OpsOfConfiguration
<1>7. PICK K : /\ Required \subseteq K /\ K \subseteq ConfigKinds \cup {"FILTER_ADD"}
               /\ Listed(ops, taken.addr, K)
  BY ConfigOpsListed
<1> HIDE DEF taken, ops
<1>8. Kept(told, taken) /\ Good(taken) /\ Held(taken)
  <2>1. Kept(told, taken)
    BY <1>4, <1>5, KeptAside
  <2>2. QED
    BY <2>1 DEF Kept, Held
<1>9. Aside(taken, conf) /\ conf.queue = <<>> /\ conf.state = "CONFIGURATION"
  BY <1>5, <1>8 DEF Good, IsClient, Aside, Beside, Connected
<1> HIDE DEF conf
<1>10. Kept(taken, conf) /\ Good(conf) /\ Held(conf)
  <2>1. Kept(taken, conf)
    BY <1>8, <1>9, KeptAside
  <2>2. QED
    BY <2>1 DEF Kept, Held
<1>11. Aside(conf, d) /\ d.state = "CONFIGURATION" /\ d.queue = ops
  <2>1. Aside(conf, d) /\ d.state = conf.state
    BY <1>6, <1>10, EnqueueAside
  <2>2. d.queue = conf.queue \o ops
    BY <1>10 DEF Enqueue, Good, IsClient
  <2>3. conf.queue \o ops = ops
    BY <1>6, <1>9, ConcatEmptySeq DEF Ops
  <2>4. QED
    BY <1>9, <2>1, <2>2, <2>3
<1> HIDE DEF d
<1>12. Kept(conf, d) /\ Good(d) /\ Held(d)
  <2>1. Kept(conf, d)
    BY <1>10, <1>11, KeptAside
  <2>2. QED
    BY <2>1 DEF Kept, Held
<1>13. Apart(d, e)
  BY <1>6, <1>11, <1>12, ExecuteApart
<1> HIDE DEF e
<1>14. Kept(d, e)
  BY <1>12, <1>13, KeptAside DEF Apart
<1>15. Kept(c, e)
  BY <1>3, <1>8, <1>10, <1>12, <1>14, KeptChain
<1>16. /\ e.state = "CONFIGURATION" /\ e.queue = ops /\ e.addr = c.addr /\ e.db = c.db
       /\ taken.addr = c.addr
  BY <1>3, <1>5, <1>9, <1>11, <1>13 DEF Apart, Aside, Beside
<1>17. ASSUME NEW v PROVE QueueLeft(e, v)
  BY <1>7, <1>16 DEF QueueLeft, Listed
<1>18. QED
  BY <1>2, <1>4, <1>15, <1>16, <1>17


-----------------------------------------------------------------------------
(* The operation at the head is answered. *)

Shifted(q, t) ==
    /\ 1 \in DOMAIN q /\ Head(q) = q[1]
    /\ \A i \in DOMAIN t : i \in Nat \ {0} /\ i + 1 \in DOMAIN q /\ t[i] = q[i + 1]
    /\ \A j \in DOMAIN q : j = 1 \/ (j - 1 \in DOMAIN t /\ t[j - 1] = q[j])

LEMMA TailShifted ==
    ASSUME NEW q, Ops(q), q # <<>>
    PROVE  Shifted(q, Tail(q))
<1>1. PICK S : q \in Seq(S)
  BY DEF Ops
<1> DEFINE t == Tail(q)
<1>2. t \in Seq(S) /\ Len(t) = Len(q) - 1 /\ Len(q) \in Nat \ {0} /\ Head(q) = q[1]
  BY <1>1
<1>3. DOMAIN q = 1 .. Len(q) /\ DOMAIN t = 1 .. Len(t)
  BY <1>1, <1>2
<1>4. \A i \in 1 .. Len(t) : t[i] = q[i + 1]
  BY <1>1, <1>2
<1> HIDE DEF t
<1>5. \A j \in DOMAIN q : j = 1 \/ (j - 1 \in DOMAIN t /\ t[j - 1] = q[j])
  <2>1. ASSUME NEW j \in DOMAIN q, j # 1
        PROVE  j - 1 \in DOMAIN t /\ t[j - 1] = q[j]
    <3>1. j - 1 \in 1 .. Len(t) /\ (j - 1) + 1 = j
      BY <1>2, <1>3, <2>1
    <3>2. t[j - 1] = q[(j - 1) + 1]
      BY <1>4, <3>1
    <3>3. QED
      BY <1>3, <3>1, <3>2
  <2>2. QED
    BY <2>1
<1>6. \A i \in DOMAIN t : i \in Nat \ {0} /\ i + 1 \in DOMAIN q /\ t[i] = q[i + 1]
  BY <1>2, <1>3, <1>4
<1>7. Shifted(q, t)
  BY <1>2, <1>3, <1>5, <1>6 DEF Shifted
<1>8. QED
  BY <1>7 DEF t

\* An answer as the devices give it.
Fair(r, a) ==
    /\ r.kind \in ConfigKinds => r.src = a
    /\ r.kind \in {"SET", "BIND"} => r.ok

LEMMA HeadAccepted ==
    ASSUME NEW c, NEW v, NEW rs, QueueLeft(c, v), AnswersMean(c, v, rs),
           1 \in DOMAIN c.queue, Head(c.queue) = c.queue[1],
           NEW a \in Addresses, NEW ts, Taken(rs, a, ts),
           Meant(c, Head(rs[a])), Fair(Head(rs[a]), a), Head(rs[a]).kind \in Required
    PROVE  Head(rs[a]).kind \in v[c.uuid].applied
<1> DEFINE r == Head(rs[a])
<1>1. r = rs[a][1] /\ 1 \in DOMAIN rs[a]
  BY DEF Taken
<1>2. r.kind \in ConfigKinds /\ r.kind # "FILTER_ADD"
  BY DEF Required, ConfigKinds
<1>3. c.queue[1].kind = r.kind /\ c.queue[1].dst = r.src /\ r.src = a
  BY <1>2 DEF Meant, Fair
<1>4. a = c.addr
  BY <1>2, <1>3 DEF QueueLeft
<1>5. r.ok
  BY <1>3, <1>4 DEF Meant, Fair, Required
<1>6. r.kind \in Required
  OBVIOUS
<1> HIDE DEF r
<1>7. r.kind \in v[c.uuid].applied
  BY <1>1, <1>4, <1>5, <1>6 DEF AnswersMean
<1>8. QED
  BY <1>7 DEF r

\* It was the last: the node accepted all of them.
LEMMA LastAccepted ==
    ASSUME NEW c, NEW v, Devs(v), c.uuid \in Devices, NEW rs, QueueLeft(c, v),
           AnswersMean(c, v, rs), Shifted(c.queue, <<>>),
           NEW a \in Addresses, NEW ts, Taken(rs, a, ts),
           Meant(c, Head(rs[a])), Fair(Head(rs[a]), a)
    PROVE  v[c.uuid].applied = Required
<1>1. DOMAIN <<>> = {}
  OBVIOUS
<1>2. 1 \in DOMAIN c.queue /\ Head(c.queue) = c.queue[1] /\ \A j \in DOMAIN c.queue : j = 1
  BY <1>1 DEF Shifted
<1>3. ASSUME NEW k \in Required
      PROVE  k \in v[c.uuid].applied
  <2>1. CASE \E i \in DOMAIN c.queue : c.queue[i].kind = k
    <3>1. Head(c.queue).kind = k
      BY <1>2, <2>1
    <3>2. Head(rs[a]).kind = k
      BY <3>1 DEF Meant
    <3>3. QED
      BY <1>2, <1>3, <3>2, HeadAccepted
  <2>2. QED
    BY <2>1 DEF QueueLeft
<1>4. v[c.uuid].applied \subseteq Required
  BY DEF Devs
<1>5. QED
  BY <1>3, <1>4

\* It was not: the rest is as before.
LEMMA TrackTaken ==
    ASSUME NEW c, NEW v, NEW ms, NEW rs, QueueLeft(c, v), OneSent(c, ms), KeyAnswers(c, rs),
           AnswersMean(c, v, rs), NEW a \in Addresses, NEW ts, Taken(rs, a, ts),
           Meant(c, Head(rs[a])), Fair(Head(rs[a]), a),
           NEW d, d.addr = c.addr, d.uuid = c.uuid, Shifted(c.queue, d.queue),
           NEW w, w[c.uuid].applied = v[c.uuid].applied,
           NEW ns, \A m \in ns : m \in Outstanding(d, ms)
    PROVE  OnTrack(d, w, ns, ts)
<1> DEFINE r == Head(rs[a])
           q == c.queue
           t == d.queue
<1>1. /\ 1 \in DOMAIN q /\ Head(q) = q[1]
      /\ \A i \in DOMAIN t : i \in Nat \ {0} /\ i + 1 \in DOMAIN q /\ t[i] = q[i + 1]
      /\ \A j \in DOMAIN q : j = 1 \/ (j - 1 \in DOMAIN t /\ t[j - 1] = q[j])
  BY DEF Shifted
<1>2. \A i \in DOMAIN t : i + 1 # 1 /\ \A j \in DOMAIN t : i + 1 = j + 1 => i = j
  BY <1>1
<1>3. /\ \A i \in DOMAIN q : \/ q[i].kind = "FILTER_ADD"
                             \/ q[i].kind \in ConfigKinds /\ q[i].dst = c.addr
      /\ \A i, j \in DOMAIN q : q[i].kind = q[j].kind => i = j
      /\ \A k \in Required : k \in v[c.uuid].applied \/ \E i \in DOMAIN q : q[i].kind = k
  BY DEF QueueLeft
<1>4. r.kind \in Required => r.kind \in v[c.uuid].applied
  BY <1>1, HeadAccepted
<1>5. q[1].kind = r.kind /\ (r.kind # "FILTER_ADD" => q[1].dst = r.src)
  BY <1>1 DEF Meant
<1> HIDE DEF q, t, r
<1>6. QueueLeft(d, w)
  <2>1. ASSUME NEW i \in DOMAIN t
        PROVE  \/ t[i].kind = "FILTER_ADD"
               \/ t[i].kind \in ConfigKinds /\ t[i].dst = d.addr
    BY <1>1, <1>3
  <2>2. ASSUME NEW i \in DOMAIN t, NEW j \in DOMAIN t, t[i].kind = t[j].kind
        PROVE  i = j
    <3>1. i + 1 \in DOMAIN q /\ j + 1 \in DOMAIN q /\ q[i + 1].kind = q[j + 1].kind
      BY <1>1, <2>2
    <3>2. i + 1 = j + 1
      BY <1>3, <3>1
    <3>3. QED
      BY <1>2, <3>2
  <2>3. ASSUME NEW k \in Required
        PROVE  k \in w[d.uuid].applied \/ \E i \in DOMAIN t : t[i].kind = k
    <3>1. CASE \E i \in DOMAIN q : q[i].kind = k
      <4>1. PICK i \in DOMAIN q : q[i].kind = k
        BY <3>1
      <4>2. CASE i = 1
        BY <1>4, <1>5, <2>3, <4>1, <4>2
      <4>3. CASE i # 1
        BY <1>1, <4>1, <4>3
      <4>4. QED
        BY <4>2, <4>3
    <3>2. QED
      BY <1>3, <3>1
  <2>4. QED
    BY <2>1, <2>2, <2>3 DEF QueueLeft, t
<1>7. OneSent(d, ns)
  <2>1. ASSUME NEW m \in ns
        PROVE  m.kind \in Direct
    <3>1. m \in ms /\ (m.kind \in Direct \/ \E i \in DOMAIN t : t[i] = m)
      BY DEF Outstanding, Direct, t
    <3>2. ASSUME m.kind \notin Direct PROVE FALSE
      <4>1. m = q[1]
        BY <1>1, <3>1, <3>2 DEF OneSent, q
      <4>2. PICK i \in DOMAIN t : t[i] = m
        BY <3>1, <3>2
      <4>3. i + 1 \in DOMAIN q /\ q[i + 1].kind = q[1].kind
        BY <1>1, <4>1, <4>2
      <4>4. i + 1 = 1
        BY <1>1, <1>3, <4>3
      <4>5. QED
        BY <1>2, <4>4
    <3>3. QED
      BY <3>2
  <2>2. QED
    BY <2>1 DEF OneSent
<1>8. ASSUME NEW b \in Addresses, NEW i \in DOMAIN ts[b], ts[b][i].kind \in KeyKinds
      PROVE  FALSE
  <2>1. PICK j \in DOMAIN rs[b] : rs[b][j] = ts[b][i]
    BY DEF Taken, Fewer
  <2>2. HeadIs(c, ts[b][i].kind, b)
    BY <1>8, <2>1 DEF KeyAnswers
  <2>3. ts[b][i].kind = r.kind /\ q[1].dst = b
    BY <1>1, <1>5, <2>2 DEF HeadIs, q
  <2>4. r.kind \in KeyKinds /\ r.kind \in ConfigKinds /\ r.kind # "FILTER_ADD"
    BY <1>8, <2>3 DEF KeyKinds, ConfigKinds
  <2>5. b = a
    BY <1>5, <2>3, <2>4 DEF Fair, r
  <2>6. QED
    BY <1>8, <2>4, <2>5, KeyAnswersTail DEF r
<1>9. KeyAnswers(d, ts)
  BY <1>8 DEF KeyAnswers
<1>10. AnswersMean(d, w, ts)
  <2>1. ASSUME NEW b \in Addresses, NEW i \in DOMAIN ts[b],
               ts[b][i].kind \in Required, ts[b][i].ok, b = d.addr
        PROVE  ts[b][i].kind \in w[d.uuid].applied
    <3>1. PICK j \in DOMAIN rs[b] : rs[b][j] = ts[b][i]
      BY DEF Taken, Fewer
    <3>2. QED
      BY <2>1, <3>1 DEF AnswersMean
  <2>2. QED
    BY <2>1 DEF AnswersMean
<1>11. QED
  BY <1>6, <1>7, <1>9, <1>10 DEF OnTrack

\* Only the node under way is reported.
LEMMA ToldOne ==
    ASSUME NEW c, NEW d, Promise(c, d), c.state = "CONFIGURATION", Phase(c),
           NEW w, w[c.uuid].applied = Required
    PROVE  Told(c, d, w)
<1>1. Configures(c)
  BY ConfigPhase
<1>2. ~ Settled(c)
  BY <1>1, OneFresh DEF Configures
<1>3. CASE Kept(c, d)
  BY <1>3 DEF Kept, Same, Told
<1>4. CASE Failed(c, d) /\ Phase(d)
  BY <1>4, FailedOut, OutTold
<1>5. CASE Succeeded(c, d)
  BY <1>5 DEF Succeeded, Told
<1>6. CASE Removed(c, d)
  BY <1>6 DEF Removed, Told
<1>7. CASE Joined(c, d)
  BY <1>7 DEF Joined, Told
<1>8. CASE Asked(c, d)
  BY <1>2, <1>8 DEF Asked, Rests
<1>9. QED
  BY <1>3, <1>4, <1>5, <1>6, <1>7, <1>8 DEF Promise, Steps, Moved

LEMMA StepsNext ==
    ASSUME StepsInv'
    PROVE  Phase(cl') /\ Linked(cl')
BY DEF StepsInv, Phase, Opens, Joins, Busy, Configures, Rests, Held,
   Good, IsClient, DbOK, Unique, Settled, Linked, NodesAt, Sent, Connected, Got


LEMMA PromisePhase ==
    ASSUME NEW c, NEW d, Promise(c, d)
    PROVE  Phase(d)
BY DEF Promise, Steps, Joined, Asked, Started, Phase

\* An answer while the node is provisioned or connected to.
LEMMA WaitsConf ==
    ASSUME StepsInv, ConfInv, Promise(cl, cl'), Linked(cl'), Calm(cl, cl'),
           cl.state \in Opening \cup Joining, cl'.state = cl.state,
           Devs(dev'), Lasts(cl, dev, dev'), Fewer(replies, replies')
    PROVE  ConfInv' /\ Told(cl, cl', dev')
<1>1. Phase(cl) /\ Phase(cl')
  BY PromisePhase DEF StepsInv
<1>2. Opens(cl) \/ (Joins(cl) /\ Onward(cl, cl'))
  BY <1>1, PhaseQueue DEF Onward
<1>3. Out(cl, cl')
  BY <1>2, OpensOut, JoinsOut
<1>4. Based(cl, cl') /\ Plinked(cl')
  BY CalmBased, CalmPlinked DEF ConfInv
<1>5. Drained(cl', replies')
  <2>1. Connected(cl) => Connected(cl')
    BY DEF Calm
  <2>2. QED
    BY <2>1, DrainedFewer DEF ConfInv
<1>6. QED
  BY <1>1, <1>3, <1>4, <1>5, ConcludeOut

\* The composition data.
LEMMA ComposesConf ==
    ASSUME StepsInv, ConfInv, Promise(cl, cl'), Linked(cl'), Calm(cl, cl'),
           cl.state = "GET_REMOTE_COMPOSITION_DATA",
           NEW r, r.src = cl.addr, cl' = CompositionStatus(cl, r),
           Devs(dev'), Lasts(cl, dev, dev'), Fewer(replies, replies'),
           \A m \in inflight' : m \in inflight
    PROVE  ConfInv' /\ Told(cl, cl', dev')
<1>1. Phase(cl) /\ Phase(cl') /\ Joins(cl) /\ Sent(cl, inflight)
  BY PromisePhase, PhaseQueue DEF StepsInv, Joining
<1>2. /\ Kept(cl, cl') /\ cl'.state = "CONFIGURATION" /\ cl'.addr = cl.addr /\ cl'.db = cl.db
      /\ QueueLeft(cl', dev')
  BY <1>1, CompositionEnters
<1>3. Based(cl, cl') /\ Plinked(cl')
  BY CalmBased, CalmPlinked DEF ConfInv
<1>4. Drained(cl', replies')
  <2>1. Connected(cl) => Connected(cl')
    BY DEF Calm
  <2>2. QED
    BY <1>2, <2>1, DrainedFewer DEF ConfInv
<1>5. Told(cl, cl', dev')
  BY <1>2 DEF Kept, Same, Told
<1>6. OneSent(cl', inflight')
  BY <1>1 DEF Sent, Joining, OneSent
<1>7. ASSUME NEW b \in Addresses, NEW i \in DOMAIN replies'[b]
      PROVE  replies'[b][i].kind \notin ConfigKinds
  BY <1>7 DEF Fewer, ConfInv, Drained
<1>8. KeyKinds \subseteq ConfigKinds /\ Required \subseteq ConfigKinds
  BY DEF KeyKinds, ConfigKinds, Required
<1>9. KeyAnswers(cl', replies') /\ AnswersMean(cl', dev', replies')
  BY <1>7, <1>8 DEF KeyAnswers, AnswersMean
<1>10. OnTrack(cl', dev', inflight', replies')
  BY <1>2, <1>6, <1>9 DEF OnTrack
<1>11. QED
  BY <1>1, <1>3, <1>4, <1>5, <1>10, Conclude

\* An answer during the configuration.
LEMMA TurnsConf ==
    ASSUME StepsInv, ConfInv, Promise(cl, cl'), Linked(cl'), Calm(cl, cl'),
           cl.state = "CONFIGURATION",
           NEW a \in Addresses, Taken(replies, a, replies'), Fair(Head(replies[a]), a),
           Turns(cl, Head(replies[a]), cl'),
           Devs(dev'), Lasts(cl, dev, dev'),
           \A d \in Devices : dev'[d].applied = dev[d].applied,
           \A m \in inflight' : m \in Outstanding(cl', inflight)
    PROVE  ConfInv' /\ Told(cl, cl', dev')
<1>1. Phase(cl) /\ Phase(cl') /\ Held(cl) /\ cl.uuid \in Devices /\ cl.queue # <<>>
  BY PromisePhase, ConfiguringHead DEF StepsInv
<1>2. Based(cl, cl') /\ Plinked(cl')
  BY CalmBased, CalmPlinked DEF ConfInv
<1>3. Fewer(replies, replies') /\ (Connected(cl) => Connected(cl'))
  BY DEF Taken, Calm
<1>4. QueueLeft(cl, dev) /\ OneSent(cl, inflight) /\ KeyAnswers(cl, replies) /\ AnswersMean(cl, dev, replies)
  BY DEF ConfInv, OnTrack
<1>5. dev'[cl.uuid].applied = dev[cl.uuid].applied
  BY <1>1
<1>6. CASE Apart(cl, cl')
  <2>1. Level(cl, cl') /\ cl'.told = cl.told
    BY <1>6, ApartLevel
  <2>2. KeyAnswers(cl, replies')
    BY <1>4, KeyAnswersTail
  <2>3. \A m \in inflight' : m \in inflight
    BY DEF Outstanding
  <2>4. OnTrack(cl', dev', inflight', replies')
    BY <1>3, <1>5, <2>1, <2>2, <2>3, TrackLevel DEF ConfInv
  <2>5. Drained(cl', replies') /\ Told(cl, cl', dev')
    BY <1>3, <2>1, DrainedFewer, SameTold DEF ConfInv, Level
  <2>6. QED
    BY <1>1, <1>2, <2>4, <2>5, Conclude
<1>7. CASE Failed(cl, cl')
  <2>1. Out(cl, cl') /\ cl'.state \notin Active
    BY <1>1, <1>7, FailedOut
  <2>2. Drained(cl', replies')
    BY <1>3, <2>1, DrainedFewer DEF ConfInv, Active, Joining
  <2>3. QED
    BY <1>1, <1>2, <2>1, <2>2, ConcludeOut
<1>8. CASE Takes(cl, cl') /\ Meant(cl, Head(replies[a])) /\ Tail(cl.queue) # <<>>
  <2>1. /\ cl'.state = "CONFIGURATION" /\ cl'.queue = Tail(cl.queue) /\ cl'.addr = cl.addr
        /\ cl'.uuid = cl.uuid /\ cl'.told = cl.told
    BY <1>8 DEF Takes, Aside, Beside
  <2>2. Shifted(cl.queue, cl'.queue)
    BY <1>1, <2>1, TailShifted DEF Held, Good, IsClient
  <2>3. OnTrack(cl', dev', inflight', replies')
    BY <1>4, <1>5, <1>8, <2>1, <2>2, TrackTaken
  <2>4. Drained(cl', replies') /\ Told(cl, cl', dev')
    BY <1>3, <2>1, DrainedFewer, SameTold DEF ConfInv
  <2>5. QED
    BY <1>1, <1>2, <2>3, <2>4, Conclude
<1>9. CASE Takes(cl, cl') /\ Meant(cl, Head(replies[a])) /\ Tail(cl.queue) = <<>>
  <2>1. cl'.state \notin Active
    <3>1. Tail(cl.queue) = <<>>
      BY <1>9
    <3> DEFINE t == Tail(cl.queue)
    <3>2. t = <<>> /\ (t # <<>> \/ cl'.state \notin Active)
      BY <1>9, <3>1 DEF Takes
    <3> HIDE DEF t
    <3>3. QED
      BY <3>2
  <2>2. Shifted(cl.queue, <<>>)
    <3>1. Shifted(cl.queue, Tail(cl.queue))
      BY <1>1, TailShifted DEF Held, Good, IsClient
    <3>2. Tail(cl.queue) = <<>>
      BY <1>9
    <3>3. QED
      BY <3>1, <3>2
  <2>3. dev[cl.uuid].applied = Required
    BY <1>1, <1>4, <1>9, <2>2, LastAccepted DEF ConfInv
  <2>4. Told(cl, cl', dev')
    BY <1>1, <1>5, <2>3, ToldOne
  <2>5. Drained(cl', replies')
    BY <1>3, <2>1, DrainedFewer DEF ConfInv, Active, Joining
  <2>6. OnTrack(cl', dev', inflight', replies')
    BY <2>1 DEF Active, OnTrack
  <2>7. QED
    BY <1>1, <1>2, <2>4, <2>5, <2>6, Conclude
<1>10. QED
  BY <1>6, <1>7, <1>8, <1>9 DEF Turns

LEMMA AnswerArrivesConf ==
    ASSUME StepsInv, ConfInv, Promise(cl, cl'), Linked(cl'),
           NEW a \in Addresses, NEW finished, AnswerArrives(a, finished)
    PROVE  ConfInv' /\ Told(cl, cl', dev')
<1> DEFINE r == Head(replies[a])
           c == Status(cl, r, finished)
<1>1. /\ cl' = c /\ replies[a] # <<>> /\ replies' = [replies EXCEPT ![a] = Tail(@)]
      /\ inflight' = Outstanding(c, {m \in inflight : ~ Answers(r, m)})
      /\ dev' = [d \in Devices |-> CutOff(d, c)]
  BY DEF AnswerArrives
<1>2. Phase(cl) /\ Held(cl) /\ Good(cl) /\ Got(cl, replies)
  BY PhaseHolds DEF StepsInv
<1>3. Taken(replies, a, replies')
  BY <1>1, <1>2, TailFewer
<1>4. Fewer(replies, replies') /\ r = replies[a][1] /\ 1 \in DOMAIN replies[a]
  BY <1>3 DEF Taken
<1>5. /\ r.kind = "BIND" => r.ok
      /\ r.kind = "COMP_GET" => cl.state = "GET_REMOTE_COMPOSITION_DATA" /\ r.src = cl.addr
  BY <1>2, <1>4 DEF Got
<1>6. Fair(r, a)
  BY <1>4, <1>5 DEF ConfInv, Drained, Fair, ConfigKinds
<1>7. Calm(cl, cl')
  BY <1>1, <1>2, CalmStatus
<1>8. Devs(dev') /\ Lasts(cl, dev, dev') /\ \A d \in Devices : dev'[d].applied = dev[d].applied
  BY <1>1, <1>2, DevCut
<1>9. \A m \in inflight' : m \in Outstanding(cl', inflight)
  BY <1>1 DEF Outstanding
<1>10. CASE Rests(cl)
  <2>1. Drained(cl', replies')
    BY <1>4, <1>7, <1>10, RestsDrained DEF Calm
  <2>2. QED
    BY <1>7, <1>8, <1>10, <2>1, RestsConf
<1>11. CASE r.kind # "COMP_GET" /\ cl.state \in Opening \cup Joining
  <2>1. c = Noted(cl, r)
    BY <1>2, <1>11, StatusWaits
  <2>2. cl'.state = cl.state
    BY <1>1, <1>2, <2>1, NotedApart DEF Apart
  <2>3. QED
    BY <1>4, <1>7, <1>8, <1>11, <2>2, WaitsConf
<1>12. CASE r.kind = "COMP_GET"
  <2>1. cl.state = "GET_REMOTE_COMPOSITION_DATA" /\ r.src = cl.addr
    BY <1>5, <1>12
  <2>2. cl' = CompositionStatus(cl, r)
    BY <1>1, <1>12, <2>1 DEF Status
  <2>3. \A m \in inflight' : m \in inflight
    BY <1>9 DEF Outstanding
  <2> HIDE DEF r
  <2>4. QED
    BY <1>4, <1>7, <1>8, <2>1, <2>2, <2>3, ComposesConf
<1>13. CASE cl.state = "CONFIGURATION"
  <2>1. Configures(cl)
    BY <1>2, <1>13, ConfigPhase
  <2>2. r.kind \in KeyKinds => HeadIs(cl, r.kind, r.src)
    <3>1. r.kind \in KeyKinds => r.kind \in ConfigKinds
      BY DEF KeyKinds, ConfigKinds
    <3>2. QED
      BY <1>4, <1>6, <1>13, <3>1 DEF Fair, ConfInv, OnTrack, KeyAnswers
  <2>3. Turns(cl, r, cl')
    BY <1>1, <1>5, <2>1, <2>2, StatusTurns
  <2>4. QED
    BY <1>3, <1>6, <1>7, <1>8, <1>9, <1>13, <2>3, TurnsConf
<1>14. QED
  BY <1>2, <1>10, <1>11, <1>12, <1>13, OutsideRests DEF Active


\* The messages that a client which goes on keeps.
LEMMA OutstandingIn ==
    ASSUME NEW c, NEW ms, NEW m \in Outstanding(c, ms)
    PROVE  m \in ms
BY DEF Outstanding

\* The configuration stays where it is, or the provisioning failed.
LEMMA LevelConf ==
    ASSUME StepsInv, ConfInv, Promise(cl, cl'), Based(cl, cl'), Plinked(cl'),
           \/ Level(cl, cl') /\ cl'.told = cl.told
           \/ Failed(cl, cl'),
           Devs(dev'), Lasts(cl, dev, dev'), dev'[cl.uuid].applied = dev[cl.uuid].applied,
           \A m \in inflight' : m \in inflight \/ m.kind \in Direct,
           Drained(cl', replies'), Fewer(replies, replies'),
           KeyAnswers(cl, replies) => KeyAnswers(cl, replies')
    PROVE  ConfInv' /\ Told(cl, cl', dev')
<1>1. Phase(cl')
  BY PromisePhase
<1>2. CASE Level(cl, cl') /\ cl'.told = cl.told
  <2>1. OnTrack(cl', dev', inflight', replies')
    BY <1>2, TrackLevel DEF ConfInv
  <2>2. Told(cl, cl', dev')
    BY <1>2, SameTold
  <2>3. QED
    BY <1>1, <2>1, <2>2, Conclude
<1>3. CASE Failed(cl, cl')
  <2>1. Out(cl, cl')
    BY <1>1, <1>3, FailedOut
  <2>2. QED
    BY <1>1, <2>1, ConcludeOut
<1>4. QED
  BY <1>2, <1>3

LEMMA UnreachableTurns ==
    ASSUME NEW c, Held(c), ~ Settled(c), NEW m
    PROVE  Apart(c, Unreachable(c, m)) \/ Failed(c, Unreachable(c, m))
<1>1. Good(c)
  BY DEF Held
<1>2. Failed(c, Fail(c))
  BY FailFails
<1>3. QED
  BY <1>1, <1>2, UnreachableShape

LEMMA MessageFailsConf ==
    ASSUME StepsInv, ConfInv, Promise(cl, cl'), Linked(cl'),
           NEW m, NEW finished, MessageFails(m, finished)
    PROVE  ConfInv' /\ Told(cl, cl', dev')
<1> DEFINE c == TxFailed(cl, m, finished)
<1>1. /\ cl' = c /\ UNCHANGED replies
      /\ inflight' = Outstanding(c, inflight \ {m})
      /\ dev' = [d \in Devices |-> CutOff(d, c)]
  BY DEF MessageFails
<1>2. Phase(cl) /\ Held(cl) /\ Good(cl)
  BY PhaseHolds DEF StepsInv
<1>3. Calm(cl, cl')
  BY <1>1, <1>2, CalmTxFailed
<1>4. Devs(dev') /\ Lasts(cl, dev, dev') /\ \A d \in Devices : dev'[d].applied = dev[d].applied
  BY <1>1, <1>2, DevCut
<1>5. Fewer(replies, replies')
  BY <1>1, FewerSame
<1>6. \A n \in inflight' : n \in inflight
  BY <1>1, OutstandingIn
<1>7. cl.state \in {"GET_REMOTE_COMPOSITION_DATA", "CONFIGURATION"} => c = Unreachable(cl, m)
  BY DEF TxFailed
<1> HIDE DEF c
<1>8. CASE Rests(cl)
  <2>1. Drained(cl', replies')
    BY <1>3, <1>5, <1>8, RestsDrained DEF Calm
  <2>2. QED
    BY <1>3, <1>4, <1>8, <2>1, RestsConf
<1>9. CASE cl.state \in (Opening \cup Joining) \ {"GET_REMOTE_COMPOSITION_DATA"}
  <2>1. cl' = cl
    BY <1>1, <1>9, TxFailedWaits DEF c
  <2>2. QED
    BY <1>3, <1>4, <1>5, <1>9, <2>1, WaitsConf
<1>10. CASE cl.state = "GET_REMOTE_COMPOSITION_DATA"
  <2>1. Joins(cl) /\ ~ Settled(cl) /\ cl.state \in Joining
    BY <1>2, <1>10, PhaseQueue DEF Joining, Joins, Held
  <2>2. Apart(cl, cl') \/ Failed(cl, cl')
    BY <1>1, <1>2, <1>7, <1>10, <2>1, UnreachableTurns
  <2>3. Onward(cl, cl')
    BY <2>1, <2>2 DEF Onward, Apart
  <2>4. Out(cl, cl')
    BY <2>1, <2>3, JoinsOut
  <2>5. Based(cl, cl') /\ Plinked(cl') /\ Phase(cl')
    BY <1>3, CalmBased, CalmPlinked, PromisePhase DEF ConfInv
  <2>6. Drained(cl', replies')
    BY <1>3, <1>5, <1>10, DrainedFewer DEF ConfInv, Calm
  <2>7. QED
    BY <1>4, <2>4, <2>5, <2>6, ConcludeOut
<1>11. CASE cl.state = "CONFIGURATION"
  <2>1. Configures(cl) /\ ~ Settled(cl) /\ cl.uuid \in Devices
    BY <1>2, <1>11, ConfigPhase, OneFresh DEF Configures
  <2>2. Apart(cl, cl') \/ Failed(cl, cl')
    BY <1>1, <1>2, <1>7, <1>11, <2>1, UnreachableTurns
  <2>3. Drained(cl', replies')
    BY <1>3, <1>5, <1>11, <2>2, FailedOut, PromisePhase, DrainedFewer
       DEF ConfInv, Calm, Apart, Active, Joining
  <2>4. dev'[cl.uuid].applied = dev[cl.uuid].applied
    BY <1>4, <2>1
  <2>5. replies' = replies
    BY <1>1
  <2>6. Based(cl, cl') /\ Plinked(cl')
    BY <1>3, CalmBased, CalmPlinked DEF ConfInv
  <2>7. (Level(cl, cl') /\ cl'.told = cl.told) \/ Failed(cl, cl')
    BY <2>2, ApartLevel
  <2>8. KeyAnswers(cl, replies) => KeyAnswers(cl, replies')
    BY <2>5
  <2>9. QED
    BY <1>4, <1>5, <1>6, <2>3, <2>4, <2>6, <2>7, <2>8, LevelConf
<1>12. QED
  BY <1>2, <1>8, <1>9, <1>10, <1>11, OutsideRests DEF Active

LEMMA MessagesConf ==
    ASSUME DupKinds \cap KeyKinds = {}, StepsInv, ConfInv, Promise(cl, cl'), Linked(cl'), Messages
    PROVE  ConfInv' /\ Told(cl, cl', dev')
BY TimerConf, DeviceHandlesConf, LocalHandlesConf, MessageFailsConf, AnswerArrivesConf,
   AnswerLostConf DEF Messages


-----------------------------------------------------------------------------
(* The connections. *)

\* Without an answer to a configuration nothing is claimed of the answers.
LEMMA NoneDrained ==
    ASSUME NEW rs,
           \A b \in Addresses : \A i \in DOMAIN rs[b] : rs[b][i].kind \notin ConfigKinds,
           NEW d, ~ Connected(d) => \A b \in Addresses : b # Local => rs[b] = <<>>
    PROVE  Drained(d, rs) /\ KeyAnswers(d, rs)
<1>1. KeyKinds \subseteq ConfigKinds
  BY DEF KeyKinds, ConfigKinds
<1>2. QED
  BY <1>1 DEF Drained, KeyAnswers

LEMMA DrainedNone ==
    ASSUME NEW c, NEW rs, Drained(c, rs), ~ Connected(c)
    PROVE  /\ \A b \in Addresses : \A i \in DOMAIN rs[b] : rs[b][i].kind \notin ConfigKinds
           /\ \A b \in Addresses : b # Local => rs[b] = <<>>
BY DEF Drained

\* What follows on clients that differ in their connections alone.
LEMMA AlikeFails ==
    ASSUME NEW c, NEW d, Kept(c, d), d.uuid = c.uuid, NEW e, Failed(d, e)
    PROVE  Failed(c, e)
BY DEF Failed, Kept, Same

LEMMA NodeConnectingOnward ==
    ASSUME NEW c, Joins(c), c.state = "NODE_CONNECTING", NEW up
    PROVE  Onward(c, NodeConnecting(c, up))
<1> DEFINE first == [c EXCEPT !.retries = 1]
           more  == [c EXCEPT !.retries = @ + 1]
           get   == [c EXCEPT !.state = "GET_REMOTE_COMPOSITION_DATA"]
           idle  == [c EXCEPT !.retries = 0, !.state = "IDLE"]
           fail  == NotifyStatus(idle, "FAILED")
<1>1. NodeConnecting(c, up) \in
        {get, ConnectProxy(first, "node"), ConnectProxy(more, "net"), fail}
  BY DEF NodeConnecting
<1>2. Held(c) /\ Good(c) /\ ~ Settled(c)
  BY DEF Joins, Held
<1>3. /\ Apart(c, first) /\ Apart(c, more) /\ Aside(c, idle)
      /\ get.state = "GET_REMOTE_COMPOSITION_DATA"
  BY <1>2 DEF Good, IsClient, Apart, Aside, Beside, Connected
<1> HIDE DEF first, more, get, idle
<1>4. Failed(c, fail)
  BY <1>2, <1>3, AsideFails
<1>5. Good(first) /\ Good(more)
  BY <1>2, <1>3, KeptAside DEF Apart, Kept, Held
<1>6. Apart(first, ConnectProxy(first, "node")) /\ Apart(more, ConnectProxy(more, "net"))
  BY <1>5, ConnectProxyApart
<1>7. /\ ConnectProxy(first, "node").state = "NODE_CONNECTING"
      /\ ConnectProxy(more, "net").state = "NODE_CONNECTING"
  BY <1>3, <1>6 DEF Apart
<1>8. QED
  BY <1>1, <1>3, <1>4, <1>7 DEF Onward, Joining

LEMMA ProxyStatusOnward ==
    ASSUME NEW c, Joins(c), NEW up
    PROVE  Onward(c, ProxyStatus(c, up))
<1> DEFINE node == [c EXCEPT !.state = "NODE_CONNECTING"]
<1>1. Good(c) /\ Held(c)
  BY DEF Joins, Held
<1>2. /\ Aside(c, node) /\ node.state = "NODE_CONNECTING" /\ node.queue = c.queue
      /\ node.uuid = c.uuid
  BY <1>1 DEF Good, IsClient, Aside, Beside, Connected
<1>3. ProxyStatus(c, up) = IF c.state = "PROVISION_DISCONNECTING" THEN c
                           ELSE NodeConnecting(node, up)
  BY DEF ProxyStatus, Joins, Joining
<1> HIDE DEF node
<1>4. Kept(c, node)
  BY <1>1, <1>2, KeptAside
<1>5. Joins(node)
  BY <1>2, <1>4, JoinsKept DEF Joining
<1>6. Onward(node, NodeConnecting(node, up))
  BY <1>2, <1>5, NodeConnectingOnward
<1>7. Onward(c, NodeConnecting(node, up))
  BY <1>2, <1>4, <1>6, AlikeFails DEF Onward
<1>8. Onward(c, c)
  BY DEF Joins, Onward
<1>9. QED
  BY <1>3, <1>7, <1>8

LEMMA ConfigLinkTurns ==
    ASSUME NEW c, Configures(c), NEW up
    PROVE  Apart(c, ConfigLink(c, up)) \/ Failed(c, ConfigLink(c, up))
<1> DEFINE one == [c EXCEPT !.retries = @ + 1]
           two == [c EXCEPT !.retries = @ + 2]
<1>1. ConfigLink(c, up) \in
        {Execute(c), ConnectProxy(one, "node"), ConnectProxy(two, "net"), Fail(two)}
  BY DEF ConfigLink
<1>2. Held(c) /\ Good(c) /\ ~ Settled(c)
  BY OneFresh DEF Configures, Held
<1>3. Apart(c, one) /\ Apart(c, two) /\ two.uuid = c.uuid
  BY <1>2 DEF Good, IsClient, Apart, Aside, Beside, Connected
<1> HIDE DEF one, two
<1>4. Kept(c, one) /\ Kept(c, two)
  BY <1>2, <1>3, KeptAside DEF Apart
<1>5. Good(one) /\ Good(two) /\ Held(two) /\ ~ Settled(two)
  BY <1>2, <1>4 DEF Kept, Held
<1>6. Apart(c, ConnectProxy(one, "node")) /\ Apart(c, ConnectProxy(two, "net"))
  BY <1>3, <1>5, ConnectProxyApart, ApartChain
<1>7. Failed(c, Fail(two))
  BY <1>3, <1>4, <1>5, FailFails, AlikeFails
<1>8. Apart(c, Execute(c))
  BY <1>2, ExecuteApart DEF Configures
<1>9. QED
  BY <1>1, <1>6, <1>7, <1>8

\* A proxy connection is reported when the device has its address.  c is the client
\* with the connection as it is now.
LEMMA ProxyReported ==
    ASSUME StepsInv, ConfInv, Promise(cl, cl'), Linked(cl'), NEW c, NEW up,
           Alike(cl, c), c.plink = cl.plink, cl.state \notin Opening, cl' = ProxyStatus(c, up),
           \A m \in inflight' : m \in inflight \/ m.kind \in Direct,
           UNCHANGED dev, Drained(cl', replies'), Fewer(replies, replies'),
           KeyAnswers(cl, replies) => KeyAnswers(cl, replies')
    PROVE  ConfInv' /\ Told(cl, cl', dev')
<1>1. Phase(cl) /\ Phase(cl') /\ Phase(c) /\ Kept(cl, c) /\ Good(c) /\ Held(c)
  BY PhaseAlike, PhaseHolds, PromisePhase DEF StepsInv
<1>2. c.state = cl.state /\ c.db = cl.db /\ c.uuid = cl.uuid /\ c.addr = cl.addr
  BY DEF Alike
<1>3. Calm(c, cl')
  BY <1>1, <1>2, CalmProxyStatus DEF Opening
<1>4. Based(cl, cl')
  BY <1>2, <1>3, CalmBased DEF Based
<1>5. Plinked(cl')
  <2>1. Plinked(c)
    BY <1>2 DEF ConfInv, Plinked
  <2>2. QED
    BY <1>3, <2>1, CalmPlinked
<1>6. Devs(dev') /\ Lasts(cl, dev, dev') /\ dev'[cl.uuid].applied = dev[cl.uuid].applied
  BY DevSame DEF ConfInv
<1>7. CASE Rests(cl)
  <2>1. Out(cl, cl')
    BY <1>7, RestsOut
  <2>2. QED
    BY <1>1, <1>4, <1>5, <1>6, <2>1, ConcludeOut
<1>8. CASE cl.state \in Joining
  <2>1. Joins(cl) /\ Joins(c)
    BY <1>1, <1>2, <1>8, PhaseQueue
  <2>2. Onward(c, cl')
    BY <2>1, ProxyStatusOnward
  <2>3. Onward(cl, cl')
    BY <1>1, <1>2, <2>2, AlikeFails DEF Onward
  <2>4. Out(cl, cl')
    BY <2>1, <2>3, JoinsOut
  <2>5. QED
    BY <1>1, <1>4, <1>5, <1>6, <2>4, ConcludeOut
<1>9. CASE cl.state = "CONFIGURATION"
  <2>1. Configures(c)
    BY <1>1, <1>2, <1>9, ConfigPhase
  <2>2. cl' = ConfigLink(c, up)
    BY <1>2, <1>9 DEF ProxyStatus
  <2>3. Apart(c, cl') \/ Failed(c, cl')
    BY <2>1, <2>2, ConfigLinkTurns
  <2>4. Failed(c, cl') => Failed(cl, cl')
    BY <1>1, <1>2, AlikeFails
  <2>5. Apart(c, cl') => Level(cl, cl') /\ cl'.told = cl.told
    BY ApartLevel, AlikeLevel DEF Level
  <2>6. QED
    BY <1>4, <1>5, <1>6, <2>3, <2>4, <2>5, LevelConf
<1>10. QED
  BY <1>1, <1>7, <1>8, <1>9, OutsideRests DEF Active

LEMMA CompositionDirect ==
    ASSUME NEW d, NEW m \in CompositionGet(d)
    PROVE  m.kind \in Direct
<1>1. CompositionGet(d) \in {{Msg("COMP_GET", d.addr)}, {}}
  BY DEF CompositionGet
<1>2. m = Msg("COMP_GET", d.addr)
  BY <1>1
<1>3. QED
  BY <1>2 DEF Msg, Direct

LEMMA ProxyUpConf ==
    ASSUME StepsInv, ConfInv, Promise(cl, cl'), Linked(cl'), NEW x, ProxyUp(x)
    PROVE  ConfInv' /\ Told(cl, cl', dev')
<1> DEFINE c == LinkUp(cl, dev[x].addr)
           d == ProxyStatus(c, TRUE)
<1>1. Client(d) /\ UNCHANGED <<dev, replies>> /\ cl.link.st \in {"node", "net"}
  BY DEF ProxyUp, MayConnect
<1>2. Good(cl) /\ ~ Connected(cl) /\ cl.state \notin Opening
  BY <1>1, PhaseHolds DEF StepsInv, Connected, Linked
<1>3. Alike(cl, c) /\ c.plink = cl.plink
  BY <1>2 DEF LinkUp, Alike, Good, IsClient
<1>4. cl' = d
  BY <1>1 DEF Client
<1> HIDE DEF c
<1>5. \A m \in inflight' : m \in inflight \/ m.kind \in Direct
  <2> HIDE DEF d
  <2>1. \A m \in CompositionGet(d) : m.kind \in Direct
    BY CompositionDirect
  <2>2. \A m \in Outstanding(d, inflight) : m \in inflight
    BY OutstandingIn
  <2>3. QED
    BY <1>1, <2>1, <2>2 DEF Client
<1>6. Drained(cl', replies') /\ Fewer(replies, replies')
  <2>1. replies' = replies /\ Drained(cl, replies)
    BY <1>1 DEF ConfInv
  <2>2. Drained(cl', replies)
    BY <1>2, <2>1, DrainedNone, NoneDrained
  <2>3. QED
    BY <2>1, <2>2, FewerSame
<1>7. KeyAnswers(cl, replies) => KeyAnswers(cl, replies')
  BY <1>1
<1>8. QED
  BY <1>1, <1>2, <1>3, <1>4, <1>5, <1>6, <1>7, ProxyReported

\* The answers that go with a connection.
LEMMA GoneFewer ==
    ASSUME NEW rs
    PROVE  Fewer(rs, [a \in Addresses |-> IF a = Local THEN rs[a] ELSE <<>>])
<1> DEFINE ts == [a \in Addresses |-> IF a = Local THEN rs[a] ELSE <<>>]
<1>1. \A b \in Addresses : IF b = Local THEN ts[b] = rs[b] ELSE ts[b] = <<>>
  OBVIOUS
<1> HIDE DEF ts
<1>2. Fewer(rs, ts)
  BY <1>1 DEF Fewer
<1>3. QED
  BY <1>2 DEF ts

LEMMA KeyAnswersGone ==
    ASSUME NEW c, NEW rs, Drained(c, rs), NEW d
    PROVE  KeyAnswers(d, [a \in Addresses |-> IF a = Local THEN rs[a] ELSE <<>>])
<1> DEFINE ts == [a \in Addresses |-> IF a = Local THEN rs[a] ELSE <<>>]
<1>1. \A b \in Addresses : IF b = Local THEN ts[b] = rs[b] ELSE ts[b] = <<>>
  OBVIOUS
<1> HIDE DEF ts
<1>2. ASSUME NEW b \in Addresses, NEW i \in DOMAIN ts[b]
      PROVE  ts[b][i].kind \notin ConfigKinds
  BY <1>1, <1>2 DEF Drained
<1>3. KeyAnswers(d, ts)
  BY <1>1, <1>2, NoneDrained DEF KeyAnswers, KeyKinds, ConfigKinds
<1>4. QED
  BY <1>3 DEF ts

\* A provisioning goes on over another link, or begins again.
LEMMA OpensConf ==
    ASSUME StepsInv, ConfInv, Promise(cl, cl'), cl.state \in Opening,
           Based(cl, cl'), Plinked(cl'), Devs(dev'), Lasts(cl, dev, dev'), Drained(cl', replies')
    PROVE  ConfInv' /\ Told(cl, cl', dev')
<1>1. Opens(cl) /\ Phase(cl')
  BY PhaseQueue, PromisePhase DEF StepsInv
<1>2. Out(cl, cl')
  BY <1>1, OpensOut
<1>3. QED
  BY <1>1, <1>2, ConcludeOut

LEMMA ProxyGoneConf ==
    ASSUME StepsInv, ConfInv, Promise(cl, cl'), Linked(cl'), ProxyDown \/ ProxyLost
    PROVE  ConfInv' /\ Told(cl, cl', dev')
<1> DEFINE c  == LinkDown(cl)
           d  == ProxyStatus(c, FALSE)
           rs == [a \in Addresses |-> IF a = Local THEN replies[a] ELSE <<>>]
<1>1. Disconnected(d) /\ UNCHANGED dev
  BY DEF ProxyDown, ProxyLost
<1>2. Good(cl) /\ Phase(cl) /\ Drained(cl, replies)
  BY PhaseHolds DEF StepsInv, ConfInv
<1>3. Alike(cl, c) /\ c.plink = cl.plink
  BY <1>2 DEF LinkDown, Down, Alike, Good, IsClient
<1>4. cl' = d /\ replies' = rs
  BY <1>1 DEF Disconnected
<1>5. \A m \in inflight' : m \in inflight
  BY <1>1, OutstandingIn DEF Disconnected
<1>6. Drained(d, rs)
  BY <1>2, DrainedGone
<1>7. Fewer(replies, rs) /\ KeyAnswers(cl, rs)
  BY <1>2, GoneFewer, KeyAnswersGone
<1> HIDE DEF rs, c
<1>8. CASE cl.state \notin Opening
  BY <1>1, <1>3, <1>4, <1>5, <1>6, <1>7, <1>8, ProxyReported
<1>9. CASE cl.state \in Opening
  <2>1. /\ Phase(c) /\ Kept(cl, c) /\ Held(c) /\ Good(c)
        /\ c.state = cl.state /\ c.db = cl.db /\ c.addr = cl.addr
    BY <1>2, <1>3, PhaseAlike, PhaseHolds DEF Alike
  <2>2. d.db = cl.db /\ Plinked(d)
    <3>1. CASE c.state = "PROVISIONING"
      <4>1. d = c
        BY <3>1 DEF ProxyStatus
      <4>2. QED
        BY <1>3, <2>1, <4>1 DEF ConfInv, Plinked
    <3>2. CASE c.state = "CONNECTING"
      <4> DEFINE more == ProvisionConnect(c)
      <4>1. d = NotifyStatus(more, "CONNECTING")
        BY <3>2 DEF ProxyStatus
      <4>2. Alike(c, more) /\ more.plink.st = "connecting"
        BY <2>1, ProvisionConnectShape
      <4> HIDE DEF more, d
      <4>3. Opens(c)
        BY <2>1, <3>2, PhaseQueue DEF Opening
      <4>4. Held(more) /\ more.db = c.db /\ more.last_status \notin Ongoing
        <5>1. Phase(more) /\ Kept(c, more)
          BY <2>1, <4>2, PhaseAlike
        <5>2. QED
          BY <4>2, <4>3, <5>1 DEF Kept, Opens, Alike
      <4>5. d.db = more.db /\ d.plink = more.plink
        BY <4>1, <4>4, NotifyNews DEF Ongoing
      <4>6. QED
        BY <2>1, <4>2, <4>4, <4>5 DEF Plinked
    <3>3. QED
      BY <1>9, <2>1, <3>1, <3>2 DEF Opening
  <2> HIDE DEF d
  <2>3. Based(cl, cl') /\ Plinked(cl') /\ Drained(cl', replies')
    BY <1>4, <1>6, <2>2, SameBased
  <2>4. Devs(dev') /\ Lasts(cl, dev, dev')
    BY <1>1, DevSame DEF ConfInv
  <2>5. QED
    BY <1>9, <2>3, <2>4, OpensConf
<1>10. QED
  BY <1>8, <1>9

LEMMA PbOpensConf ==
    ASSUME StepsInv, ConfInv, Promise(cl, cl'), PbOpens
    PROVE  ConfInv' /\ Told(cl, cl', dev')
<1> DEFINE open == [cl EXCEPT !.plink.st = "open"]
           d    == [open EXCEPT !.over_gatt = TRUE]
<1>1. Good(cl) /\ cl.state = "CONNECTING"
  BY PhaseHolds DEF StepsInv, PbOpens, Linked
<1>2. /\ Alike(cl, open) /\ open.plink.st = "open" /\ open.link = cl.link
  BY <1>1 DEF Alike, Good, IsClient
<1>3. /\ Alike(cl, d) /\ d.plink.st = "open" /\ d.link = cl.link
  BY <1>1 DEF Alike, Good, IsClient
<1>4. Client(d) /\ UNCHANGED <<dev, replies>>
  <2>1. LinkReport(open, TRUE) = d
    BY <1>1, <1>2 DEF LinkReport, Alike
  <2>2. QED
    BY <2>1 DEF PbOpens, PbStep
<1>5. cl' = d
  BY <1>4 DEF Client
<1> HIDE DEF open, d
<1>6. Based(cl, cl') /\ Plinked(cl') /\ (Connected(cl) => Connected(cl')) /\ cl'.state = cl.state
  BY <1>3, <1>5, AlikeLevel, SameBased DEF Plinked, Connected, Level
<1>7. Drained(cl', replies')
  <2>1. replies' = replies
    BY <1>4
  <2>2. QED
    BY <1>1, <1>6, <2>1, FewerSame, DrainedFewer DEF ConfInv
<1>8. Devs(dev') /\ Lasts(cl, dev, dev')
  BY <1>4, DevSame DEF ConfInv
<1>9. QED
  BY <1>1, <1>6, <1>7, <1>8, OpensConf DEF Opening


\* The device that completed the procedure, whether the client hears of it or not.
LEMMA ProvisionedDevice ==
    ASSUME StepsInv, ConfInv, cl.plink.st = "started",
           Becomes(dev, cl.plink.dev, [NewDevice EXCEPT !.new = FALSE, !.addr = cl.plink.addr], dev')
    PROVE  Devs(dev') /\ Lasts(cl, dev, dev')
<1> DEFINE x == cl.plink.dev
           a == cl.plink.addr
           y == [NewDevice EXCEPT !.new = FALSE, !.addr = a]
<1>1. Shaped(y) /\ y.addr = a
  <2> HIDE DEF a
  <2>1. NewDevice \in [new : BOOLEAN, addr : {0}, applied : {{}}]
    BY DEF NewDevice
  <2>2. y \in [new : BOOLEAN, addr : {a}, applied : {{}}]
    BY <2>1
  <2> HIDE DEF y
  <2>3. QED
    BY <2>2 DEF Shaped
<1>2. a = cl.addr /\ NodesAt(cl, cl.addr) = {}
  BY DEF ConfInv, Plinked, StepsInv, Linked
<1>3. Becomes(dev, x, y, dev')
  OBVIOUS
<1> HIDE DEF y, a, x
<1>4. \A r \in cl.db : r.addr # y.addr
  BY <1>1, <1>2 DEF NodesAt
<1>5. Devs(dev)
  BY DEF ConfInv
<1>6. QED
  BY <1>1, <1>3, <1>4, <1>5, DevOne

\* What the end of a provisioning link leaves of the database and the link.
LEMMA ProvisionAgainShape ==
    ASSUME NEW c, Good(c), c.completed_sent \in BOOLEAN, c.last_status \notin Ongoing
    PROVE  LET d == ProvisionAgain(c)
           IN  d.db = c.db /\ d.state \in {"CONNECTING", "IDLE"}
<1> DEFINE again == [c EXCEPT !.retries = @ + 1, !.state = "CONNECTING"]
           idle  == [c EXCEPT !.retries = @ + 1, !.state = "IDLE"]
           more  == ProvisionConnect(again)
           fail  == NotifyStatus(idle, "FAILED")
<1>1. ProvisionAgain(c) \in {more, fail}
  BY DEF ProvisionAgain
<1>2. /\ IsClient(again) /\ again.state = "CONNECTING" /\ again.db = c.db
      /\ IsClient(idle) /\ idle.state = "IDLE" /\ idle.db = c.db
      /\ idle.last_status = c.last_status /\ idle.completed_sent = c.completed_sent
  BY DEF Good, IsClient
<1> HIDE DEF again, idle
<1>3. Good(again) /\ Good(idle)
  BY <1>2, GoodLink
<1>4. more.db = c.db /\ more.state = "CONNECTING"
  BY <1>2, <1>3, ProvisionConnectShape DEF Alike
<1>5. NotifyResult(idle, "FAILED", fail) /\ ~ Resets(idle, "FAILED")
  BY <1>2, <1>3, NotifyShape DEF Resets
<1> HIDE DEF more, fail
<1>6. fail.db = c.db /\ fail.state = "IDLE"
  BY <1>2, <1>5 DEF NotifyResult
<1>7. QED
  BY <1>1, <1>4, <1>6

LEMMA LinkGoneConf ==
    ASSUME StepsInv, ConfInv, Promise(cl, cl'), Linked(cl'), UNCHANGED replies,
           Client(LinkReport([cl EXCEPT !.plink = PbDown], FALSE)),
           Devs(dev'), Lasts(cl, dev, dev'), cl.state # "PROVISIONING" => UNCHANGED dev
    PROVE  ConfInv' /\ Told(cl, cl', dev')
<1> DEFINE c == [cl EXCEPT !.plink = PbDown]
           d == LinkReport(c, FALSE)
<1>1. Phase(cl) /\ Linked(cl) /\ Good(cl) /\ Phase(cl')
  BY PhaseHolds, PromisePhase DEF StepsInv
<1>2. Alike(cl, c) /\ c.plink.st = "down" /\ c.link = cl.link
  BY <1>1 DEF Alike, PbDown, Good, IsClient
<1>3. cl' = d /\ replies' = replies
  BY DEF Client
<1>4. \A m \in inflight' : m \in inflight \/ m.kind \in Direct
  <2> HIDE DEF d
  <2>1. \A m \in CompositionGet(d) : m.kind \in Direct
    BY CompositionDirect
  <2>2. \A m \in Outstanding(d, inflight) : m \in inflight
    BY OutstandingIn
  <2>3. QED
    BY <2>1, <2>2 DEF Client, d
<1> HIDE DEF c
<1>5. Phase(c) /\ Kept(cl, c) /\ Good(c) /\ Held(c)
  BY <1>1, <1>2, PhaseAlike, PhaseHolds
<1>6. c.state = cl.state /\ c.db = cl.db /\ (Connected(c) <=> Connected(cl))
  BY <1>2 DEF Alike, Connected
<1>7. ASSUME Connected(cl) => Connected(cl'), cl'.state = "GET_REMOTE_COMPOSITION_DATA" => cl'.state = cl.state
      PROVE  Drained(cl', replies')
  BY <1>3, <1>7, FewerSame, DrainedFewer DEF ConfInv
<1>8. CASE cl.state \in Opening
  <2>1. Opens(c) /\ c.link.st # "up"
    BY <1>1, <1>2, <1>5, <1>6, <1>8, PhaseQueue DEF Linked
  <2>2. d = ProvisionAgain(c)
    BY <1>6, <1>8 DEF LinkReport, Opening
  <2>3. d.db = c.db /\ d.state \in {"CONNECTING", "IDLE"}
    BY <1>5, <2>1, <2>2, ProvisionAgainShape DEF Opens, Held
  <2>4. Connected(c) => Connected(d)
    BY <1>2, <2>1, <2>2, ProvisionAgainOpened DEF Opened
  <2> HIDE DEF d
  <2>5. Based(cl, cl') /\ Plinked(cl')
    BY <1>3, <1>6, <2>3, SameBased, LinkedPlinked
  <2>6. Drained(cl', replies')
    BY <1>3, <1>6, <1>7, <2>3, <2>4
  <2>7. QED
    BY <1>8, <2>5, <2>6, OpensConf
<1>9. CASE cl.state = "PROVISION_DISCONNECTING"
  <2> DEFINE next == [c EXCEPT !.state = "NODE_CONNECTING", !.retries = 0]
  <2>1. d = ConnectProxy(next, "node")
    BY <1>6, <1>9 DEF LinkReport
  <2>2. Beside(c, next) /\ next.state = "NODE_CONNECTING"
    BY <1>5 DEF Good, IsClient, Beside, Connected
  <2> HIDE DEF next, d
  <2>3. Good(next)
    BY <1>5, <2>2, GoodLink DEF Beside
  <2>4. Beside(next, d) /\ d.state = "NODE_CONNECTING"
    BY <2>1, <2>2, <2>3, ConnectProxyAside DEF Aside
  <2>5. d.db = cl.db /\ (Connected(cl) => Connected(d))
    BY <1>6, <2>2, <2>4 DEF Beside
  <2>6. Joins(cl) /\ Onward(cl, cl')
    BY <1>1, <1>3, <1>9, <2>4, PhaseQueue DEF Onward, Joining
  <2>7. Out(cl, cl')
    BY <2>6, JoinsOut
  <2>8. Based(cl, cl') /\ Plinked(cl')
    BY <1>3, <2>4, <2>5, SameBased, LinkedPlinked
  <2>9. Drained(cl', replies')
    BY <1>3, <1>7, <2>4, <2>5
  <2>10. QED
    BY <1>1, <2>7, <2>8, <2>9, ConcludeOut
<1>10. CASE cl.state \notin Opening \cup {"PROVISION_DISCONNECTING"}
  <2>1. d = c
    BY <1>6, <1>10 DEF LinkReport, Opening
  <2> HIDE DEF d
  <2>2. Based(cl, cl') /\ Plinked(cl')
    BY <1>2, <1>3, <1>6, <2>1, SameBased DEF Plinked
  <2>3. Drained(cl', replies')
    BY <1>3, <1>6, <1>7, <2>1
  <2>4. CASE cl.state = "CONFIGURATION"
    <3>1. Level(cl, cl') /\ cl'.told = cl.told
      BY <1>2, <1>3, <2>1, AlikeLevel
    <3>2. dev'[cl.uuid].applied = dev[cl.uuid].applied
      BY <1>10 DEF Opening
    <3>3. Fewer(replies, replies') /\ (KeyAnswers(cl, replies) => KeyAnswers(cl, replies'))
      BY <1>3, FewerSame
    <3>4. QED
      BY <1>4, <2>2, <2>3, <3>1, <3>2, <3>3, LevelConf
  <2>5. CASE cl.state \in Joining
    <3>1. Joins(cl) /\ Onward(cl, cl')
      BY <1>1, <1>3, <1>6, <2>1, <2>5, PhaseQueue DEF Onward
    <3>2. Out(cl, cl')
      BY <3>1, JoinsOut
    <3>3. QED
      BY <1>1, <2>2, <2>3, <3>2, ConcludeOut
  <2>6. CASE Rests(cl)
    <3>1. Out(cl, cl')
      BY <2>6, RestsOut
    <3>2. QED
      BY <1>1, <2>2, <2>3, <3>1, ConcludeOut
  <2>7. QED
    BY <1>1, <1>10, <2>4, <2>5, <2>6, OutsideRests DEF Active
<1>11. QED
  BY <1>8, <1>9, <1>10

LEMMA PbGoneConf ==
    ASSUME StepsInv, ConfInv, Promise(cl, cl'), Linked(cl'),
           PbCloses \/ \E b \in BOOLEAN : PbLost(b)
    PROVE  ConfInv' /\ Told(cl, cl', dev')
<1>1. UNCHANGED replies /\ Client(LinkReport([cl EXCEPT !.plink = PbDown], FALSE))
  BY DEF PbCloses, PbLost, PbStep
<1>2. \/ UNCHANGED dev
      \/ /\ cl.plink.st = "started"
         /\ Becomes(dev, cl.plink.dev, [NewDevice EXCEPT !.new = FALSE, !.addr = cl.plink.addr], dev')
  BY DEF PbCloses, PbLost, Becomes
<1>3. Devs(dev') /\ Lasts(cl, dev, dev')
  <2>1. CASE UNCHANGED dev
    BY <2>1, DevSame DEF ConfInv
  <2>2. QED
    BY <1>2, <2>1, ProvisionedDevice
<1>4. cl.state # "PROVISIONING" => UNCHANGED dev
  BY <1>2 DEF StepsInv, Linked
<1>5. QED
  BY <1>1, <1>3, <1>4, LinkGoneConf

LEMMA PbCapabilitiesConf ==
    ASSUME StepsInv, ConfInv, Promise(cl, cl'), PbCapabilities
    PROVE  ConfInv' /\ Told(cl, cl', dev')
<1> DEFINE a == FreeAddress(cl)
           c == [cl EXCEPT !.state = "PROVISIONING", !.addr = a,
                           !.plink.st = "started", !.plink.addr = a]
           d == NotifyStatus(c, "PROVISIONING")
<1>1. /\ Phase(cl) /\ Linked(cl) /\ cl.state = "CONNECTING" /\ cl.plink.st = "open"
      /\ Good(cl)
  BY PhaseHolds DEF StepsInv, PbCapabilities, Linked
<1>2. Opens(cl)
  BY <1>1, PhaseQueue DEF Opening
<1>3. Client(d) /\ UNCHANGED <<dev, replies>>
  BY <1>1 DEF PbCapabilities, PbStep, DeviceCaps
<1>4. cl' = d
  BY <1>3 DEF Client
<1>5. Connected(cl) => Connected(d)
  BY <1>1, <1>2, DeviceCapsOpened DEF Opened, DeviceCaps
<1>6. a \in Nat
  BY <1>1, FreeAddressIsFree DEF Unicast
<1> HIDE DEF a
<1>7. /\ IsClient(c) /\ c.db = cl.db /\ c.addr = a /\ c.plink.addr = a
      /\ c.state = "PROVISIONING" /\ c.completed_sent = cl.completed_sent
  BY <1>1, <1>6 DEF Good, IsClient
<1> HIDE DEF c
<1>8. Good(c)
  BY <1>1, <1>7, GoodLink
<1>9. NotifyResult(c, "PROVISIONING", d) /\ ~ Resets(c, "PROVISIONING")
  BY <1>2, <1>7, <1>8, NotifyShape DEF Resets, Opens, Held
<1> HIDE DEF d
<1>10. d.db = cl.db /\ d.addr = a /\ d.plink.addr = a /\ d.state = "PROVISIONING"
  BY <1>7, <1>9 DEF NotifyResult
<1>11. Based(cl, cl') /\ Plinked(cl')
  BY <1>4, <1>10, SameBased DEF Plinked
<1>12. Drained(cl', replies')
  <2>1. replies' = replies
    BY <1>3
  <2>2. QED
    BY <1>4, <1>5, <1>10, <2>1, FewerSame, DrainedFewer DEF ConfInv
<1>13. Devs(dev') /\ Lasts(cl, dev, dev')
  BY <1>3, DevSame DEF ConfInv
<1>14. QED
  BY <1>1, <1>11, <1>12, <1>13, OpensConf DEF Opening

\* The record of the node that is created is the only new one.
LEMMA CreatedBased ==
    ASSUME NEW c, Held(c), c.uuid \in Devices, c.completed_sent = FALSE, c.plink.st = "ended",
           c.addr \in Unicast, NodesAt(c, c.addr) = {}, NEW ok \in BOOLEAN
    PROVE  LET d == ProvisionEnd(c, ok) IN Based(c, d) /\ d.plink = c.plink
<1> DEFINE db      == {r \in c.db : r.uuid # c.uuid} \cup {Record(c.uuid, c.addr)}
           created == [c EXCEPT !.db = db]
           told    == NotifyStatus(created, "END")
           failed  == NotifyStatus(c, "FAILED")
           wait    == [told EXCEPT !.state = "PROVISION_DISCONNECTING"]
           get     == [told EXCEPT !.state = "GET_REMOTE_COMPOSITION_DATA"]
           idle    == [failed EXCEPT !.state = "IDLE"]
           d       == ProvisionEnd(c, ok)
<1>1. created = [c EXCEPT !.db = {r \in @ : r.uuid # c.uuid} \cup {Record(c.uuid, c.addr)}]
  BY DEF Held, Good, IsClient
<1>2. d \in {idle, wait, get}
  BY <1>1 DEF ProvisionEnd
<1>3. DbOK(db) /\ \A r \in db : r \in c.db \/ (r.uuid \in Devices /\ ~ r.complete)
  BY CreatedOK DEF Held, Good, IsClient, NodesAt, Record
<1> HIDE DEF db, d
<1>4. /\ IsClient(created) /\ created.db = db /\ created.plink = c.plink
      /\ created.completed_sent = FALSE
  BY DEF Held, Good, IsClient
<1> HIDE DEF created
<1>5. NotifyResult(created, "END", told) /\ ~ Resets(created, "END")
  BY <1>3, <1>4, NotifyShape DEF Good, Resets
<1>6. Calm(c, failed)
  BY CalmNotifyStatus DEF Held
<1> HIDE DEF told, failed
<1>7. Good(told) /\ told.db = db /\ told.plink = c.plink
  BY <1>4, <1>5 DEF NotifyResult
<1>8. Calm(failed, idle) /\ Calm(c, idle)
  BY <1>6, CalmState, CalmChain DEF Opening, Calm
<1>9. /\ wait.db = db /\ wait.plink = c.plink
      /\ get.db = db /\ get.plink = c.plink
  BY <1>7, StateAside DEF Aside, Beside
<1>10. Based(c, idle) /\ idle.plink = c.plink
  BY <1>8, CalmBased DEF Calm
<1> HIDE DEF idle, wait, get
<1>11. Based(c, wait) /\ Based(c, get)
  BY <1>3, <1>9 DEF Based
<1>12. Based(c, d) /\ d.plink = c.plink
  BY <1>2, <1>9, <1>10, <1>11
<1>13. QED
  BY <1>12 DEF d

LEMMA PbEndConf ==
    ASSUME StepsInv, ConfInv, Promise(cl, cl'), NEW ok \in BOOLEAN, PbEnd(ok)
    PROVE  ConfInv' /\ Told(cl, cl', dev')
<1> DEFINE c == [cl EXCEPT !.plink.st = "ended"]
           d == ProvisionEnd(c, ok)
<1>1. /\ Phase(cl) /\ Linked(cl) /\ Good(cl) /\ cl.state = "PROVISIONING"
      /\ cl.plink.st = "started"
  BY PhaseHolds DEF StepsInv, PbEnd, Linked
<1>2. Client(d) /\ UNCHANGED replies
  BY <1>1 DEF PbEnd, PbStep
<1>3. cl' = d /\ replies' = replies
  BY <1>2 DEF Client
<1>4. /\ Alike(cl, c) /\ c.plink.st = "ended" /\ c.link = cl.link
      /\ c.over_gatt = cl.over_gatt
  BY <1>1 DEF Alike, Good, IsClient
<1> HIDE DEF c
<1>5. Phase(c) /\ Kept(cl, c)
  BY <1>1, <1>4, PhaseAlike
<1>6. Opens(c) /\ (Connected(c) <=> Connected(cl)) /\ c.uuid = cl.uuid /\ c.db = cl.db
  BY <1>1, <1>4, <1>5, PhaseQueue DEF Alike, Opening, Connected
<1>7. c.addr \in Unicast /\ NodesAt(c, c.addr) = {} /\ (~ c.over_gatt => ~ Connected(c))
  BY <1>1, <1>4 DEF Linked, Alike, NodesAt, Connected
<1>8. /\ Connected(c) => Connected(d)
      /\ d.state = "GET_REMOTE_COMPOSITION_DATA" => ~ Connected(c)
  BY <1>4, <1>6, <1>7, ProvisionEndJoins
<1>9. Held(c) /\ c.uuid \in Devices /\ c.completed_sent = FALSE
  BY <1>6 DEF Opens, Held, Good, IsClient, Settled
<1>10. Based(c, d) /\ d.plink = c.plink
  BY <1>4, <1>7, <1>9, CreatedBased
<1> HIDE DEF d
<1>11. Based(cl, cl') /\ Plinked(cl')
  BY <1>3, <1>4, <1>6, <1>10 DEF Based, Plinked
<1>12. Drained(cl', replies')
  BY <1>3, <1>6, <1>8, FewerSame, DrainedFewer DEF ConfInv
<1>13. Devs(dev') /\ Lasts(cl, dev, dev')
  <2>1. \/ dev' = dev
        \/ Becomes(dev, cl.plink.dev, [NewDevice EXCEPT !.new = FALSE, !.addr = cl.plink.addr], dev')
    BY DEF PbEnd, Becomes
  <2>2. CASE dev' = dev
    BY <2>2, DevSame DEF ConfInv
  <2>3. QED
    BY <1>1, <2>1, <2>2, ProvisionedDevice
<1>14. QED
  BY <1>1, <1>11, <1>12, <1>13, OpensConf DEF Opening

LEMMA ConnectionsConf ==
    ASSUME StepsInv, ConfInv, Promise(cl, cl'), Linked(cl'), Connections
    PROVE  ConfInv' /\ Told(cl, cl', dev')
BY ProxyUpConf, ProxyGoneConf, PbOpensConf, PbGoneConf, PbCapabilitiesConf, PbEndConf
   DEF Connections

-----------------------------------------------------------------------------
(* From the start. *)

LEMMA InitDevices ==
    ASSUME Init
    PROVE  /\ Devs(dev)
           /\ \A i \in DOMAIN Known : dev[Known[i]].applied = Required
<1> DEFINE S == {DeviceInit(d).addr : d \in Devices} \cup {0}
<1>1. dev = [d \in Devices |-> DeviceInit(d)]
  BY DEF Init
<1>2. ASSUME NEW d \in Devices
      PROVE  /\ DeviceInit(d) \in [new : BOOLEAN, addr : S, applied : SUBSET Required]
             /\ (\E i \in DOMAIN Known : Known[i] = d) => DeviceInit(d).applied = Required
  <2> DEFINE a == 1 + CHOOSE i \in DOMAIN Known : Known[i] = d
             y == [new |-> FALSE, addr |-> a, applied |-> Required]
  <2>1. DeviceInit(d) = IF \E i \in DOMAIN Known : Known[i] = d THEN y ELSE NewDevice
    BY DEF DeviceInit
  <2>2. DeviceInit(d).addr \in S
    BY <1>2
  <2> HIDE DEF a, S
  <2>3. y.applied = Required /\ NewDevice.applied = {}
    BY DEF NewDevice
  <2>4. CASE DeviceInit(d) = y
    <3>1. a \in S
      BY <2>2, <2>4
    <3>2. y \in [new : BOOLEAN, addr : S, applied : SUBSET Required]
      BY <3>1
    <3> HIDE DEF y
    <3>3. QED
      BY <2>3, <2>4, <3>2
  <2>5. CASE DeviceInit(d) = NewDevice /\ ~ \E i \in DOMAIN Known : Known[i] = d
    <3>1. 0 \in S
      BY <2>2, <2>5 DEF NewDevice
    <3>2. QED
      BY <2>5, <3>1 DEF NewDevice
  <2>6. QED
    BY <2>1, <2>4, <2>5
<1> HIDE DEF S
<1>3. dev \in [Devices -> [new : BOOLEAN, addr : S, applied : SUBSET Required]]
  BY <1>1, <1>2
<1>4. ASSUME NEW i \in DOMAIN Known PROVE dev[Known[i]].applied = Required
  <2>1. Known[i] \in Devices
    BY ProvisioningAssumption
  <2>2. QED
    BY <1>1, <1>2, <2>1
<1>5. QED
  BY <1>3, <1>4 DEF Devs

LEMMA ConfInit == Init => ConfInv
<1> SUFFICES ASSUME Init PROVE ConfInv
  OBVIOUS
<1> DEFINE node(i) == [Record(Known[i], i + 1) EXCEPT !.complete = TRUE]
<1>1. cl.db = {node(i) : i \in DOMAIN Known} /\ cl.state = "IDLE" /\ cl.plink.st = "down"
  BY DEF Init, ClientInit, PbDown
<1>2. \A i : node(i).uuid = Known[i]
  BY DEF Record
<1> HIDE DEF node
<1>3. \A r \in cl.db : \E i \in DOMAIN Known : r.uuid = Known[i]
  BY <1>1, <1>2
<1>4. Devs(dev) /\ \A i \in DOMAIN Known : dev[Known[i]].applied = Required
  BY InitDevices
<1>5. Owned(cl) /\ Proper(cl, dev)
  BY <1>3, <1>4, ProvisioningAssumption DEF Owned, Proper
<1>6. Drained(cl, replies)
  <2>1. \A b \in Addresses : replies[b] = <<>>
    BY DEF Init
  <2>2. \A b \in Addresses : DOMAIN replies[b] = {}
    BY <2>1
  <2>3. QED
    BY <2>1, <2>2 DEF Drained
<1>7. Plinked(cl) /\ OnTrack(cl, dev, inflight, replies)
  BY <1>1 DEF Plinked, OnTrack
<1>8. QED
  BY <1>4, <1>5, <1>6, <1>7 DEF ConfInv

LEMMA ConfNext ==
    ASSUME "BIND" \notin Rejects, "COMP_GET" \notin DupKinds, DupKinds \cap KeyKinds = {},
           StepsInv, ConfInv, Next, Patient
    PROVE  StepsInv' /\ ConfInv' /\ Told(cl, cl', dev')
<1>1. StepsInv' /\ Promise(cl, cl')
  BY UserSteps, MessagesSteps, ConnectionsSteps DEF Next
<1>2. Linked(cl')
  BY <1>1, StepsNext
<1>3. QED
  BY <1>1, <1>2, UserConf, MessagesConf, ConnectionsConf DEF Next

LEMMA ConfStep ==
    ASSUME "BIND" \notin Rejects, "COMP_GET" \notin DupKinds, DupKinds \cap KeyKinds = {},
           StepsInv, ConfInv, [Next]_vars, [Patient]_vars
    PROVE  StepsInv' /\ ConfInv' /\ [Told(cl, cl', dev')]_vars
<1>1. CASE Next /\ Patient
  BY <1>1, ConfNext
<1>2. CASE UNCHANGED vars
  <2>1. /\ cl' = cl /\ inflight' = inflight /\ replies' = replies /\ dev' = dev
    BY <1>2 DEF vars
  <2>2. Got(cl, replies') /\ UNCHANGED <<cl, inflight>>
    BY <2>1 DEF StepsInv
  <2>3. StepsInv' /\ Promise(cl, cl')
    BY <2>2, RepliesSteps
  <2>4. Devs(dev') /\ Lasts(cl, dev, dev') /\ Drained(cl, replies') /\ OnTrack(cl, dev', inflight', replies')
    BY <2>1, DevSame DEF ConfInv
  <2>5. ConfInv'
    BY <2>1, <2>3, <2>4, StillConf
  <2>6. QED
    BY <1>2, <2>3, <2>5
<1>3. QED
  BY <1>1, <1>2

\* A node that the database calls completely configured accepted every message of its
\* configuration, for every set of devices, every database at the start and whatever
\* connections, messages and answers are lost: the queue is the whole of what the node
\* has not accepted, and mesh_configure_remote_device ends when the queue does.  It
\* takes what ClientKeepsPromise does, and that an answer about a key comes once: the
\* second one would take the operation at the head away during a refresh of the keys.
THEOREM CompleteIsConfigured ==
    ASSUME "BIND" \notin Rejects, "COMP_GET" \notin DupKinds, DupKinds \cap KeyKinds = {}
    PROVE  Spec /\ [][Patient]_vars => []CompleteMeansConfigured
<1>1. Init => StepsInv /\ ConfInv
  BY StepsInit, ConfInit
<1>2. StepsInv /\ ConfInv /\ [Next]_vars /\ [Patient]_vars => (StepsInv /\ ConfInv)'
  BY ConfStep
<1>3. ConfInv => CompleteMeansConfigured
  BY DEF ConfInv, Proper, CompleteMeansConfigured
<1>4. QED
  BY <1>1, <1>2, <1>3, PTL DEF Spec

\* The application hears of a success only when the device accepted every message of
\* its configuration: provision_status_notify with SUCCESS, for every instance and
\* under the same hypotheses.
THEOREM SuccessIsConfigured ==
    ASSUME "BIND" \notin Rejects, "COMP_GET" \notin DupKinds, DupKinds \cap KeyKinds = {}
    PROVE  Spec /\ [][Patient]_vars => SuccessMeansConfigured
<1>1. Init => StepsInv /\ ConfInv
  BY StepsInit, ConfInit
<1>2. StepsInv /\ ConfInv /\ [Next]_vars /\ [Patient]_vars =>
         (StepsInv /\ ConfInv)' /\ [Told(cl, cl', dev')]_vars
  BY ConfStep
<1>3. [Told(cl, cl', dev')]_vars =>
         [\A d \in Devices :
             cl.told[d] # "SUCCESS" /\ cl'.told[d] = "SUCCESS" => dev'[d].applied = Required]_vars
  BY DEF Told
<1>4. QED
  BY <1>1, <1>2, <1>3, PTL DEF Spec, SuccessMeansConfigured
=============================================================================
