----------------------------- MODULE Membership -----------------------------
(***************************************************************************)
(* What the client promises of every device, whatever the connections do:   *)
(* the abstract specification of Provisioning.  wiced_mesh_client.h says of *)
(* mesh_client_provision that its end is always indicated by SUCCESS or     *)
(* FAILED; the node is by then a member or on its way out of the network.   *)
(***************************************************************************)
EXTENDS TLAPS

CONSTANTS
    Devices,    \* the devices
    Members     \* those that are in the network at the start

VARIABLES
    stage,      \* what the database of the network says of each device
    heard       \* what the application heard last of each device

vars == <<stage, heard>>

Stages == {"out", "fresh", "member", "revoked"}
News   == {"none", "pending", "SUCCESS", "FAILED"}

Init ==
    /\ stage = [d \in Devices |-> IF d \in Members THEN "member" ELSE "out"]
    /\ heard = [d \in Devices |-> "none"]

\* The application asks for the provisioning of d.
Start(d) ==
    /\ \A e \in Devices : heard[e] # "pending"
    /\ heard' = [heard EXCEPT ![d] = "pending"]
    /\ UNCHANGED stage

\* d gets the keys and an address; what the database held of it before is gone.
Join(d) ==
    /\ heard[d] = "pending"
    /\ stage' = [stage EXCEPT ![d] = "fresh"]
    /\ UNCHANGED heard

\* d is configured, and the application hears of it at the same time.
Succeed(d) ==
    /\ heard[d] = "pending" /\ stage[d] = "fresh"
    /\ stage' = [stage EXCEPT ![d] = "member"]
    /\ heard' = [heard EXCEPT ![d] = "SUCCESS"]

\* A node that was not configured to the end is removed from the network again.
Fail(d) ==
    /\ heard[d] = "pending"
    /\ stage' = [stage EXCEPT ![d] = IF @ = "fresh" THEN "revoked" ELSE @]
    /\ heard' = [heard EXCEPT ![d] = "FAILED"]

\* A refresh of the keys ended: the nodes that are to be removed are.
Remove ==
    /\ \E d \in Devices : stage[d] = "revoked"
    /\ stage' = [d \in Devices |-> IF stage[d] = "revoked" THEN "out" ELSE stage[d]]
    /\ UNCHANGED heard

End == \E d \in Devices : Succeed(d) \/ Fail(d)

Next ==
    \/ \E d \in Devices : Start(d) \/ Join(d)
    \/ End
    \/ Remove

Spec == Init /\ [][Next]_vars /\ WF_vars(End)

-----------------------------------------------------------------------------
TypeOK ==
    /\ stage \in [Devices -> Stages]
    /\ heard \in [Devices -> News]

\* No node is left half configured: it is so only while the application waits.
NoneLeftHalfway == \A d \in Devices : stage[d] = "fresh" => heard[d] = "pending"

\* Only a device whose provisioning was reported as failed is being removed, or one
\* the application provisions again after that.
OnlyFailedLeave ==
    \A d \in Devices : stage[d] = "revoked" => heard[d] \in {"FAILED", "pending"}

Inv == TypeOK /\ NoneLeftHalfway /\ OnlyFailedLeave

-----------------------------------------------------------------------------
\* What the application may rely on about the devices it was told of, for every set
\* of devices: mesh_client_provision and the statuses of provision_status_notify.
LEMMA MembershipHolds == Init /\ [][Next]_vars => []Inv
<1>1. Init => Inv
  BY DEF Init, Inv, TypeOK, NoneLeftHalfway, OnlyFailedLeave, Stages, News
<1>2. Inv /\ [Next]_vars => Inv'
  <2> SUFFICES ASSUME Inv, [Next]_vars PROVE Inv'
    OBVIOUS
  <2> USE DEF Inv, TypeOK, NoneLeftHalfway, OnlyFailedLeave, Stages, News
  <2>1. ASSUME NEW d \in Devices, Start(d) PROVE Inv'
    BY <2>1 DEF Start
  <2>2. ASSUME NEW d \in Devices, Join(d) PROVE Inv'
    BY <2>2 DEF Join
  <2>3. ASSUME NEW d \in Devices, Succeed(d) PROVE Inv'
    BY <2>3 DEF Succeed
  <2>4. ASSUME NEW d \in Devices, Fail(d) PROVE Inv'
    BY <2>4 DEF Fail
  <2>5. CASE Remove
    BY <2>5 DEF Remove
  <2>6. CASE UNCHANGED vars
    BY <2>6 DEF vars
  <2>7. QED
    BY <2>1, <2>2, <2>3, <2>4, <2>5, <2>6 DEF Next, End
<1>3. QED
  BY <1>1, <1>2, PTL

\* The same of the specification.
THEOREM MembershipSafe == Spec => []Inv
BY MembershipHolds, PTL DEF Spec
=============================================================================
