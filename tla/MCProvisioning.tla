-------------------------- MODULE MCProvisioning --------------------------
(***************************************************************************)
(* Instances of Provisioning for TLC: px is a node of the network and a GATT *)
(* proxy, a is to be provisioned.                                           *)
(***************************************************************************)
EXTENDS Provisioning

CONSTANTS px, a

KnownNodes == <<px>>
=============================================================================
