---------------------------- MODULE MCKeyRefresh ----------------------------
(***************************************************************************)
(* Instances of KeyRefresh for TLC: the local node and two or three others *)
(* with the network key, some of them with an application key.             *)
(***************************************************************************)
EXTENDS KeyRefresh

CONSTANTS loc, n1, n2, n3, net, app

ThreeNodes == <<loc, n1, n2>>
FourNodes  == <<loc, n1, n2, n3>>

\* phase1_continue visits the network key of every node, then the application key.
ThreeNodesKeys == <<<<net, loc>>, <<net, n1>>, <<net, n2>>, <<app, loc>>, <<app, n1>>, <<app, n2>>>>
FourNodesKeys  == <<<<net, loc>>, <<net, n1>>, <<net, n2>>, <<net, n3>>, <<app, loc>>, <<app, n2>>>>
=============================================================================
