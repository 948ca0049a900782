-------------------------- MODULE MCReplayList --------------------------
(* Instances of ReplayList for TLC: a has one element, b has two.         *)
EXTENDS ReplayList, TLC

CONSTANTS a, b

TwoElements == a :> 1 @@ b :> 2
=============================================================================
