------------------------------ MODULE MCGroups ------------------------------
(* Instances of Groups for TLC: a lamp with a server and a vendor model,    *)
(* and a switch with a client model.                                        *)
EXTENDS Groups, TLC

LampAndSwitch == <<"lamp", "vendor", "switch">>
Owner  == "lamp" :> "n1" @@ "vendor" :> "n1" @@ "switch" :> "n2"
KindOf == "lamp" :> "server" @@ "vendor" :> "vendor" @@ "switch" :> "client"
=============================================================================
