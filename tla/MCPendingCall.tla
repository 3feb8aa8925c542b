--------------------------- MODULE MCPendingCall ---------------------------
(* PendingCall for TLC: operations with each kind of timeout.               *)
EXTENDS PendingCall, TLC

CONSTANTS c1, c2, c3

OneOfEach == (c1 :> "default") @@ (c2 :> "finite") @@ (c3 :> "infinite")
=============================================================================
