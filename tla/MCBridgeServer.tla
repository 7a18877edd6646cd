--------------------------- MODULE MCBridgeServer ---------------------------
(* BridgeServer for TLC: the cfgs choose how many requests are sent. *)
EXTENDS BridgeServer
=============================================================================
