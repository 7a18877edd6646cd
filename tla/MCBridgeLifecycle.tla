------------------------- MODULE MCBridgeLifecycle -------------------------
(***************************************************************************)
(* The plugin's side of the bridge.  `turn` is the model that works, the   *)
(* other is at rest:                                                       *)
(*   "lifecycle"   starts, restarts and clean() (BridgeLifecycle)          *)
(*   "heartbeats"  heartbeats and the watchdog, with time (Keepalive)      *)
(***************************************************************************)
EXTENDS BridgeLifecycle, Keepalive

VARIABLE turn

(* A plugin and a bridge that have ended.                                  *)
KAIdle ==
  /\ now = 0 /\ alive = FALSE /\ due = NoTime /\ phase = "idle" /\ since = 0
  /\ open = 0 /\ timer = NoTime /\ timers = {} /\ lost = FALSE /\ expired = TRUE

MCInit ==
  /\ Init
  /\ \/ turn = "lifecycle" /\ KAIdle
     \/ turn = "heartbeats" /\ KAInit

MCNext ==
  /\ \/ turn = "lifecycle" /\ Next /\ UNCHANGED kaVars
     \/ turn = "heartbeats" /\ KANext /\ UNCHANGED vars
  /\ UNCHANGED turn

allVars == <<turn, vars, kaVars>>

MCSpec == MCInit /\ [][MCNext]_allVars /\ Fairness /\ KAFairness
=============================================================================
