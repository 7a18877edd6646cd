----------------------------- MODULE Keepalive -----------------------------
(***************************************************************************)
(* Heartbeats against the orphan watchdog, with time.  The plugin pings    *)
(* the bridge at a fixed rate; the bridge shuts down when it has had no    *)
(* request for a while.  The threads of the plugin and the event loop of   *)
(* the bridge may be late, up to a bound.  BridgeServer has the same       *)
(* watchdog without time.                                                  *)
(***************************************************************************)
EXTENDS Naturals

CONSTANTS
  Interval,  \* HEARTBEAT_INTERVAL_SECONDS
  Timeout,   \* SHUTDOWN_TIMEOUT
  MaxLate,   \* a thread of the plugin runs at most this late
  MaxServe,  \* a ping takes at most this long to be answered
  NoTime,    \* no timer, not scheduled
  MaxTime,   \* bound on the time the plugin lives
  MaxOpen    \* bound on other requests in progress

(* What is left of the timeout after an interval tolerates the delays.     *)
ASSUME DelayAssumption ==
  /\ {Interval, Timeout, MaxLate, MaxServe, MaxTime, MaxOpen} \subseteq Nat
  /\ NoTime \notin Nat
  /\ Interval + 2 * MaxLate + MaxServe < Timeout

VARIABLES
  now,      \* the time; 0 when the bridge answered the first ping
  alive,    \* does the plugin run?
  due,      \* when the next heartbeat is due
  phase,    \* of the heartbeat: "idle", "sent", or "handled" by the bridge
  since,    \* when this phase of the heartbeat thread began
  open,     \* other requests that were handled and not answered
  timer,    \* the field of Timeout: when the timer it started expires
  timers,   \* the timers that run
  lost,     \* history: a response was lost since the timer was stopped
  expired   \* has a timer expired?

watchdog == <<timer, timers>>
kaVars == <<now, alive, due, phase, since, open, watchdog, lost, expired>>

KAInit ==
  /\ now = 0
  /\ alive = TRUE
  /\ due = NoTime
  /\ phase = "idle"
  /\ since = 0
  /\ open = 0
  /\ timer = Timeout
  /\ timers = {Timeout}
  /\ lost = FALSE
  /\ expired = FALSE

-----------------------------------------------------------------------------
(* Timeout.stop() and start(), which stops the timer that runs.            *)
Stop == timers' = timers \ {timer} /\ timer' = NoTime

(* Mutant: an answered request does not start the timer again. *)
StartNever == UNCHANGED watchdog

StartTimeout ==
  timers' = (timers \ {timer}) \cup {now + Timeout} /\ timer' = now + Timeout

(* serverHasStarted() schedules the heartbeat at a fixed rate.             *)
ServerHasStarted ==
  /\ alive
  /\ due = NoTime
  /\ due' = now + Interval
  /\ since' = now
  /\ UNCHANGED <<now, alive, phase, open, watchdog, lost, expired>>

(* Mutant: the next heartbeat is counted from a second interval. *)
DueLater == due + 2 * Interval

NextDue == due + Interval

Heartbeat ==
  /\ alive
  /\ due # NoTime
  /\ phase = "idle"
  /\ now >= due
  /\ phase' = "sent"
  /\ since' = now
  /\ due' = NextDue
  /\ UNCHANGED <<now, alive, open, watchdog, lost, expired>>

(* The middleware stops the timer, `finish` starts it.                     *)
HandleStatus ==
  /\ ~ expired
  /\ phase = "sent"
  /\ phase' = "handled"
  /\ Stop
  /\ UNCHANGED <<now, alive, due, since, open, lost, expired>>

FinishStatus ==
  /\ ~ expired
  /\ phase = "handled"
  /\ phase' = "idle"
  /\ since' = now
  /\ StartTimeout
  /\ lost' = FALSE
  /\ UNCHANGED <<now, alive, due, open, expired>>

(* Any other request, with the same middleware; its connection may close   *)
(* before it is answered.                                                  *)
HandleOther ==
  /\ ~ expired
  /\ alive
  /\ due # NoTime
  /\ open < MaxOpen
  /\ open' = open + 1
  /\ Stop
  /\ UNCHANGED <<now, alive, due, phase, since, lost, expired>>

FinishOther ==
  /\ ~ expired
  /\ open > 0
  /\ open' = open - 1
  /\ StartTimeout
  /\ lost' = FALSE
  /\ UNCHANGED <<now, alive, due, phase, since, expired>>

OtherLost ==
  /\ ~ expired
  /\ open > 0
  /\ open' = open - 1
  /\ lost' = (lost \/ timer = NoTime)
  /\ UNCHANGED <<now, alive, due, phase, since, watchdog, expired>>

(* The plugin dies; the ping it has sent is dealt with or lost.            *)
Die ==
  /\ alive
  /\ alive' = FALSE
  /\ UNCHANGED <<now, due, phase, since, open, watchdog, lost, expired>>

PingLost ==
  /\ ~ expired
  /\ ~ alive
  /\ phase # "idle"
  /\ phase' = "idle"
  /\ lost' = (lost \/ (phase = "handled" /\ timer = NoTime))
  /\ UNCHANGED <<now, alive, due, since, open, watchdog, expired>>

Expire ==
  /\ ~ expired
  /\ \E t \in timers : now >= t /\ timers' = timers \ {t}
  /\ expired' = TRUE
  /\ UNCHANGED <<now, alive, due, phase, since, open, timer, lost>>

Later(a, b) == IF a >= b THEN a ELSE b

(* Time passes as far as the bounds on delays allow.  Once the plugin is   *)
(* gone, time matters until the timer that runs is due.                    *)
Tick ==
  /\ ~ expired
  /\ alive =>
       /\ now < MaxTime
       /\ due = NoTime => now < MaxLate
       /\ due # NoTime /\ phase = "idle" => now < Later(due, since) + MaxLate
       /\ phase # "idle" => now < since + MaxServe
  /\ ~ alive => timers # {} /\ \A t \in timers : now < t
  /\ now' = now + 1
  /\ UNCHANGED <<alive, due, phase, since, open, watchdog, lost, expired>>

KANext ==
  \/ ServerHasStarted \/ Heartbeat \/ HandleStatus \/ FinishStatus
  \/ HandleOther \/ FinishOther \/ OtherLost
  \/ Die \/ PingLost \/ Expire \/ Tick

KASpec == KAInit /\ [][KANext]_kaVars

(* Time passes, timers fire, and requests are answered or lost.            *)
KAFairness ==
  /\ WF_kaVars(Tick)
  /\ WF_kaVars(Expire)
  /\ WF_kaVars(HandleStatus \/ FinishStatus \/ PingLost)
  /\ WF_kaVars(FinishOther \/ OtherLost)

-----------------------------------------------------------------------------
Times == Nat \cup {NoTime}

(* The types, and that the timer of the field is the only one that runs,   *)
(* whatever order the requests stop and start it in.                       *)
KATypeOK ==
  /\ ~ expired => timers = {timer} \ {NoTime}
  /\ now \in Nat
  /\ alive \in BOOLEAN
  /\ due \in Times
  /\ phase \in {"idle", "sent", "handled"}
  /\ since \in Nat
  /\ open \in Nat
  /\ timer \in Times
  /\ timers \subseteq Nat
  /\ lost \in BOOLEAN
  /\ expired \in BOOLEAN

(* The bridge does not shut down under a plugin that runs, however its     *)
(* pings and other requests interleave, as long as no delay is longer than *)
(* the bounds allow.                                                       *)
KeptAlive == expired => ~ alive

(* Once the plugin is gone the bridge ends, unless a response was lost     *)
(* that had stopped the timer.                                             *)
OrphanEnds == ~ alive ~> expired \/ lost
=============================================================================
