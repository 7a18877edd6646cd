----------------------- MODULE BridgeLifecycleProofs -----------------------
(***************************************************************************)
(* HeartbeatKept for every number of processes.  The heartbeat is only     *)
(* scheduled by serverHasStarted, yet a call may return because an earlier *)
(* server, which the plugin gave up on, is up after all.  What makes the   *)
(* heartbeat run then is that a FAILED server is given another chance only *)
(* if it was seen alive once (latestOKIsAliveTimestamp != null), unless an *)
(* interrupt broke off the first wait.                                     *)
(***************************************************************************)
EXTENDS BridgeLifecycle, Keepalive, TLAPS

(* Whatever shows that a server was up implies that a heartbeat was set up. *)
SeenAlive ==
  /\ latestOK # "never" => heartbeat # "none" \/ interrupted
  /\ status = "STARTED" => heartbeat # "none"
  /\ ping # Null => heartbeat # "none"
  /\ result = "ok" => heartbeat # "none" \/ interrupted

(* A process built earlier and probed again was seen alive. *)
SecondChance ==
  /\ pc = "probing" => status # "FAILED"
  /\ (/\ pc \in {"idle", "probing", "deploying"}
      /\ nodeCommand # Null /\ status = "NOT_STARTED")
       => heartbeat # "none" \/ interrupted

(* Only clean() shuts the heartbeat down. *)
ShutdownIsClean ==
  heartbeat = "shutdown" => pc \in {"cleaning", "closing", "stopped"}

(* clean() has shut the heartbeat down before it probes. *)
CleanIsShutdown == pc \in {"cleaning", "closing"} => heartbeat # "none"

IInv == TypeOK /\ SeenAlive /\ SecondChance /\ ShutdownIsClean /\ CleanIsShutdown

(* Every step keeps every variable in its type. *)
LEMMA TypeStep == TypeOK /\ [Next]_vars => TypeOK'
<1> SUFFICES ASSUME TypeOK, [Next]_vars PROVE TypeOK'
  OBVIOUS
<1> USE MaxProcAssumption DEF TypeOK, Ages, Null, Proc, ResponseSent, ResponseLost
<1>1. CASE StartServerLazily
  BY <1>1 DEF StartServerLazily, serverHasStarted, shouldRestartFailedServer
<1>2. CASE ProbeUp
  BY <1>2 DEF ProbeUp, isAlive
<1>3. CASE ProbeDown
  BY <1>3 DEF ProbeDown, Fail
<1>4. CASE DeployFails
  BY <1>4 DEF DeployFails
<1>5. CASE NodeFails
  BY <1>5 DEF NodeFails, Fail
<1>6. ASSUME NEW p \in Proc, Spawn(p) PROVE TypeOK'
  BY <1>6 DEF Spawn
<1>7. ASSUME NEW p \in Proc, ProcessNotCreated(p) PROVE TypeOK'
  BY <1>7 DEF ProcessNotCreated, Fail
<1>8. CASE WaitSeesServer
  BY <1>8 DEF WaitSeesServer, serverHasStarted
<1>9. CASE WaitInterrupted
  BY <1>9 DEF WaitInterrupted, serverHasStarted
<1>10. CASE WaitTimesOut
  BY <1>10 DEF WaitTimesOut, Fail
<1>11. CASE Clean
  BY <1>11 DEF Clean, ShutdownNow
<1>12. CASE CleanFindsServer
  BY <1>12 DEF CleanFindsServer
<1>13. CASE CleanFindsNothing
  BY <1>13 DEF CleanFindsNothing
<1>14. CASE CloseAnswered
  BY <1>14 DEF CloseAnswered
<1>15. CASE CloseThrows
  BY <1>15 DEF CloseThrows
<1>16. CASE HeartbeatSent
  BY <1>16 DEF HeartbeatSent
<1>17. CASE HeartbeatReturns
  <2>1. latestOK' \in Ages
    BY <1>17 DEF HeartbeatReturns
  <2>2. disarmed' \subseteq Proc
    BY <1>17 DEF HeartbeatReturns
  <2> QED
    BY <1>17, <2>1, <2>2 DEF HeartbeatReturns
<1>18. CASE MinutePasses
  BY <1>18 DEF MinutePasses
<1>19. ASSUME NEW p \in Proc, ProcessListens(p) PROVE TypeOK'
  BY <1>19 DEF ProcessListens
<1>20. ASSUME NEW p \in Proc, ProcessDies(p) PROVE TypeOK'
  BY <1>20 DEF ProcessDies
<1>21. ASSUME NEW p \in Proc, OrphanTimeout(p) PROVE TypeOK'
  BY <1>21 DEF OrphanTimeout, ProcessDies
<1>22. CASE GetInterrupted
  BY <1>22 DEF GetInterrupted
<1>23. CASE UNCHANGED vars
  BY <1>23 DEF vars
<1> QED
  BY <1>1, <1>2, <1>3, <1>4, <1>5, <1>6, <1>7, <1>8, <1>9, <1>10, <1>11, <1>12,
     <1>13, <1>14, <1>15, <1>16, <1>17, <1>18, <1>19, <1>20, <1>21, <1>22,
     <1>23
  DEF Next, Caller, Processes

(* Every step preserves what HeartbeatKept rests on. *)
LEMMA HeartbeatStep == IInv /\ [Next]_vars => IInv'
<1> SUFFICES ASSUME IInv, [Next]_vars PROVE IInv'
  OBVIOUS
<1>0. TypeOK'
  BY TypeStep DEF IInv
<1> USE <1>0 DEF IInv, SeenAlive, SecondChance, ShutdownIsClean, CleanIsShutdown
<1>1. CASE StartServerLazily
  BY <1>1 DEF StartServerLazily, serverHasStarted, shouldRestartFailedServer
<1>2. CASE ProbeUp
  BY <1>2 DEF ProbeUp, isAlive, TypeOK
<1>3. CASE ProbeDown
  BY <1>3 DEF ProbeDown, Fail
<1>4. CASE DeployFails
  BY <1>4 DEF DeployFails
<1>5. CASE NodeFails
  BY <1>5 DEF NodeFails, Fail
<1>6. ASSUME NEW p \in Proc, Spawn(p) PROVE IInv'
  BY <1>6 DEF Spawn
<1>7. ASSUME NEW p \in Proc, ProcessNotCreated(p) PROVE IInv'
  BY <1>7 DEF ProcessNotCreated, Fail
<1>8. CASE WaitSeesServer
  BY <1>8 DEF WaitSeesServer, serverHasStarted
<1>9. CASE WaitInterrupted
  BY <1>9 DEF WaitInterrupted, serverHasStarted
<1>10. CASE WaitTimesOut
  BY <1>10 DEF WaitTimesOut, Fail
<1>11. CASE Clean
  BY <1>11 DEF Clean, ShutdownNow
<1>12. CASE CleanFindsServer
  BY <1>12 DEF CleanFindsServer
<1>13. CASE CleanFindsNothing
  BY <1>13 DEF CleanFindsNothing
<1>14. CASE CloseAnswered
  BY <1>14 DEF CloseAnswered
<1>15. CASE CloseThrows
  BY <1>15 DEF CloseThrows
<1>16. CASE HeartbeatSent
  BY <1>16 DEF HeartbeatSent
<1>17. CASE HeartbeatReturns
  BY <1>17 DEF HeartbeatReturns
<1>18. CASE MinutePasses
  BY <1>18 DEF MinutePasses
<1>19. ASSUME NEW p \in Proc, ProcessListens(p) PROVE IInv'
  BY <1>19 DEF ProcessListens
<1>20. ASSUME NEW p \in Proc, ProcessDies(p) PROVE IInv'
  BY <1>20 DEF ProcessDies
<1>21. ASSUME NEW p \in Proc, OrphanTimeout(p) PROVE IInv'
  BY <1>21 DEF OrphanTimeout, ProcessDies
<1>22. CASE GetInterrupted
  BY <1>22 DEF GetInterrupted
<1>23. CASE UNCHANGED vars
  BY <1>23 DEF vars
<1> QED
  BY <1>1, <1>2, <1>3, <1>4, <1>5, <1>6, <1>7, <1>8, <1>9, <1>10, <1>11, <1>12,
     <1>13, <1>14, <1>15, <1>16, <1>17, <1>18, <1>19, <1>20, <1>21, <1>22,
     <1>23
  DEF Next, Caller, Processes

(* The inductive invariant holds always. *)
THEOREM Invariance == Spec => []IInv
<1>1. Init => IInv
  BY MaxProcAssumption DEF Init, IInv, TypeOK, Ages, Null, Proc, SeenAlive,
     SecondChance, ShutdownIsClean, CleanIsShutdown
<1> QED
  BY <1>1, HeartbeatStep, PTL DEF Spec

(* Type correctness of the lifecycle. *)
THEOREM TypeCorrect == Spec => []TypeOK
<1>1. IInv => TypeOK
  BY DEF IInv
<1> QED
  BY <1>1, Invariance, PTL

(***************************************************************************)
(* startServerLazily never hands out a bridge whose heartbeat does not run *)
(* (BridgeServerImpl.java:311-347).                                        *)
(***************************************************************************)
THEOREM HeartbeatAlwaysKept == Spec => []HeartbeatKept
<1>1. IInv => HeartbeatKept
  BY DEF IInv, TypeOK, SeenAlive, ShutdownIsClean, HeartbeatKept
<1> QED
  BY <1>1, Invariance, PTL

-----------------------------------------------------------------------------
(***************************************************************************)
(* Heartbeats keep the bridge up for every interval, timeout and bounds on *)
(* delays that satisfy DelayAssumption.  The argument: however far time    *)
(* may advance before the next ping is answered, no timer that runs is due *)
(* by then.                                                                *)
(***************************************************************************)
(* Before the first heartbeat is scheduled, the first timer runs. *)
Starting ==
  due = NoTime =>
    /\ phase = "idle"
    /\ since = 0
    /\ now <= MaxLate
    /\ \A t \in timers : Timeout <= t

(* Between two pings: the next is due an interval after the last at the    *)
(* latest, and a timer leaves room for a late one.                         *)
Waiting ==
  due # NoTime /\ phase = "idle" =>
    /\ due <= since + Interval
    /\ now <= Later(due, since) + MaxLate
    /\ \A t \in timers : Later(due, since) + MaxLate + MaxServe < t

(* During a ping no timer expires before it must be answered. *)
Pinging ==
  phase # "idle" =>
    /\ due # NoTime
    /\ due <= since + Interval
    /\ now <= since + MaxServe
    /\ \A t \in timers : since + MaxServe < t

InTime == alive => since <= now /\ Starting /\ Waiting /\ Pinging

KAInv == KATypeOK /\ InTime /\ KeptAlive

LEMMA Bounds ==
  /\ Interval \in Nat /\ Timeout \in Nat /\ MaxLate \in Nat /\ MaxServe \in Nat
  /\ NoTime \notin Nat
  /\ Interval + 2 * MaxLate + MaxServe < Timeout
BY DelayAssumption

LEMMA KAInitOK == KAInit => KAInv
<1> SUFFICES ASSUME KAInit PROVE KAInv
  OBVIOUS
<1>1. KATypeOK
  BY Bounds DEF KAInit, KATypeOK, Times
<1>2. InTime
  BY Bounds DEF KAInit, InTime, Starting, Waiting, Pinging
<1> QED
  BY <1>1, <1>2 DEF KAInv, KeptAlive, KAInit

(* A timer started now outlasts the next ping, however late it is. *)
LEMMA StartedInTime ==
  ASSUME KATypeOK, due # NoTime, since <= now, due <= since + Interval
  PROVE  /\ Later(due, since) + MaxLate + MaxServe < now + Timeout
         /\ Later(due, now) + MaxLate + MaxServe < now + Timeout
         /\ since + MaxServe < now + Timeout
BY Bounds DEF KATypeOK, Times, Later

(* What stop() and start() do to a single timer. *)
LEMMA Stopping ==
  ASSUME KATypeOK, ~ expired, Stop
  PROVE  timers' = {} /\ timer' = NoTime
BY DEF KATypeOK, Stop

LEMMA Restarting ==
  ASSUME KATypeOK, ~ expired, StartTimeout
  PROVE  timers' = {now + Timeout} /\ timer' = now + Timeout /\ now + Timeout \in Nat
BY Bounds DEF KATypeOK, StartTimeout, Times

LEMMA KAStep == KAInv /\ [KANext]_kaVars => KAInv'
<1> SUFFICES ASSUME KAInv, [KANext]_kaVars PROVE KAInv'
  OBVIOUS
<1> USE DEF KAInv
<1>1. CASE ServerHasStarted
  <2>1. KATypeOK'
    BY <1>1, Bounds DEF KATypeOK, Times, ServerHasStarted, watchdog
  <2>2. InTime'
    <3>1. now \in Nat /\ now <= MaxLate /\ phase = "idle" /\ timers \subseteq Nat
          /\ \A t \in timers : Timeout <= t
      BY <1>1 DEF ServerHasStarted, InTime, Starting, KATypeOK
    <3>2. Later(now + Interval, now) = now + Interval
      BY <3>1, Bounds DEF Later
    <3>3. \A t \in timers : now + Interval + MaxLate + MaxServe < t
      BY <3>1, Bounds
    <3>4. now + Interval # NoTime /\ now <= now + Interval + MaxLate
      BY <3>1, Bounds
    <3> QED
      BY <1>1, <3>1, <3>2, <3>3, <3>4
      DEF ServerHasStarted, InTime, Starting, Waiting, Pinging, watchdog
  <2> QED
    BY <1>1, <2>1, <2>2 DEF ServerHasStarted, KeptAlive
<1>2. CASE Heartbeat
  <2>1. due \in Nat /\ due + Interval \in Nat /\ now \in Nat /\ timers \subseteq Nat
    BY <1>2, Bounds DEF KATypeOK, Times, Heartbeat
  <2>2. KATypeOK'
    BY <1>2, <2>1 DEF KATypeOK, Times, Heartbeat, NextDue, watchdog
  <2>3. InTime'
    <3>1. due <= since + Interval /\ now <= Later(due, since) + MaxLate
          /\ \A t \in timers : Later(due, since) + MaxLate + MaxServe < t
      BY <1>2 DEF Heartbeat, InTime, Waiting
    <3>2. Later(due, since) \in Nat
      BY <2>1 DEF Later, KATypeOK
    <3>3. \A t \in timers : now + MaxServe < t
      BY <2>1, <3>1, <3>2, Bounds
    <3>4. due + Interval <= now + Interval /\ now <= now + MaxServe /\ due + Interval # NoTime
      BY <1>2, <2>1, Bounds DEF Heartbeat
    <3> QED
      BY <1>2, <2>1, <3>3, <3>4
      DEF Heartbeat, NextDue, InTime, Starting, Waiting, Pinging, watchdog
  <2> QED
    BY <1>2, <2>2, <2>3 DEF Heartbeat, KeptAlive
<1>3. CASE HandleStatus
  <2>1. timers' = {} /\ timer' = NoTime
    BY <1>3, Stopping DEF HandleStatus
  <2>2. KATypeOK'
    BY <1>3, <2>1 DEF KATypeOK, Times, HandleStatus
  <2>3. InTime'
    BY <1>3, <2>1 DEF HandleStatus, InTime, Starting, Waiting, Pinging
  <2> QED
    BY <1>3, <2>2, <2>3 DEF HandleStatus, KeptAlive
<1>4. CASE FinishStatus
  <2>1. timers' = {now + Timeout} /\ timer' = now + Timeout /\ now + Timeout \in Nat
    BY <1>4, Restarting DEF FinishStatus
  <2>2. KATypeOK'
    BY <1>4, <2>1, Bounds DEF KATypeOK, Times, FinishStatus
  <2>3. ASSUME alive PROVE InTime'
    <3>1. due # NoTime /\ due <= since + Interval /\ since <= now
      BY <1>4, <2>3 DEF FinishStatus, InTime, Pinging
    <3>2. Later(due, now) + MaxLate + MaxServe < now + Timeout
      BY <3>1, StartedInTime
    <3>3. due <= now + Interval /\ now <= Later(due, now) + MaxLate /\ now <= now
      BY <3>1, Bounds DEF KATypeOK, Times, Later
    <3> QED
      BY <1>4, <2>1, <3>1, <3>2, <3>3 DEF FinishStatus, InTime, Starting, Waiting, Pinging
  <2> QED
    BY <1>4, <2>2, <2>3 DEF FinishStatus, KeptAlive, InTime
<1>5. CASE HandleOther
  <2>1. timers' = {} /\ timer' = NoTime
    BY <1>5, Stopping DEF HandleOther
  <2>2. KATypeOK'
    BY <1>5, <2>1 DEF KATypeOK, Times, HandleOther
  <2>3. InTime'
    BY <1>5, <2>1 DEF HandleOther, InTime, Starting, Waiting, Pinging
  <2> QED
    BY <1>5, <2>2, <2>3 DEF HandleOther, KeptAlive
<1>6. CASE FinishOther
  <2>1. timers' = {now + Timeout} /\ timer' = now + Timeout /\ now + Timeout \in Nat
    BY <1>6, Restarting DEF FinishOther
  <2>2. KATypeOK'
    <3>1. open' \in Nat /\ {timer'} \ {NoTime} = {now + Timeout}
      BY <1>6, <2>1, Bounds DEF KATypeOK, FinishOther
    <3> QED
      BY <1>6, <2>1, <3>1 DEF KATypeOK, Times, FinishOther
  <2>3. ASSUME alive PROVE InTime'
    <3>1. since <= now /\ Starting /\ Waiting /\ Pinging
      BY <2>3 DEF InTime
    <3>2. Timeout <= now + Timeout
      BY Bounds DEF KATypeOK
    <3>3. CASE due = NoTime
      BY <1>6, <2>1, <3>1, <3>2, <3>3 DEF FinishOther, InTime, Starting, Waiting, Pinging
    <3>4. CASE due # NoTime
      <4>1. due <= since + Interval
        BY <3>1, <3>4 DEF Waiting, Pinging
      <4>2. /\ Later(due, since) + MaxLate + MaxServe < now + Timeout
            /\ since + MaxServe < now + Timeout
        BY <3>1, <3>4, <4>1, StartedInTime
      <4> QED
        BY <1>6, <2>1, <3>1, <3>4, <4>2 DEF FinishOther, InTime, Starting, Waiting, Pinging
    <3> QED
      BY <3>3, <3>4
  <2> QED
    BY <1>6, <2>2, <2>3 DEF FinishOther, KeptAlive, InTime
<1>7. CASE OtherLost
  <2>1. KATypeOK'
    BY <1>7 DEF KATypeOK, Times, OtherLost, watchdog
  <2> QED
    BY <1>7, <2>1
    DEF OtherLost, KeptAlive, InTime, Starting, Waiting, Pinging, watchdog
<1>8. CASE Die
  BY <1>8 DEF Die, KATypeOK, InTime, KeptAlive, watchdog
<1>9. CASE PingLost
  BY <1>9 DEF PingLost, KATypeOK, InTime, KeptAlive, watchdog
<1>10. CASE Expire
  <2>1. KATypeOK'
    BY <1>10 DEF KATypeOK, Expire
  <2>2. ~ alive
    <3>1. SUFFICES ASSUME alive PROVE FALSE
      OBVIOUS
    <3>2. PICK t \in timers : now >= t
      BY <1>10 DEF Expire
    <3>3. t \in Nat /\ now \in Nat /\ since \in Nat
      BY <3>2 DEF KATypeOK
    <3>4. CASE due = NoTime
      BY <3>1, <3>2, <3>3, <3>4, Bounds DEF InTime, Starting
    <3>5. CASE due # NoTime /\ phase = "idle"
      <4>1. Later(due, since) \in Nat
        BY <3>3, <3>5 DEF KATypeOK, Times, Later
      <4>2. now <= Later(due, since) + MaxLate /\ Later(due, since) + MaxLate + MaxServe < t
        BY <3>1, <3>2, <3>5 DEF InTime, Waiting
      <4> QED
        BY <3>2, <3>3, <4>1, <4>2, Bounds
    <3>6. CASE phase # "idle"
      BY <3>1, <3>2, <3>3, <3>6, Bounds DEF InTime, Pinging
    <3> QED
      BY <3>4, <3>5, <3>6
  <2> QED
    BY <1>10, <2>1, <2>2 DEF Expire, InTime, KeptAlive
<1>11. CASE Tick
  <2>1. now' = now + 1 /\ now \in Nat /\ since \in Nat /\ now' \in Nat
    BY <1>11 DEF Tick, KATypeOK
  <2>2. KATypeOK'
    BY <1>11, <2>1 DEF Tick, KATypeOK, watchdog
  <2>3. ASSUME alive PROVE InTime'
    <3>1. since <= now /\ Starting /\ Waiting /\ Pinging
      BY <2>3 DEF InTime
    <3>2. since' <= now'
      BY <1>11, <2>1, <3>1 DEF Tick
    <3>3. Starting'
      BY <1>11, <2>1, <2>3, <3>1, Bounds DEF Tick, Starting, watchdog
    <3>4. Waiting'
      <4>1. ASSUME due # NoTime, phase = "idle"
            PROVE  now + 1 <= Later(due, since) + MaxLate
        <5>1. Later(due, since) \in Nat
          BY <2>1, <4>1 DEF KATypeOK, Times, Later
        <5> QED
          BY <1>11, <2>1, <2>3, <4>1, <5>1, Bounds DEF Tick
      <4> QED
        BY <1>11, <2>1, <3>1, <4>1 DEF Tick, Waiting, watchdog
    <3>5. Pinging'
      BY <1>11, <2>1, <2>3, <3>1, Bounds DEF Tick, Pinging, watchdog
    <3> QED
      BY <3>2, <3>3, <3>4, <3>5 DEF InTime
  <2> QED
    BY <1>11, <2>2, <2>3 DEF Tick, KeptAlive, InTime
<1>12. CASE UNCHANGED kaVars
  BY <1>12
  DEF kaVars, watchdog, KATypeOK, InTime, Starting, Waiting, Pinging, KeptAlive
<1> QED
  BY <1>1, <1>2, <1>3, <1>4, <1>5, <1>6, <1>7, <1>8, <1>9, <1>10, <1>11, <1>12 DEF KANext

LEMMA KAInvariance == KASpec => []KAInv
BY KAInitOK, KAStep, PTL DEF KASpec

(* The field of Timeout has the only timer that runs, whatever order       *)
(* requests stop and start it in.                                          *)
THEOREM KeepaliveTypeCorrect == KASpec => []KATypeOK
<1>1. KAInv => KATypeOK
  BY DEF KAInv
<1> QED
  BY <1>1, KAInvariance, PTL

(* The watchdog of the bridge never expires while the plugin runs, for any *)
(* heartbeat interval and any timeout that is longer than the interval,    *)
(* two delays of the heartbeat thread and one answer together.             *)
THEOREM HeartbeatsKeepAlive == KASpec => []KeptAlive
<1>1. KAInv => KeptAlive
  BY DEF KAInv
<1> QED
  BY <1>1, KAInvariance, PTL
=============================================================================
