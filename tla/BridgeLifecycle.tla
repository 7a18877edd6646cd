-------------------------- MODULE BridgeLifecycle --------------------------
(***************************************************************************)
(* The Java side of the bridge: how BridgeServerImpl starts, probes,       *)
(* restarts and stops the Node.js process it delegates to.  One thread     *)
(* (sensors, then the container) calls startServerLazily and clean; the    *)
(* heartbeat executor calls isAlive every 5 s concurrently.                *)
(*                                                                         *)
(* Process p is the p-th Node.js process; a port is named by the process   *)
(* that was told to listen on it, 0 is a port nobody listens on.  Time is  *)
(* abstracted to the one minute that TIME_AFTER_FAILURE_TO_RESTART_MS      *)
(* distinguishes.                                                          *)
(***************************************************************************)
EXTENDS Integers

CONSTANT MaxProc      \* how many Node.js processes may be started

ASSUME MaxProcAssumption == MaxProc \in Nat \ {0}

Proc  == 1..MaxProc
Null  == 0            \* no NodeCommand, no process behind the port
Ages  == {"never", "recent", "old"}    \* old: more than a minute ago

VARIABLES
  provided,    \* SONARJS_EXISTING_NODE_PROCESS_PORT names the port of process 1
  status,      \* Status
  nodeCommand, \* the process last built, Null before
  port,
  heartbeat,   \* none, scheduled (heartbeatFuture set), shutdown
  latestOK,    \* age of latestOKIsAliveTimestamp
  pc,          \* where the thread is inside startServerLazily or clean
  result,      \* how the last startServerLazily ended
  ping,        \* the process the heartbeat in flight was sent to, Null if none
  proc,        \* state of each Node.js process
  disarmed,    \* processes whose watchdog a lost response left stopped
  interrupted  \* history: an interrupt broke off the wait for a new server

vars == <<provided, status, nodeCommand, port, heartbeat, latestOK, pc, result,
          ping, proc, disarmed, interrupted>>

TypeOK ==
  /\ provided \in BOOLEAN
  /\ status \in {"NOT_STARTED", "FAILED", "STARTED"}
  /\ nodeCommand \in Proc \cup {Null}
  /\ port \in Proc \cup {Null}
  /\ heartbeat \in {"none", "scheduled", "shutdown"}
  /\ latestOK \in Ages
  /\ pc \in {"idle", "probing", "deploying", "waiting", "cleaning", "closing",
             "stopped"}
  /\ result \in {"none", "ok", "alreadyFailed", "nodeError", "ioError",
                 "interrupted"}
  /\ ping \in Proc \cup {Null}
  /\ proc \in [Proc -> {"none", "starting", "up", "dead"}]
  /\ disarmed \subseteq Proc
  /\ interrupted \in BOOLEAN

Init ==
  /\ provided \in BOOLEAN
  /\ status = "NOT_STARTED" /\ nodeCommand = Null /\ port = Null
  /\ heartbeat = "none" /\ latestOK = "never"
  /\ pc = "idle" /\ result = "none" /\ ping = Null /\ interrupted = FALSE
  /\ proc = [p \in Proc |-> IF provided /\ p = 1 THEN "up" ELSE "none"]
  /\ disarmed = {}

-----------------------------------------------------------------------------
(***************************************************************************)
(* When isAlive() can return true: GET /status is answered by the process  *)
(* that listens on the port.  It can always return false: any IOException  *)
(* counts as not alive.                                                    *)
(***************************************************************************)
isAlive == /\ nodeCommand # Null \/ status = "STARTED"
           /\ port # Null /\ proc[port] = "up"

serverHasStarted ==
  /\ status' = "STARTED"
  /\ heartbeat' = IF heartbeat = "none" THEN "scheduled" ELSE heartbeat

Fail == status' = "FAILED"

(* Mutant: the server is restarted even if it was never seen alive. *)
RestartAlways == latestOK # "recent"

shouldRestartFailedServer == latestOK = "old"

(***************************************************************************)
(* The bridge stops its watchdog at a request and restarts it when the     *)
(* response was sent; if the connection breaks before, nothing does until  *)
(* the next response (BridgeServer, OrphanShutsDown).                      *)
(***************************************************************************)
ResponseSent(p) == disarmed' = disarmed \ {p}
ResponseLost(p) ==
  disarmed' \in {disarmed} \cup (IF p # Null /\ proc[p] = "up"
                                THEN {disarmed \cup {p}} ELSE {})

(* startServerLazily, up to its first isAlive(). *)
StartServerLazily ==
  /\ pc = "idle"
  /\ IF status = "FAILED" /\ ~shouldRestartFailedServer
     THEN /\ result' = "alreadyFailed"
          /\ UNCHANGED <<status, port, heartbeat, pc>>
     ELSE /\ pc' = "probing"
          /\ IF provided
             THEN port' = 1 /\ serverHasStarted
             ELSE /\ status' = IF status = "FAILED" THEN "NOT_STARTED"
                                                    ELSE status
                  /\ UNCHANGED <<port, heartbeat>>
          /\ UNCHANGED result
  /\ UNCHANGED <<provided, nodeCommand, latestOK, ping, proc,
                 disarmed, interrupted>>

(* The server is up, no need to start it. *)
ProbeUp ==
  /\ pc = "probing" /\ isAlive
  /\ latestOK' = "recent"
  /\ pc' = "idle" /\ result' = "ok"
  /\ ResponseSent(port)
  /\ UNCHANGED <<provided, status, nodeCommand, port, heartbeat, ping, proc,
                 interrupted>>

(* A STARTED server that does not answer has FAILED; otherwise deploy one. *)
ProbeDown ==
  /\ pc = "probing"
  /\ IF status = "STARTED"
     THEN pc' = "idle" /\ result' = "alreadyFailed" /\ Fail
     ELSE pc' = "deploying" /\ UNCHANGED <<status, result>>
  /\ ResponseLost(port)
  /\ UNCHANGED <<provided, nodeCommand, port, heartbeat, latestOK, ping, proc,
                 interrupted>>

(* deploy(), rulesBundles.deploy() or findOpenPort() throws an IOException. *)
DeployFails ==
  /\ pc = "deploying"
  /\ pc' = "idle" /\ result' = "ioError"
  /\ UNCHANGED <<provided, status, nodeCommand, port, heartbeat, latestOK,
                 ping, proc, disarmed, interrupted>>

(* The script or a suitable Node.js is missing: the port is chosen, no more. *)
NodeFails ==
  /\ pc = "deploying"
  /\ port' = Null
  /\ pc' = "idle" /\ result' = "nodeError" /\ Fail
  /\ UNCHANGED <<provided, nodeCommand, heartbeat, latestOK, ping, proc,
                 disarmed, interrupted>>

NextProc(p) == proc[p] = "none" /\ \A q \in 1..(p - 1) : proc[q] # "none"

(* nodeCommand.start() throws: the command is kept, its process never ran. *)
ProcessNotCreated(p) ==
  /\ pc = "deploying" /\ NextProc(p)
  /\ proc' = [proc EXCEPT ![p] = "dead"]
  /\ nodeCommand' = p /\ port' = p
  /\ pc' = "idle" /\ result' = "nodeError" /\ Fail
  /\ UNCHANGED <<provided, heartbeat, latestOK, ping, disarmed, interrupted>>

(* startServer creates the process and starts to wait for it. *)
Spawn(p) ==
  /\ pc = "deploying" /\ NextProc(p)
  /\ proc' = [proc EXCEPT ![p] = "starting"]
  /\ nodeCommand' = p /\ port' = p
  /\ pc' = "waiting"
  /\ UNCHANGED <<provided, status, heartbeat, latestOK, result, ping,
                 disarmed, interrupted>>

(* waitServerToStart sees the server. *)
WaitSeesServer ==
  /\ pc = "waiting" /\ isAlive
  /\ latestOK' = "recent"
  /\ serverHasStarted
  /\ pc' = "idle" /\ result' = "ok"
  /\ ResponseSent(port)
  /\ UNCHANGED <<provided, nodeCommand, port, ping, proc,
                 interrupted>>

(* An interrupt ends the wait as if the server had started. *)
WaitInterrupted ==
  /\ pc = "waiting"
  /\ serverHasStarted
  /\ pc' = "idle" /\ result' = "ok"
  /\ UNCHANGED <<provided, nodeCommand, port, latestOK, ping, proc,
                 disarmed, interrupted>>

(***************************************************************************)
(* An interrupt inside http.get throws an IllegalStateException, which     *)
(* neither isAlive() nor its callers catch.                                *)
(***************************************************************************)
GetInterrupted ==
  /\ pc \in {"probing", "waiting", "cleaning"}
  /\ IF pc = "cleaning" THEN pc' = "stopped" /\ UNCHANGED result
                        ELSE pc' = "idle" /\ result' = "interrupted"
  /\ interrupted' = (interrupted \/ pc = "waiting")
  /\ UNCHANGED <<provided, status, nodeCommand, port, heartbeat, latestOK,
                 ping, proc>>
  /\ ResponseLost(port)

WaitTimesOut ==
  /\ pc = "waiting"
  /\ pc' = "idle" /\ result' = "nodeError" /\ Fail
  /\ ResponseLost(port)
  /\ UNCHANGED <<provided, nodeCommand, port, heartbeat, latestOK, ping, proc,
                 interrupted>>

-----------------------------------------------------------------------------
(* Mutant: clean() forgets heartbeatService.shutdownNow(). *)
KeepHeartbeat == heartbeat

(* shutdownNow() also interrupts the heartbeat in flight. *)
ShutdownNow == "shutdown"

(* clean(), called once by stop(): up to its isAlive(). *)
Clean ==
  /\ pc = "idle"
  /\ heartbeat' = ShutdownNow
  /\ ping' = Null
  /\ IF nodeCommand # Null
     THEN pc' = "cleaning" /\ UNCHANGED <<port, status>>
     ELSE pc' = "stopped" /\ port' = Null /\ status' = "NOT_STARTED"
  /\ ResponseLost(ping)
  /\ UNCHANGED <<provided, nodeCommand, latestOK, result, proc,
                 interrupted>>

CleanFindsServer ==
  /\ pc = "cleaning" /\ isAlive
  /\ latestOK' = "recent"
  /\ pc' = "closing"
  /\ ResponseSent(port)
  /\ UNCHANGED <<provided, status, nodeCommand, port, heartbeat, result, ping,
                 proc, interrupted>>

CleanFindsNothing ==
  /\ pc = "cleaning"
  /\ pc' = "stopped" /\ port' = Null /\ status' = "NOT_STARTED"
  /\ ResponseLost(port)
  /\ UNCHANGED <<provided, nodeCommand, heartbeat, latestOK, result, ping,
                 proc, interrupted>>

(* /close is answered; waitFor ends with the process, killed if it must be. *)
CloseAnswered ==
  /\ pc = "closing"
  /\ proc' = [proc EXCEPT ![nodeCommand] = "dead"]
  /\ nodeCommand' = Null /\ port' = Null /\ status' = "NOT_STARTED"
  /\ pc' = "stopped"
  /\ UNCHANGED <<provided, heartbeat, latestOK, result, ping,
                 disarmed, interrupted>>

(* /close times out or its connection breaks: request() throws. *)
CloseThrows ==
  /\ pc = "closing"
  /\ pc' = "stopped"
  /\ UNCHANGED <<provided, status, nodeCommand, port, heartbeat, latestOK,
                 result, ping, proc, disarmed, interrupted>>

-----------------------------------------------------------------------------
(* The heartbeat executor: isAlive() in two steps, its result is ignored. *)
HeartbeatSent ==
  /\ heartbeat = "scheduled" /\ ping = Null /\ port # Null
  /\ nodeCommand # Null \/ status = "STARTED"
  /\ ping' = port
  /\ UNCHANGED <<provided, status, nodeCommand, port, heartbeat, latestOK, pc,
                 result, proc, disarmed, interrupted>>

HeartbeatReturns ==
  /\ ping # Null
  /\ ping' = Null
  /\ \/ proc[ping] = "up" /\ latestOK' = "recent" /\ ResponseSent(ping)
     \/ UNCHANGED latestOK /\ ResponseLost(ping)
  /\ UNCHANGED <<provided, status, nodeCommand, port, heartbeat, pc, result,
                 proc, interrupted>>

(* Heartbeats reach a server that is up and answers them. *)
Pinged == heartbeat = "scheduled" /\ port # Null /\ proc[port] = "up"

(***************************************************************************)
(* A minute passes.  Twelve heartbeats fall into it: if the server answers *)
(* one of them the time stamp is fresh again.                              *)
(***************************************************************************)
MinutePasses ==
  /\ latestOK' \in IF latestOK = "never" THEN {"never"}
                   ELSE IF Pinged THEN {"recent", "old"} ELSE {"old"}
  /\ UNCHANGED <<provided, status, nodeCommand, port, heartbeat, pc, result,
                 ping, proc, disarmed, interrupted>>

-----------------------------------------------------------------------------
(* The Node.js processes *)

ProcessListens(p) ==
  /\ proc[p] = "starting"
  /\ proc' = [proc EXCEPT ![p] = "up"]
  /\ UNCHANGED <<provided, status, nodeCommand, port, heartbeat, latestOK, pc,
                 result, ping, disarmed, interrupted>>

ProcessDies(p) ==
  /\ proc[p] \in {"starting", "up"}
  /\ proc' = [proc EXCEPT ![p] = "dead"]
  /\ UNCHANGED <<provided, status, nodeCommand, port, heartbeat, latestOK, pc,
                 result, ping, disarmed, interrupted>>

(* A process that nobody pings ends by its own orphan timeout (BridgeServer). *)
OrphanTimeout(p) ==
  /\ proc[p] = "up" /\ p \notin disarmed
  /\ ~(port = p /\ heartbeat = "scheduled")
  /\ ProcessDies(p)

-----------------------------------------------------------------------------
Caller == \/ StartServerLazily \/ ProbeUp \/ ProbeDown
          \/ DeployFails \/ NodeFails
          \/ \E p \in Proc : Spawn(p) \/ ProcessNotCreated(p)
          \/ WaitSeesServer \/ WaitInterrupted \/ WaitTimesOut
          \/ GetInterrupted
          \/ Clean \/ CleanFindsServer \/ CleanFindsNothing
          \/ CloseAnswered \/ CloseThrows

Processes == \E p \in Proc : \/ ProcessListens(p)
                             \/ ProcessDies(p)
                             \/ OrphanTimeout(p)

Next == Caller \/ HeartbeatSent \/ HeartbeatReturns \/ MinutePasses \/ Processes

(***************************************************************************)
(* A process that starts gets to listen or dies, and one whose watchdog    *)
(* runs and that nobody pings times out.  No call has to be made or to     *)
(* return (http.get has no timeout), and no process has to crash.          *)
(***************************************************************************)
Fairness ==
  \A p \in Proc : WF_vars(ProcessListens(p)) /\ WF_vars(OrphanTimeout(p))

Spec == Init /\ [][Next]_vars

FairSpec == Spec /\ Fairness

-----------------------------------------------------------------------------
(* Properties *)

(***************************************************************************)
(* A bridge that startServerLazily hands out is kept alive: its heartbeat  *)
(* runs, also when a server that had FAILED turns out to be up and the     *)
(* call returns without starting one.  Without it the bridge shuts itself  *)
(* down after 15 s without a request.  The exception is a plugin whose     *)
(* very first wait was interrupted inside http.get: the process it left    *)
(* behind is found up by the next call, and nothing pings it.              *)
(***************************************************************************)
HeartbeatKept ==
  pc = "idle" /\ result = "ok" => heartbeat = "scheduled" \/ interrupted

(***************************************************************************)
(* After clean() no Node.js process of this plugin is left running for     *)
(* good, whether /close worked, threw, or was never sent because the       *)
(* server did not answer: its heartbeats have ended, so it times out.  The *)
(* exception is a process whose last response was lost.                    *)
(***************************************************************************)
CleanReaps ==
  pc = "stopped" ~>
    \A p \in Proc : proc[p] \in {"none", "dead"} \/ p \in disarmed
=============================================================================
