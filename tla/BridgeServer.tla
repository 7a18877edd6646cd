---------------------------- MODULE BridgeServer ----------------------------
(***************************************************************************)
(* The Node.js side of the bridge (packages/bridge/src): an Express server *)
(* on the main thread that delegates analysis requests to ONE worker       *)
(* thread over a MessagePort, and an orphan watchdog that shuts the        *)
(* process down when requests stop.                                        *)
(*                                                                         *)
(* The client is the Java plugin (BridgeServerImpl).  Two of its threads   *)
(* talk to the bridge, each blocking on its call: the sensor thread        *)
(* (analysis, /status, /close) and the heartbeat thread (/status only).    *)
(*                                                                         *)
(* Request r is the r-th HTTP request.  Data is abstracted to identity: the*)
(* result of handling r (success and failure alike: both end in a          *)
(* response, delegate.ts:66-78) is r itself.                               *)
(***************************************************************************)
EXTENDS Integers, Sequences, FiniteSets, Functions

CONSTANTS
  N,       \* how many requests the client sends
  Kinds    \* which kinds of requests it sends

(***************************************************************************)
(* What a request asks for: "work" is any route of router.ts:26-39, which  *)
(* runs on the worker; "status" and "close" run on the main thread;        *)
(* "oversized" is a body that express.json rejects (MAX_REQUEST_SIZE).     *)
(***************************************************************************)
AllKinds == {"work", "status", "close", "oversized"}

ASSUME NAssumption == N \in Nat \ {0}
ASSUME KindsAssumption == Kinds \subseteq AllKinds

Req   == 1..N
None  == 0            \* no reply received
Close == 0            \* the { type: 'close' } message of server.ts:148

VARIABLES
  alive,      \* the Java process runs
  kind,       \* kind[r], "none" until r is sent
  call,       \* the caller's view of r: idle, waiting, done, failed
  got,        \* got[r]: whose result the caller of r received
  resp,       \* the server's view of r's response, see RespStates
  listening,  \* server.listening
  closed,     \* server.close() was called
  armed,      \* the Timeout of timeout.ts is running
  cancelled,  \* timeout/middleware.ts: cancelled
  pendingCloseRequests,
  listeners,  \* requests whose worker.once('message') has not fired
  inbox,      \* messages on their way to the worker
  working,    \* requests whose handleRequest is in progress or awaiting
  outbox,     \* results on their way to the main thread
  worker,     \* open, closed (port closed), exited, reaped ('exit' handled)
  owed,       \* history: delegated requests whose result never came back
  overlapped  \* history: requests that were owed at the same time as another

clientVars == <<alive, kind, call, got>>
serverVars == <<resp, listening, closed, pendingCloseRequests>>
timerVars  == <<armed, cancelled>>
portVars   == <<listeners, inbox, working, outbox, worker>>
ghostVars  == <<owed, overlapped>>
vars == <<clientVars, serverVars, timerVars, portVars, ghostVars>>

(***************************************************************************)
(* none      no such request yet                                           *)
(* sent      on the wire or in the parser, no middleware has run           *)
(* pending   a handler has it, response.end() was not called               *)
(* finishing response ended, its 'finish' event is still to come           *)
(* finished  'finish' was emitted                                          *)
(* gone      the connection closed first: Node emits no 'finish'           *)
(***************************************************************************)
RespStates == {"none", "sent", "pending", "finishing", "finished", "gone"}

TypeOK ==
  /\ alive \in BOOLEAN
  /\ kind \in [Req -> Kinds \cup {"none"}]
  /\ call \in [Req -> {"idle", "waiting", "done", "failed"}]
  /\ got \in [Req -> Req \cup {None}]
  /\ resp \in [Req -> RespStates]
  /\ listening \in BOOLEAN /\ closed \in BOOLEAN
  /\ armed \in BOOLEAN /\ cancelled \in BOOLEAN
  /\ pendingCloseRequests \subseteq Req
  /\ listeners \subseteq Req
  /\ inbox \in Seq(Req \cup {Close})
  /\ working \subseteq Req
  /\ outbox \in Seq(Req)
  /\ worker \in {"open", "closed", "exited", "reaped"}
  /\ owed \subseteq Req /\ overlapped \subseteq Req

(***************************************************************************)
(* start(): the worker exists before the server does, the watchdog starts  *)
(* with its middleware.  server.listen may fail (port taken), which is     *)
(* only logged.                                                            *)
(***************************************************************************)
Init ==
  /\ alive = TRUE
  /\ kind = [r \in Req |-> "none"]
  /\ call = [r \in Req |-> "idle"]
  /\ got = [r \in Req |-> None]
  /\ resp = [r \in Req |-> "none"]
  /\ listening \in BOOLEAN /\ closed = FALSE
  /\ armed = TRUE /\ cancelled = FALSE
  /\ pendingCloseRequests = {}
  /\ listeners = {} /\ inbox = <<>> /\ working = {} /\ outbox = <<>>
  /\ worker = "open"
  /\ owed = {} /\ overlapped = {}

-----------------------------------------------------------------------------
(* The client *)

Waiting == {r \in Req : call[r] = "waiting"}

(***************************************************************************)
(* One of the two threads sends request r, in the order of r.  Connecting  *)
(* to a server that does not listen fails at once.                         *)
(***************************************************************************)
Call(r, k) ==
  /\ alive
  /\ kind[r] = "none" /\ \A q \in 1..(r - 1) : kind[q] # "none"
  /\ Cardinality(Waiting) < 2
  /\ \A q \in Waiting : "status" \in {k, kind[q]}
  /\ kind' = [kind EXCEPT ![r] = k]
  /\ call' = [call EXCEPT ![r] = IF listening THEN "waiting" ELSE "failed"]
  /\ resp' = [resp EXCEPT ![r] = IF listening THEN "sent" ELSE "gone"]
  /\ UNCHANGED <<alive, got, listening, closed, pendingCloseRequests,
                 timerVars, portVars, ghostVars>>

(***************************************************************************)
(* The caller stops waiting: its request timeout expired (Http.post) or    *)
(* its thread was interrupted (heartbeatService.shutdownNow).              *)
(***************************************************************************)
Abandon(r) ==
  /\ alive /\ call[r] = "waiting"
  /\ call' = [call EXCEPT ![r] = "failed"]
  /\ UNCHANGED <<alive, kind, got, serverVars, timerVars, portVars, ghostVars>>

(* The Java process dies; the operating system closes its connections. *)
ClientDies ==
  /\ alive
  /\ alive' = FALSE
  /\ call' = [r \in Req |-> IF call[r] = "waiting" THEN "failed" ELSE call[r]]
  /\ UNCHANGED <<kind, got, serverVars, timerVars, portVars, ghostVars>>

-----------------------------------------------------------------------------
(* The main thread *)

(* postMessage to a worker whose port is closed or that exited is a no-op. *)
Posted(m) == IF worker = "open" THEN Append(inbox, m) ELSE inbox

(***************************************************************************)
(* The responses of the requests in S end with the result of request x     *)
(* (their own, when the main thread answers): what the callers see of it.  *)
(***************************************************************************)
Answer(S, x) ==
  LET heard == {r \in S : call[r] = "waiting"} IN
  /\ call' = [r \in Req |-> IF r \in heard THEN "done" ELSE call[r]]
  /\ got' = [r \in Req |-> IF r \in heard THEN x ELSE got[r]]
  /\ UNCHANGED <<alive, kind>>

(* orphanTimeout.middleware: stop the watchdog until 'finish'. *)
StopTimeout == armed' = (armed /\ cancelled) /\ UNCHANGED cancelled

(* express.json fails before orphanTimeout runs: errorMiddleware answers. *)
HandleOversized(r) ==
  /\ listening /\ resp[r] = "sent" /\ kind[r] = "oversized"
  /\ resp' = [resp EXCEPT ![r] = "finished"]
  /\ Answer({r}, r)
  /\ UNCHANGED <<listening, closed, pendingCloseRequests, timerVars, portVars,
                 ghostVars>>

HandleStatus(r) ==
  /\ listening /\ resp[r] = "sent" /\ kind[r] = "status"
  /\ StopTimeout
  /\ resp' = [resp EXCEPT ![r] = "finishing"]
  /\ Answer({r}, r)
  /\ UNCHANGED <<listening, closed, pendingCloseRequests, portVars, ghostVars>>

(* createWorkerHandler: listen for the next message, then post the request. *)
HandleWork(r) ==
  /\ listening /\ resp[r] = "sent" /\ kind[r] = "work"
  /\ StopTimeout
  /\ resp' = [resp EXCEPT ![r] = "pending"]
  /\ listeners' = listeners \cup {r}
  /\ inbox' = Posted(r)
  /\ owed' = owed \cup {r}
  /\ overlapped' = IF owed = {} THEN overlapped ELSE overlapped \cup owed'
  /\ UNCHANGED <<clientVars, listening, closed, pendingCloseRequests,
                 working, outbox, worker>>

HandleClose(r) ==
  /\ listening /\ resp[r] = "sent" /\ kind[r] = "close"
  /\ StopTimeout
  /\ resp' = [resp EXCEPT ![r] = "pending"]
  /\ pendingCloseRequests' = pendingCloseRequests \cup {r}
  /\ inbox' = Posted(Close)
  /\ UNCHANGED <<clientVars, listening, closed, listeners, working, outbox,
                 worker, ghostVars>>

(* Mutant: worker.on instead of worker.once. *)
KeepListeners == listeners

(* worker.once: every registered listener is removed as it fires. *)
ListenersLeft == {}

(***************************************************************************)
(* A result arrives: EVERY once-listener fires with it (handleResult).     *)
(* Writing to a response whose connection is gone has no effect.           *)
(***************************************************************************)
WorkerMessage ==
  /\ outbox # <<>>
  /\ LET x     == Head(outbox)
         fired == {r \in listeners : resp[r] = "pending"}
     IN /\ Answer(fired, x)
        /\ resp' = [r \in Req |-> IF r \in fired THEN "finishing" ELSE resp[r]]
        /\ owed' = owed \ {x}
  /\ outbox' = Tail(outbox)
  /\ listeners' = ListenersLeft
  /\ UNCHANGED <<listening, closed, pendingCloseRequests, timerVars, inbox,
                 working, worker, overlapped>>

(* Mutant: the 'finish' hook does not restart the watchdog. *)
FinishNoRestart(r) ==
  /\ resp[r] = "finishing"
  /\ resp' = [resp EXCEPT ![r] = "finished"]
  /\ UNCHANGED <<clientVars, listening, closed, pendingCloseRequests,
                 timerVars, portVars, ghostVars>>

(* The 'finish' event of r's response restarts the watchdog. *)
Finish(r) ==
  /\ resp[r] = "finishing"
  /\ resp' = [resp EXCEPT ![r] = "finished"]
  /\ armed' = TRUE
  /\ UNCHANGED <<clientVars, listening, closed, pendingCloseRequests,
                 cancelled, portVars, ghostVars>>

(* The main thread learns that the client closed r's connection. *)
ConnectionLost(r) ==
  /\ call[r] = "failed" /\ resp[r] \in {"sent", "pending", "finishing"}
  /\ resp' = [resp EXCEPT ![r] = "gone"]
  /\ UNCHANGED <<clientVars, listening, closed, pendingCloseRequests,
                 timerVars, portVars, ghostVars>>

(* The watchdog expires and calls close(). *)
TimeoutExpires ==
  /\ armed
  /\ armed' = FALSE
  /\ inbox' = Posted(Close)
  /\ UNCHANGED <<clientVars, serverVars, cancelled, listeners, working, outbox,
                 worker, ghostVars>>

(* Mutant: server.close() without server.closeAllConnections(). *)
LeaveConnections == {}

(* closeAllConnections(): the requests whose response will now never end. *)
closeAllConnections ==
  {r \in Req : resp[r] \in {"sent", "pending"}} \ pendingCloseRequests

(***************************************************************************)
(* closeServer(), called when the worker has exited.  Node drains the port *)
(* before it emits 'exit'.  The pending /close responses are ended, then   *)
(* every connection is destroyed: responses that were ended may or may not *)
(* still emit 'finish', the others never do.                               *)
(***************************************************************************)
closeServer ==
  /\ listening
  /\ listening' = FALSE /\ closed' = TRUE
  /\ pendingCloseRequests' = {}
  /\ \E flushed \in SUBSET {r \in Req : \/ resp[r] = "finishing"
                                        \/ r \in pendingCloseRequests /\ resp[r] = "pending"} :
       resp' = [r \in Req |->
                 CASE r \in flushed -> "finishing"
                   [] \/ resp[r] = "finishing"
                      \/ r \in pendingCloseRequests
                      \/ r \in closeAllConnections -> "gone"
                   [] OTHER -> resp[r]]
  /\ LET ended == {r \in pendingCloseRequests : resp[r] = "pending"} IN
     /\ call' = [r \in Req |->
                  IF call[r] # "waiting" THEN call[r]
                  ELSE IF r \in ended THEN "done"
                  ELSE IF r \in closeAllConnections THEN "failed" ELSE "waiting"]
     /\ got' = [r \in Req |-> IF r \in ended /\ call[r] = "waiting" THEN r ELSE got[r]]
  /\ UNCHANGED <<alive, kind>>

(* Mutant: the 'exit' handler only logs. *)
ExitIsLogged ==
  /\ worker = "exited" /\ outbox = <<>>
  /\ worker' = "reaped"
  /\ UNCHANGED <<clientVars, serverVars, timerVars, listeners, inbox, working,
                 outbox, ghostVars>>

(* The 'exit' handler of the worker. *)
WorkerExitEvent ==
  /\ worker = "exited" /\ outbox = <<>>
  /\ worker' = "reaped"
  /\ IF listening THEN closeServer ELSE UNCHANGED <<clientVars, serverVars>>
  /\ UNCHANGED <<timerVars, listeners, inbox, working, outbox, ghostVars>>

(* The server's 'close' event: every connection has ended. *)
ServerClosed ==
  /\ closed /\ ~cancelled
  /\ \A r \in Req : resp[r] \notin {"sent", "pending", "finishing"}
  /\ cancelled' = TRUE /\ armed' = FALSE
  /\ UNCHANGED <<clientVars, serverVars, portVars, ghostVars>>

-----------------------------------------------------------------------------
(* The worker thread *)

(***************************************************************************)
(* worker.ts: take the next message.  handleRequest is async, so while one *)
(* request awaits (readFileLazily, writeTSConfigFile, analyzeCSS, ...) the *)
(* next message may start.                                                 *)
(***************************************************************************)
WorkerTakesRequest ==
  /\ worker = "open" /\ inbox # <<>> /\ Head(inbox) # Close
  /\ working' = working \cup {Head(inbox)}
  /\ inbox' = Tail(inbox)
  /\ UNCHANGED <<clientVars, serverVars, timerVars, listeners, outbox, worker,
                 ghostVars>>

(* parentThread.close(): what is behind 'close' in the port is never read. *)
WorkerTakesClose ==
  /\ worker = "open" /\ inbox # <<>> /\ Head(inbox) = Close
  /\ worker' = "closed"
  /\ inbox' = <<>>
  /\ UNCHANGED <<clientVars, serverVars, timerVars, listeners, working, outbox,
                 ghostVars>>

(* Mutant: the result is posted twice. *)
PostTwice(r) == Append(Append(outbox, r), r)

(* postMessage(await handleRequest(message)): one result per request. *)
PostResult(r) == Append(outbox, r)

(* A result posted after parentThread.close() goes nowhere. *)
WorkerReplies(r) ==
  /\ worker \in {"open", "closed"} /\ r \in working
  /\ working' = working \ {r}
  /\ outbox' = IF worker = "open" THEN PostResult(r) ELSE outbox
  /\ UNCHANGED <<clientVars, serverVars, timerVars, listeners, inbox, worker,
                 ghostVars>>

(* With its port closed and nothing in progress the thread ends. *)
WorkerExits ==
  /\ worker = "closed" /\ working = {}
  /\ worker' = "exited"
  /\ UNCHANGED <<clientVars, serverVars, timerVars, listeners, inbox, working,
                 outbox, ghostVars>>

(* Out of memory, an uncaught error: whatever it held is lost. *)
WorkerCrashes ==
  /\ worker \in {"open", "closed"}
  /\ worker' = "exited"
  /\ inbox' = <<>> /\ working' = {}
  /\ UNCHANGED <<clientVars, serverVars, timerVars, listeners, outbox,
                 ghostVars>>

-----------------------------------------------------------------------------
Client == \/ \E r \in Req, k \in Kinds : Call(r, k)
          \/ \E r \in Req : Abandon(r)
          \/ ClientDies

Handle(r) == \/ HandleOversized(r)
             \/ HandleStatus(r)
             \/ HandleWork(r)
             \/ HandleClose(r)

MainThread == \/ \E r \in Req : Handle(r) \/ Finish(r) \/ ConnectionLost(r)
              \/ WorkerMessage
              \/ TimeoutExpires
              \/ WorkerExitEvent
              \/ ServerClosed

WorkerThread == \/ WorkerTakesRequest
                \/ WorkerTakesClose
                \/ \E r \in Req : WorkerReplies(r)
                \/ WorkerExits

Next == Client \/ MainThread \/ WorkerThread \/ WorkerCrashes

(***************************************************************************)
(* Both event loops keep turning.  That is enough for every queued event   *)
(* to be handled and every request the worker took to be answered, since   *)
(* N requests cause finitely many events.  Nothing is assumed of the       *)
(* client, and no crash ever has to happen.                                *)
(***************************************************************************)
Fairness == WF_vars(MainThread) /\ WF_vars(WorkerThread)

Spec == Init /\ [][Next]_vars

FairSpec == Spec /\ Fairness

-----------------------------------------------------------------------------
(* Properties *)

(***************************************************************************)
(* A delegated request that was never in flight together with another one  *)
(* is answered with its own result.  delegate.ts matches results to        *)
(* requests only by "the next message", so this rests on the client never  *)
(* overlapping two delegated requests.                                     *)
(***************************************************************************)
OwnResult ==
  \A r \in Req : kind[r] = "work" /\ call[r] = "done" /\ r \notin overlapped
                => got[r] = r

(* Requests the worker has been handed and whose result is on its way. *)
InFlight == (Range(inbox) \cup working \cup Range(outbox)) \ {Close}

(***************************************************************************)
(* While the worker runs, every registered listener belongs to a request   *)
(* whose result is still on its way: no delegated request is left without  *)
(* an answer, and whatever was abandoned before, listeners and results are *)
(* back in step as soon as the worker is idle.                             *)
(***************************************************************************)
ListenersAreServed == worker = "open" => listeners \subseteq InFlight

(* close() was called: its message is queued, or the worker is past it. *)
ShutdownAsked == worker # "open" \/ Close \in Range(inbox)

(***************************************************************************)
(* A listening bridge that no response occupies runs its orphan watchdog,  *)
(* unless it is shutting down: stop() and start() of the middleware pair   *)
(* up, except for responses whose connection was lost.                     *)
(***************************************************************************)
WatchdogArmed ==
  listening => \/ armed
               \/ ShutdownAsked
               \/ \E r \in Req : resp[r] \in {"pending", "finishing", "gone"}

(* The process can exit: nothing is left that keeps an event loop alive. *)
Ended == ~listening /\ worker = "reaped" /\ ~armed

(***************************************************************************)
(* Every call returns, with an answer or a failure, without the help of a  *)
(* request timeout: even when the worker crashes or shuts down under it    *)
(* (closeServer destroys the connections of stalled requests).             *)
(***************************************************************************)
EveryCallReturns ==
  \A r \in Req : call[r] = "waiting" ~> call[r] # "waiting"

(***************************************************************************)
(* Once close() was called (by /close or by the watchdog), or the worker   *)
(* crashed, the process ends and stays ended.                              *)
(***************************************************************************)
ShutdownCompletes == ShutdownAsked ~> []Ended

(***************************************************************************)
(* To its callers the bridge is what BridgeCalls promises: no result is    *)
(* handed to two callers, whatever overlaps, crashes or is abandoned.      *)
(***************************************************************************)
Promise == INSTANCE BridgeCalls WITH Calls <- Req, NoResult <- None

KeepsPromise == Promise!Spec

(***************************************************************************)
(* server.ts:45-46 says of the watchdog: "If the Java plugin crashes, this *)
(* timeout will run out and shut down the bridge to prevent it from        *)
(* becoming an orphan process."                                            *)
(***************************************************************************)
OrphanShutsDown == ~alive ~> Ended

(***************************************************************************)
(* Each caller of a delegated request that gets an answer gets the answer  *)
(* to its own request.                                                     *)
(***************************************************************************)
EveryAnswerIsOwn ==
  \A r \in Req : kind[r] = "work" /\ call[r] = "done" => got[r] = r
=============================================================================
