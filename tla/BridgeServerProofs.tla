------------------------- MODULE BridgeServerProofs -------------------------
(***************************************************************************)
(* The safety properties of BridgeServer, for every number of requests.    *)
(*                                                                         *)
(* OwnResult is not inductive: it rests on how the listeners, the three    *)
(* stages of a delegated request (inbox, working, outbox) and the requests *)
(* the worker owes a result are related.  The conjuncts below say that.    *)
(***************************************************************************)
EXTENDS BridgeServer, TLAPS

(* A request that was not sent has no response. *)
Unsent ==
  \A r \in Req :
    kind[r] = "none" => resp[r] = "none" /\ r \notin pendingCloseRequests

(* A request no handler has seen is not known to the worker's side. *)
Unhandled == \A r \in Req : resp[r] \in {"none", "sent"} => r \notin owed

(* Whatever is in flight is owed ... *)
FlightOwed ==
  /\ \A i \in 1..Len(inbox) : inbox[i] # Close => inbox[i] \in owed
  /\ working \subseteq owed
  /\ \A i \in 1..Len(outbox) : outbox[i] \in owed

(* ... and is in flight only once, so one result settles the debt. *)
FlightOnce ==
  /\ \A i, j \in 1..Len(inbox) : inbox[i] # Close /\ inbox[i] = inbox[j] => i = j
  /\ \A i, j \in 1..Len(outbox) : outbox[i] = outbox[j] => i = j
  /\ \A i \in 1..Len(inbox) : inbox[i] \notin working
  /\ \A i \in 1..Len(outbox) : outbox[i] \notin working
  /\ \A i \in 1..Len(inbox), j \in 1..Len(outbox) : inbox[i] # outbox[j]

(* Two requests owed together are both recorded as overlapped. *)
OverlapSeen == \A r, q \in owed : r # q => r \in overlapped

PortInv == /\ Unsent
           /\ Unhandled
           /\ FlightOwed
           /\ FlightOnce
           /\ OverlapSeen
           /\ listeners \subseteq owed

(* server.close() stops the server from listening, for good. *)
ClosedServer == closed => ~listening

(* The inductive invariant. *)
IInv == /\ TypeOK /\ PortInv /\ ClosedServer
        /\ OwnResult /\ ListenersAreServed /\ WatchdogArmed

-----------------------------------------------------------------------------
(* Sequences *)

(* What taking the head of a non-empty message queue leaves behind. *)
LEMMA TailFacts ==
  ASSUME NEW S, NEW s \in Seq(S), s # <<>>
  PROVE  /\ Head(s) = s[1] /\ Head(s) \in S
         /\ Tail(s) \in Seq(S)
         /\ Len(s) \in Nat /\ Len(s) >= 1 /\ Len(Tail(s)) = Len(s) - 1
         /\ \A i \in 1..Len(Tail(s)) : i + 1 \in 1..Len(s) /\ Tail(s)[i] = s[i + 1]
  OBVIOUS

(* What posting a message to a queue adds to it. *)
LEMMA AppendFacts ==
  ASSUME NEW S, NEW s \in Seq(S), NEW e \in S
  PROVE  /\ Append(s, e) \in Seq(S)
         /\ Len(s) \in Nat /\ Len(Append(s, e)) = Len(s) + 1
         /\ \A i \in 1..Len(s) : Append(s, e)[i] = s[i]
         /\ Append(s, e)[Len(s) + 1] = e
  OBVIOUS

(* Posting a message adds it to the messages of the queue. *)
LEMMA RangeAppend ==
  ASSUME NEW S, NEW s \in Seq(S), NEW e \in S
  PROVE  Range(Append(s, e)) = Range(s) \cup {e}
<1>1. /\ Append(s, e) \in Seq(S)
      /\ Len(s) \in Nat /\ Len(Append(s, e)) = Len(s) + 1
      /\ \A i \in 1..Len(s) : Append(s, e)[i] = s[i]
      /\ Append(s, e)[Len(s) + 1] = e
  BY AppendFacts
<1>2. 1..(Len(s) + 1) = 1..Len(s) \cup {Len(s) + 1}
  BY <1>1
<1> QED
  BY <1>1, <1>2 DEF Range

(* A queue holds its head and what follows it. *)
LEMMA RangeTail ==
  ASSUME NEW S, NEW s \in Seq(S), s # <<>>
  PROVE  Range(s) = {Head(s)} \cup Range(Tail(s))
<1>1. /\ Head(s) = s[1] /\ Tail(s) \in Seq(S)
      /\ Len(s) \in Nat /\ Len(s) >= 1 /\ Len(Tail(s)) = Len(s) - 1
      /\ \A i \in 1..Len(Tail(s)) : i + 1 \in 1..Len(s) /\ Tail(s)[i] = s[i + 1]
  BY TailFacts
<1>2. ASSUME NEW i \in 1..Len(s)
      PROVE  s[i] \in {Head(s)} \cup Range(Tail(s))
  <2>1. CASE i = 1
    BY <1>1, <2>1
  <2>2. CASE i # 1
    <3>1. i - 1 \in 1..Len(Tail(s)) /\ Tail(s)[i - 1] = s[i]
      BY <1>1, <2>2
    <3>2. DOMAIN Tail(s) = 1..Len(Tail(s))
      BY <1>1
    <3>3. Tail(s)[i - 1] \in Range(Tail(s))
      BY <3>1, <3>2 DEF Range
    <3> QED
      BY <3>1, <3>3
  <2> QED
    BY <2>1, <2>2
<1>3. ASSUME NEW i \in 1..Len(Tail(s))
      PROVE  Tail(s)[i] \in Range(s)
  BY <1>1 DEF Range
<1>4. Head(s) \in Range(s)
  BY <1>1 DEF Range
<1> QED
  BY <1>1, <1>2, <1>3, <1>4 DEF Range

-----------------------------------------------------------------------------
(* Every step keeps every variable in its type. *)
LEMMA TypeStep == TypeOK /\ [Next]_vars => TypeOK'
<1> SUFFICES ASSUME TypeOK, [Next]_vars PROVE TypeOK'
  OBVIOUS
<1> USE
DEF TypeOK, RespStates
<1>1. ASSUME NEW r \in Req, NEW k \in Kinds, Call(r, k)
      PROVE  TypeOK'
  BY <1>1 DEF Call, clientVars, serverVars, timerVars, portVars, ghostVars
<1>2. ASSUME NEW r \in Req, Abandon(r)
      PROVE  TypeOK'
  BY <1>2 DEF Abandon, vars, clientVars, serverVars, timerVars, portVars, ghostVars
<1>3. CASE ClientDies
  BY <1>3 DEF ClientDies, vars, clientVars, serverVars, timerVars, portVars, ghostVars
<1>4. ASSUME NEW r \in Req, HandleOversized(r)
      PROVE  TypeOK'
  BY <1>4 DEF HandleOversized, Answer, clientVars, serverVars, timerVars, portVars, ghostVars
<1>5. ASSUME NEW r \in Req, HandleStatus(r)
      PROVE  TypeOK'
  BY <1>5 DEF HandleStatus, StopTimeout, Answer, clientVars, serverVars, timerVars, portVars, ghostVars
<1>6. ASSUME NEW r \in Req, HandleWork(r)
      PROVE  TypeOK'
  BY <1>6 DEF HandleWork, StopTimeout, Posted, clientVars, serverVars, timerVars, portVars, ghostVars
<1>7. ASSUME NEW r \in Req, HandleClose(r)
      PROVE  TypeOK'
  BY <1>7 DEF HandleClose, StopTimeout, Posted, clientVars, serverVars, timerVars, portVars, ghostVars
<1>8. ASSUME NEW r \in Req, Finish(r)
      PROVE  TypeOK'
  BY <1>8 DEF Finish, vars, clientVars, serverVars, timerVars, portVars, ghostVars
<1>9. ASSUME NEW r \in Req, ConnectionLost(r)
      PROVE  TypeOK'
  BY <1>9 DEF ConnectionLost, vars, clientVars, serverVars, timerVars, portVars, ghostVars
<1>10. CASE WorkerMessage
  BY <1>10 DEF WorkerMessage, Answer, ListenersLeft, clientVars, serverVars, timerVars, portVars, ghostVars
<1>11. CASE TimeoutExpires
  <2>1. Posted(Close) \in Seq(Req \cup {Close})
    BY DEF Posted
  <2> QED
    BY <1>11, <2>1 DEF TimeoutExpires, clientVars, serverVars, portVars, ghostVars
<1>12. CASE WorkerExitEvent
  <2>1. CASE listening
    <3> closeServer
      BY <1>12, <2>1 DEF WorkerExitEvent
    <3>1. resp' \in [Req -> RespStates]
      BY DEF closeServer
    <3>2. call' \in [Req -> {"idle", "waiting", "done", "failed"}]
      BY DEF closeServer
    <3>3. got' \in [Req -> Req \cup {None}]
      BY DEF closeServer
    <3>4. /\ listening' \in BOOLEAN /\ closed' \in BOOLEAN
          /\ pendingCloseRequests' \subseteq Req
          /\ UNCHANGED <<alive, kind>>
      BY DEF closeServer
    <3> QED
      BY <1>12, <3>1, <3>2, <3>3, <3>4 DEF WorkerExitEvent, timerVars, ghostVars
  <2>2. CASE ~listening
    BY <1>12, <2>2 DEF WorkerExitEvent, clientVars, serverVars, timerVars, ghostVars
  <2> QED
    BY <2>1, <2>2
<1>13. CASE ServerClosed
  BY <1>13 DEF ServerClosed, vars, clientVars, serverVars, timerVars, portVars, ghostVars
<1>14. CASE WorkerTakesRequest
  BY <1>14 DEF WorkerTakesRequest, vars, clientVars, serverVars, timerVars, portVars, ghostVars
<1>15. CASE WorkerTakesClose
  BY <1>15 DEF WorkerTakesClose, vars, clientVars, serverVars, timerVars, portVars, ghostVars
<1>16. ASSUME NEW r \in Req, WorkerReplies(r)
      PROVE  TypeOK'
  BY <1>16 DEF WorkerReplies, PostResult, clientVars, serverVars, timerVars, portVars, ghostVars
<1>17. CASE WorkerExits
  BY <1>17 DEF WorkerExits, vars, clientVars, serverVars, timerVars, portVars, ghostVars
<1>18. CASE WorkerCrashes
  BY <1>18 DEF WorkerCrashes, vars, clientVars, serverVars, timerVars, portVars, ghostVars
<1>19. CASE UNCHANGED vars
  BY <1>19 DEF vars, clientVars, serverVars, timerVars, portVars, ghostVars
<1> QED
  BY <1>1, <1>2, <1>3, <1>4, <1>5, <1>6, <1>7, <1>8, <1>9, <1>10, <1>11, <1>12, <1>13, <1>14, <1>15, <1>16, <1>17, <1>18, <1>19
  DEF Next, Client, MainThread, WorkerThread, Handle
-----------------------------------------------------------------------------
(* The port invariant *)

(* The 'close' message is not a request. *)
LEMMA CloseIsNoRequest == Close \notin Req /\ None \notin Req
  BY NAssumption DEF Close, None, Req

(***************************************************************************)
(* A step that leaves the ports alone and gives no request back to the     *)
(* network preserves the port invariant.                                   *)
(***************************************************************************)
LEMMA PortsUntouched ==
  ASSUME PortInv, Unsent',
         UNCHANGED <<listeners, inbox, working, outbox, owed, overlapped>>,
         \A r \in Req : resp'[r] \in {"none", "sent"} => resp[r] \in {"none", "sent"}
  PROVE  PortInv'
  BY DEF PortInv, Unhandled, FlightOwed, FlightOnce, OverlapSeen

(* Posting the 'close' message preserves it too. *)
LEMMA ClosePosted ==
  ASSUME TypeOK, PortInv, Unsent', inbox' = Posted(Close),
         UNCHANGED <<listeners, working, outbox, owed, overlapped>>,
         \A r \in Req : resp'[r] \in {"none", "sent"} => resp[r] \in {"none", "sent"}
  PROVE  PortInv'
<1>1. CASE worker = "open"
  <2>1. inbox' = Append(inbox, Close)
    BY <1>1 DEF Posted
  <2>2. /\ Len(inbox) \in Nat /\ Len(inbox') = Len(inbox) + 1
        /\ \A i \in 1..Len(inbox) : inbox'[i] = inbox[i]
        /\ inbox'[Len(inbox) + 1] = Close
    BY <2>1, AppendFacts DEF TypeOK
  <2>3. \A i \in 1..Len(inbox') :
          \/ i \in 1..Len(inbox) /\ inbox'[i] = inbox[i]
          \/ i = Len(inbox) + 1 /\ inbox'[i] = Close
    BY <2>2
  <2>4. \A i \in 1..Len(outbox) : outbox[i] # Close
    BY CloseIsNoRequest DEF TypeOK
  <2>5. FlightOwed'
    BY <2>3 DEF PortInv, FlightOwed
  <2>6. FlightOnce'
    BY <2>3, <2>4, CloseIsNoRequest DEF PortInv, FlightOnce, TypeOK
  <2> QED
    BY <2>5, <2>6 DEF PortInv, Unhandled, OverlapSeen
<1>2. CASE worker # "open"
  <2>1. inbox' = inbox
    BY <1>2 DEF Posted
  <2> QED
    BY <2>1, PortsUntouched
<1> QED
  BY <1>1, <1>2

(* Every step preserves the port invariant. *)
LEMMA PortStep == TypeOK /\ PortInv /\ [Next]_vars => PortInv'
<1> SUFFICES ASSUME TypeOK, PortInv, [Next]_vars PROVE PortInv'
  OBVIOUS
<1> USE DEF TypeOK
<1>1. ASSUME NEW r \in Req, NEW k \in Kinds, Call(r, k)
      PROVE  PortInv'
  <2>1. k # "none"
    BY KindsAssumption DEF AllKinds
  <2>2. Unsent'
    BY <1>1, <2>1 DEF PortInv, Unsent, Call
  <2> QED
    BY <1>1, <2>2, PortsUntouched DEF Call, PortInv, Unsent, portVars, ghostVars
<1>2. ASSUME NEW r \in Req, Abandon(r)
      PROVE  PortInv'
  <2>1. Unsent'
    BY <1>2 DEF PortInv, Unsent, Abandon, clientVars, serverVars, timerVars, portVars, ghostVars
  <2> QED
    BY <1>2, <2>1, PortsUntouched DEF Abandon, PortInv, Unsent, clientVars, serverVars, timerVars, portVars, ghostVars
<1>3. CASE ClientDies
  <2>1. Unsent'
    BY <1>3 DEF PortInv, Unsent, ClientDies, clientVars, serverVars, timerVars, portVars, ghostVars
  <2> QED
    BY <1>3, <2>1, PortsUntouched DEF ClientDies, PortInv, Unsent, clientVars, serverVars, timerVars, portVars, ghostVars
<1>4. ASSUME NEW r \in Req, HandleOversized(r)
      PROVE  PortInv'
  <2>1. Unsent'
    BY <1>4 DEF PortInv, Unsent, HandleOversized, Answer, clientVars, serverVars, timerVars, portVars, ghostVars
  <2> QED
    BY <1>4, <2>1, PortsUntouched DEF HandleOversized, Answer, PortInv, Unsent, clientVars, serverVars, timerVars, portVars, ghostVars
<1>5. ASSUME NEW r \in Req, HandleStatus(r)
      PROVE  PortInv'
  <2>1. Unsent'
    BY <1>5 DEF PortInv, Unsent, HandleStatus, Answer, clientVars, serverVars, timerVars, portVars, ghostVars
  <2> QED
    BY <1>5, <2>1, PortsUntouched DEF HandleStatus, Answer, PortInv, Unsent, clientVars, serverVars, timerVars, portVars, ghostVars
<1>6. ASSUME NEW r \in Req, HandleWork(r)
      PROVE  PortInv'
  <2>1. /\ resp[r] = "sent" /\ r \notin owed
        /\ resp' = [resp EXCEPT ![r] = "pending"]
        /\ owed' = owed \cup {r} /\ listeners' = listeners \cup {r}
        /\ overlapped' = IF owed = {} THEN overlapped ELSE overlapped \cup owed'
        /\ UNCHANGED <<working, outbox, kind, pendingCloseRequests>>
    BY <1>6 DEF HandleWork, PortInv, Unhandled, clientVars, serverVars, timerVars, portVars, ghostVars
  <2>2. Unsent' /\ Unhandled' /\ OverlapSeen' /\ listeners' \subseteq owed'
    BY <2>1 DEF PortInv, Unsent, Unhandled, OverlapSeen
  <2>3. CASE worker = "open"
    <3>1. inbox' = Append(inbox, r)
      BY <1>6, <2>3 DEF HandleWork, Posted
    <3>2. /\ Len(inbox) \in Nat /\ Len(inbox') = Len(inbox) + 1
          /\ \A i \in 1..Len(inbox) : inbox'[i] = inbox[i]
          /\ inbox'[Len(inbox) + 1] = r
      BY <3>1, AppendFacts
    <3>3. \A i \in 1..Len(inbox') :
            \/ i \in 1..Len(inbox) /\ inbox'[i] = inbox[i]
            \/ i = Len(inbox) + 1 /\ inbox'[i] = r
      BY <3>2
    <3>4. FlightOwed'
      BY <2>1, <3>3 DEF PortInv, FlightOwed
    <3>5. /\ r # Close /\ r \notin working
          /\ \A i \in 1..Len(inbox) : inbox[i] # r
          /\ \A i \in 1..Len(outbox) : outbox[i] # r
      BY <2>1, CloseIsNoRequest DEF PortInv, FlightOwed
    <3>6. \A i, j \in 1..Len(inbox') :
            inbox'[i] # Close /\ inbox'[i] = inbox'[j] => i = j
      BY <3>3, <3>5 DEF PortInv, FlightOnce
    <3>7. /\ \A i \in 1..Len(inbox') : inbox'[i] \notin working
          /\ \A i \in 1..Len(inbox'), j \in 1..Len(outbox) : inbox'[i] # outbox[j]
      BY <3>3, <3>5 DEF PortInv, FlightOnce
    <3>8. UNCHANGED <<working, outbox>>
      BY <2>1
    <3>9. FlightOnce'
      BY <3>6, <3>7, <3>8 DEF PortInv, FlightOnce
    <3> QED
      BY <2>2, <3>4, <3>9 DEF PortInv
  <2>4. CASE worker # "open"
    <3>1. inbox' = inbox
      BY <1>6, <2>4 DEF HandleWork, Posted
    <3>2. FlightOwed' /\ FlightOnce'
      BY <2>1, <3>1 DEF PortInv, FlightOwed, FlightOnce
    <3> QED
      BY <2>2, <3>2 DEF PortInv
  <2> QED
    BY <2>3, <2>4
<1>7. ASSUME NEW r \in Req, HandleClose(r)
      PROVE  PortInv'
  <2>1. Unsent'
    BY <1>7 DEF PortInv, Unsent, HandleClose, clientVars, serverVars, timerVars, portVars, ghostVars
  <2> QED
    BY <1>7, <2>1, ClosePosted DEF HandleClose, PortInv, Unsent, clientVars, serverVars, timerVars, portVars, ghostVars
<1>8. ASSUME NEW r \in Req, Finish(r)
      PROVE  PortInv'
  <2>1. Unsent'
    BY <1>8 DEF PortInv, Unsent, Finish, clientVars, serverVars, timerVars, portVars, ghostVars
  <2> QED
    BY <1>8, <2>1, PortsUntouched DEF Finish, PortInv, Unsent, clientVars, serverVars, timerVars, portVars, ghostVars
<1>9. ASSUME NEW r \in Req, ConnectionLost(r)
      PROVE  PortInv'
  <2>1. Unsent'
    BY <1>9 DEF PortInv, Unsent, ConnectionLost, clientVars, serverVars, timerVars, portVars, ghostVars
  <2> QED
    BY <1>9, <2>1, PortsUntouched DEF ConnectionLost, PortInv, Unsent, clientVars, serverVars, timerVars, portVars, ghostVars
<1>10. CASE WorkerMessage
  <2> DEFINE x == Head(outbox)
  <2>1. /\ outbox # <<>> /\ outbox' = Tail(outbox)
        /\ owed' = owed \ {x} /\ listeners' = {}
        /\ UNCHANGED <<inbox, working, kind, overlapped>>
    BY <1>10 DEF WorkerMessage, Answer, ListenersLeft, timerVars
  <2>2. /\ x = outbox[1] /\ 1 \in 1..Len(outbox) /\ x \in Req
        /\ \A i \in 1..Len(outbox') :
             i + 1 \in 1..Len(outbox) /\ i + 1 # 1 /\ outbox'[i] = outbox[i + 1]
    <3>1. /\ x = outbox[1] /\ x \in Req /\ Len(outbox) \in Nat
          /\ Len(outbox) >= 1 /\ Len(Tail(outbox)) = Len(outbox) - 1
          /\ \A i \in 1..Len(Tail(outbox)) :
               i + 1 \in 1..Len(outbox) /\ Tail(outbox)[i] = outbox[i + 1]
      BY <2>1, TailFacts
    <3> QED
      BY <2>1, <3>1
  <2>3. Unsent' /\ Unhandled'
    BY <1>10, <2>1 DEF WorkerMessage, PortInv, Unsent, Unhandled
  <2> HIDE DEF x
  <2>4. FlightOwed'
    BY <2>1, <2>2 DEF PortInv, FlightOwed, FlightOnce
  <2>5. FlightOnce'
    BY <2>1, <2>2 DEF PortInv, FlightOnce
  <2> QED
    BY <2>1, <2>3, <2>4, <2>5 DEF PortInv, OverlapSeen
<1>11. CASE TimeoutExpires
  <2>1. Unsent'
    BY <1>11 DEF PortInv, Unsent, TimeoutExpires, clientVars, serverVars, timerVars, portVars, ghostVars
  <2> QED
    BY <1>11, <2>1, ClosePosted DEF TimeoutExpires, PortInv, Unsent, clientVars, serverVars, timerVars, portVars, ghostVars
<1>12. CASE WorkerExitEvent
  <2>1. /\ UNCHANGED <<listeners, inbox, working, outbox, owed, overlapped, kind>>
        /\ pendingCloseRequests' \subseteq pendingCloseRequests
    BY <1>12 DEF WorkerExitEvent, closeServer, clientVars, serverVars, timerVars, portVars, ghostVars
  <2>2. \A r \in Req : \/ resp'[r] = resp[r]
                       \/ resp'[r] = "finishing" /\ resp[r] # "none"
                       \/ resp'[r] = "gone" /\ (resp[r] # "none" \/ r \in pendingCloseRequests)
    BY <1>12 DEF WorkerExitEvent, closeServer, closeAllConnections, serverVars
  <2>3. Unsent'
    BY <2>1, <2>2 DEF PortInv, Unsent
  <2> QED
    BY <2>1, <2>2, <2>3, PortsUntouched
<1>13. CASE ServerClosed
  <2>1. Unsent'
    BY <1>13 DEF PortInv, Unsent, ServerClosed, clientVars, serverVars, timerVars, portVars, ghostVars
  <2> QED
    BY <1>13, <2>1, PortsUntouched DEF ServerClosed, PortInv, Unsent, clientVars, serverVars, timerVars, portVars, ghostVars
<1>14. CASE WorkerTakesRequest
  <2> DEFINE x == Head(inbox)
  <2>1. /\ inbox # <<>> /\ x # Close /\ inbox' = Tail(inbox)
        /\ working' = working \cup {x}
        /\ UNCHANGED <<listeners, outbox, owed, overlapped, kind, resp,
                       pendingCloseRequests>>
    BY <1>14 DEF WorkerTakesRequest, clientVars, serverVars, timerVars, portVars, ghostVars
  <2>2. /\ x = inbox[1] /\ 1 \in 1..Len(inbox)
        /\ \A i \in 1..Len(inbox') :
             i + 1 \in 1..Len(inbox) /\ i + 1 # 1 /\ inbox'[i] = inbox[i + 1]
    <3>1. /\ x = inbox[1] /\ Len(inbox) \in Nat
          /\ Len(inbox) >= 1 /\ Len(Tail(inbox)) = Len(inbox) - 1
          /\ \A i \in 1..Len(Tail(inbox)) :
               i + 1 \in 1..Len(inbox) /\ Tail(inbox)[i] = inbox[i + 1]
      BY <2>1, TailFacts
    <3> QED
      BY <2>1, <3>1
  <2> HIDE DEF x
  <2>3. FlightOwed'
    BY <2>1, <2>2 DEF PortInv, FlightOwed
  <2>4. FlightOnce'
    BY <2>1, <2>2 DEF PortInv, FlightOnce
  <2> QED
    BY <2>1, <2>3, <2>4 DEF PortInv, Unsent, Unhandled, OverlapSeen
<1>15. CASE WorkerTakesClose
  <2>1. /\ inbox' = <<>> /\ working' \subseteq working
        /\ UNCHANGED <<listeners, outbox, owed, overlapped, kind, resp,
                       pendingCloseRequests>>
    BY <1>15 DEF WorkerTakesClose, clientVars, serverVars, timerVars, portVars, ghostVars
  <2>2. Len(inbox') = 0
    BY <2>1
  <2>3. FlightOwed' /\ FlightOnce'
    BY <2>1, <2>2 DEF PortInv, FlightOwed, FlightOnce
  <2> QED
    BY <2>1, <2>3 DEF PortInv, Unsent, Unhandled, OverlapSeen
<1>16. ASSUME NEW r \in Req, WorkerReplies(r)
      PROVE  PortInv'
  <2>1. /\ r \in working /\ working' = working \ {r}
        /\ outbox' = IF worker = "open" THEN Append(outbox, r) ELSE outbox
        /\ UNCHANGED <<listeners, inbox, owed, overlapped, kind, resp,
                       pendingCloseRequests>>
    BY <1>16 DEF WorkerReplies, PostResult, clientVars, serverVars, timerVars, portVars, ghostVars
  <2>2. \A i \in 1..Len(outbox') :
          \/ i \in 1..Len(outbox) /\ outbox'[i] = outbox[i]
          \/ i = Len(outbox) + 1 /\ outbox'[i] = r
    BY <2>1, AppendFacts
  <2>3. FlightOwed'
    BY <2>1, <2>2 DEF PortInv, FlightOwed
  <2>4. FlightOnce'
    BY <2>1, <2>2 DEF PortInv, FlightOnce
  <2> QED
    BY <2>1, <2>3, <2>4 DEF PortInv, Unsent, Unhandled, OverlapSeen
<1>17. CASE WorkerExits
  <2>1. Unsent'
    BY <1>17 DEF PortInv, Unsent, WorkerExits, clientVars, serverVars, timerVars, portVars, ghostVars
  <2> QED
    BY <1>17, <2>1, PortsUntouched DEF WorkerExits, PortInv, Unsent, clientVars, serverVars, timerVars, portVars, ghostVars
<1>18. CASE WorkerCrashes
  <2>1. /\ inbox' = <<>> /\ working' \subseteq working
        /\ UNCHANGED <<listeners, outbox, owed, overlapped, kind, resp,
                       pendingCloseRequests>>
    BY <1>18 DEF WorkerCrashes, clientVars, serverVars, timerVars, portVars, ghostVars
  <2>2. Len(inbox') = 0
    BY <2>1
  <2>3. FlightOwed' /\ FlightOnce'
    BY <2>1, <2>2 DEF PortInv, FlightOwed, FlightOnce
  <2> QED
    BY <2>1, <2>3 DEF PortInv, Unsent, Unhandled, OverlapSeen
<1>19. CASE UNCHANGED vars
  <2>1. Unsent'
    BY <1>19 DEF PortInv, Unsent, vars, clientVars, serverVars, timerVars, portVars, ghostVars
  <2> QED
    BY <1>19, <2>1, PortsUntouched DEF vars, PortInv, Unsent, clientVars, serverVars, timerVars, portVars, ghostVars
<1> QED
  BY <1>1, <1>2, <1>3, <1>4, <1>5, <1>6, <1>7, <1>8, <1>9, <1>10, <1>11, <1>12, <1>13, <1>14, <1>15, <1>16, <1>17, <1>18, <1>19
  DEF Next, Client, MainThread, WorkerThread, Handle
-----------------------------------------------------------------------------
(* The safety properties *)

(***************************************************************************)
(* Every step preserves OwnResult.  The case that matters is the arrival   *)
(* of a result: the request it belongs to is owed, so a listener that is   *)
(* not overlapped can only be that request's.                              *)
(***************************************************************************)
LEMMA OwnResultStep == TypeOK /\ PortInv /\ OwnResult /\ [Next]_vars => OwnResult'
<1> SUFFICES ASSUME TypeOK, PortInv, OwnResult, [Next]_vars PROVE OwnResult'
  OBVIOUS
<1> USE DEF TypeOK, OwnResult
<1>1. ASSUME NEW r \in Req, NEW k \in Kinds, Call(r, k)
      PROVE  OwnResult'
  BY <1>1 DEF Call, clientVars, serverVars, timerVars, portVars, ghostVars
<1>2. ASSUME NEW r \in Req, Abandon(r)
      PROVE  OwnResult'
  BY <1>2 DEF Abandon, clientVars, serverVars, timerVars, portVars, ghostVars
<1>3. CASE ClientDies
  BY <1>3 DEF ClientDies, clientVars, serverVars, timerVars, portVars, ghostVars
<1>4. ASSUME NEW r \in Req, HandleOversized(r)
      PROVE  OwnResult'
  BY <1>4 DEF HandleOversized, Answer, clientVars, serverVars, timerVars, portVars, ghostVars
<1>5. ASSUME NEW r \in Req, HandleStatus(r)
      PROVE  OwnResult'
  BY <1>5 DEF HandleStatus, Answer, clientVars, serverVars, timerVars, portVars, ghostVars
<1>6. ASSUME NEW r \in Req, HandleWork(r)
      PROVE  OwnResult'
  BY <1>6 DEF HandleWork, clientVars, serverVars, timerVars, portVars, ghostVars
<1>7. ASSUME NEW r \in Req, HandleClose(r)
      PROVE  OwnResult'
  BY <1>7 DEF HandleClose, clientVars, serverVars, timerVars, portVars, ghostVars
<1>8. ASSUME NEW r \in Req, Finish(r)
      PROVE  OwnResult'
  BY <1>8 DEF Finish, clientVars, serverVars, timerVars, portVars, ghostVars
<1>9. ASSUME NEW r \in Req, ConnectionLost(r)
      PROVE  OwnResult'
  BY <1>9 DEF ConnectionLost, clientVars, serverVars, timerVars, portVars, ghostVars
<1>10. CASE WorkerMessage
  <2> DEFINE x == Head(outbox)
  <2>1. x \in owed
    <3>1. x = outbox[1] /\ Len(outbox) \in Nat /\ Len(outbox) >= 1
      BY <1>10, TailFacts DEF WorkerMessage
    <3>2. 1 \in 1..Len(outbox)
      BY <3>1
    <3> QED
      BY <3>1, <3>2 DEF PortInv, FlightOwed
  <2>2. \A r \in listeners \ overlapped : x = r
    BY <2>1 DEF PortInv, OverlapSeen
  <2>3. \A r \in Req : \/ call'[r] = call[r] /\ got'[r] = got[r]
                       \/ r \in listeners /\ got'[r] = x
    BY <1>10 DEF WorkerMessage, Answer
  <2>4. UNCHANGED <<kind, overlapped>>
    BY <1>10 DEF WorkerMessage, Answer
  <2> HIDE DEF x
  <2> QED
    BY <2>2, <2>3, <2>4
<1>11. CASE TimeoutExpires
  BY <1>11 DEF TimeoutExpires, clientVars, serverVars, timerVars, portVars, ghostVars
<1>12. CASE WorkerExitEvent
  <2>1. \A r \in Req : \/ call'[r] = call[r] /\ got'[r] = got[r]
                       \/ call'[r] = "done" /\ got'[r] = r
                       \/ call'[r] = "failed"
    BY <1>12 DEF WorkerExitEvent, closeServer, clientVars
  <2>2. UNCHANGED <<kind, overlapped>>
    BY <1>12 DEF WorkerExitEvent, closeServer, clientVars, ghostVars
  <2> QED
    BY <2>1, <2>2
<1>13. CASE ServerClosed
  BY <1>13 DEF ServerClosed, clientVars, serverVars, timerVars, portVars, ghostVars
<1>14. CASE WorkerTakesRequest
  BY <1>14 DEF WorkerTakesRequest, clientVars, serverVars, timerVars, portVars, ghostVars
<1>15. CASE WorkerTakesClose
  BY <1>15 DEF WorkerTakesClose, clientVars, serverVars, timerVars, portVars, ghostVars
<1>16. ASSUME NEW r \in Req, WorkerReplies(r)
      PROVE  OwnResult'
  BY <1>16 DEF WorkerReplies, clientVars, serverVars, timerVars, portVars, ghostVars
<1>17. CASE WorkerExits
  BY <1>17 DEF WorkerExits, clientVars, serverVars, timerVars, portVars, ghostVars
<1>18. CASE WorkerCrashes
  BY <1>18 DEF WorkerCrashes, clientVars, serverVars, timerVars, portVars, ghostVars
<1>19. CASE UNCHANGED vars
  BY <1>19 DEF vars, clientVars, serverVars, timerVars, portVars, ghostVars
<1> QED
  BY <1>1, <1>2, <1>3, <1>4, <1>5, <1>6, <1>7, <1>8, <1>9, <1>10, <1>11, <1>12, <1>13, <1>14, <1>15, <1>16, <1>17, <1>18, <1>19
  DEF Next, Client, MainThread, WorkerThread, Handle

(***************************************************************************)
(* Every step preserves ListenersAreServed: a request moves from inbox to  *)
(* working to outbox, and its result removes every listener.               *)
(***************************************************************************)
LEMMA ServedStep ==
  TypeOK /\ ListenersAreServed /\ [Next]_vars => ListenersAreServed'
<1> SUFFICES ASSUME TypeOK, ListenersAreServed, [Next]_vars,
                    worker' = "open"
             PROVE  listeners' \subseteq InFlight'
  BY DEF ListenersAreServed
<1>a. ASSUME worker = "open", InFlight \subseteq InFlight', listeners' = listeners
      PROVE  listeners' \subseteq InFlight'
  BY <1>a DEF ListenersAreServed
<1>1. ASSUME NEW r \in Req, NEW k \in Kinds, Call(r, k)
      PROVE  listeners' \subseteq InFlight'
  BY <1>1, <1>a DEF Call, InFlight, clientVars, serverVars, timerVars, portVars, ghostVars
<1>2. ASSUME NEW r \in Req, Abandon(r)
      PROVE  listeners' \subseteq InFlight'
  BY <1>2, <1>a DEF Abandon, InFlight, clientVars, serverVars, timerVars, portVars, ghostVars
<1>3. CASE ClientDies
  BY <1>3, <1>a DEF ClientDies, InFlight, clientVars, serverVars, timerVars, portVars, ghostVars
<1>4. ASSUME NEW r \in Req, HandleOversized(r)
      PROVE  listeners' \subseteq InFlight'
  BY <1>4, <1>a DEF HandleOversized, Answer, InFlight, clientVars, serverVars, timerVars, portVars, ghostVars
<1>5. ASSUME NEW r \in Req, HandleStatus(r)
      PROVE  listeners' \subseteq InFlight'
  BY <1>5, <1>a DEF HandleStatus, Answer, InFlight, clientVars, serverVars, timerVars, portVars, ghostVars
<1>6. ASSUME NEW r \in Req, HandleWork(r)
      PROVE  listeners' \subseteq InFlight'
  <2>1. worker = "open" /\ listeners' = listeners \cup {r}
        /\ UNCHANGED <<working, outbox>>
    BY <1>6 DEF HandleWork, portVars
  <2>2. Range(inbox') = Range(inbox) \cup {r}
    BY <1>6, <2>1, RangeAppend DEF HandleWork, Posted, TypeOK
  <2> QED
    BY <2>1, <2>2, CloseIsNoRequest DEF InFlight, ListenersAreServed
<1>7. ASSUME NEW r \in Req, HandleClose(r)
      PROVE  listeners' \subseteq InFlight'
  <2>1. worker = "open" /\ UNCHANGED <<listeners, working, outbox>>
    BY <1>7 DEF HandleClose, portVars
  <2>2. Range(inbox') = Range(inbox) \cup {Close}
    BY <1>7, <2>1, RangeAppend DEF HandleClose, Posted, TypeOK
  <2> QED
    BY <2>1, <2>2, <1>a DEF InFlight
<1>8. ASSUME NEW r \in Req, Finish(r)
      PROVE  listeners' \subseteq InFlight'
  BY <1>8, <1>a DEF Finish, InFlight, clientVars, serverVars, timerVars, portVars, ghostVars
<1>9. ASSUME NEW r \in Req, ConnectionLost(r)
      PROVE  listeners' \subseteq InFlight'
  BY <1>9, <1>a DEF ConnectionLost, InFlight, clientVars, serverVars, timerVars, portVars, ghostVars
<1>10. CASE WorkerMessage
  BY <1>10 DEF WorkerMessage, ListenersLeft
<1>11. CASE TimeoutExpires
  <2>1. worker = "open" /\ UNCHANGED <<listeners, working, outbox>>
    BY <1>11 DEF TimeoutExpires, portVars
  <2>2. Range(inbox') = Range(inbox) \cup {Close}
    BY <1>11, <2>1, RangeAppend DEF TimeoutExpires, Posted, TypeOK
  <2> QED
    BY <2>1, <2>2, <1>a DEF InFlight
<1>12. CASE WorkerExitEvent
  BY <1>12 DEF WorkerExitEvent
<1>13. CASE ServerClosed
  BY <1>13, <1>a DEF ServerClosed, InFlight, clientVars, serverVars, timerVars, portVars, ghostVars
<1>14. CASE WorkerTakesRequest
  <2>1. /\ inbox # <<>> /\ inbox' = Tail(inbox) /\ worker = "open"
        /\ working' = working \cup {Head(inbox)}
        /\ UNCHANGED <<listeners, outbox>>
    BY <1>14 DEF WorkerTakesRequest, portVars
  <2>2. Range(inbox) \subseteq Range(inbox') \cup {Head(inbox)}
    BY <2>1, RangeTail DEF TypeOK
  <2> QED
    BY <2>1, <2>2, <1>a DEF InFlight
<1>15. CASE WorkerTakesClose
  BY <1>15 DEF WorkerTakesClose
<1>16. ASSUME NEW r \in Req, WorkerReplies(r)
      PROVE  listeners' \subseteq InFlight'
  <2>1. /\ worker = "open" /\ working' = working \ {r}
        /\ outbox' = Append(outbox, r)
        /\ UNCHANGED <<listeners, inbox>>
    BY <1>16 DEF WorkerReplies, PostResult, portVars
  <2>2. outbox \in Seq(Req \cup {Close})
    BY DEF TypeOK
  <2>3. Range(outbox') = Range(outbox) \cup {r}
    BY <2>1, <2>2, RangeAppend
  <2> QED
    BY <2>1, <2>3, <1>a DEF InFlight
<1>17. CASE WorkerExits
  BY <1>17 DEF WorkerExits
<1>18. CASE WorkerCrashes
  BY <1>18 DEF WorkerCrashes
<1>19. CASE UNCHANGED vars
  BY <1>19, <1>a DEF vars, InFlight, clientVars, serverVars, timerVars, portVars, ghostVars
<1> QED
  BY <1>1, <1>2, <1>3, <1>4, <1>5, <1>6, <1>7, <1>8, <1>9, <1>10, <1>11, <1>12, <1>13, <1>14, <1>15, <1>16, <1>17, <1>18, <1>19
  DEF Next, Client, MainThread, WorkerThread, Handle

(***************************************************************************)
(* Every step preserves WatchdogArmed: what stops the watchdog leaves a    *)
(* response whose 'finish' restarts it, or asks for the shutdown.          *)
(***************************************************************************)
LEMMA WatchdogStep ==
  TypeOK /\ PortInv /\ ClosedServer /\ WatchdogArmed /\ [Next]_vars => WatchdogArmed'
<1> SUFFICES ASSUME TypeOK, PortInv, ClosedServer, WatchdogArmed, [Next]_vars
             PROVE  WatchdogArmed'
  OBVIOUS
<1> USE DEF WatchdogArmed, ShutdownAsked
<1>a. ASSUME inbox' = Posted(Close), worker' = worker
      PROVE  ShutdownAsked'
  BY <1>a, RangeAppend DEF Posted, TypeOK
<1>1. ASSUME NEW r \in Req, NEW k \in Kinds, Call(r, k)
      PROVE  WatchdogArmed'
  <2>1. resp[r] = "none" /\ UNCHANGED <<listening, armed, inbox, worker>>
    BY <1>1 DEF Call, PortInv, Unsent, timerVars, portVars
  <2>2. \A q \in Req : q # r => resp'[q] = resp[q]
    BY <1>1 DEF Call, TypeOK
  <2> QED
    BY <2>1, <2>2
<1>2. ASSUME NEW r \in Req, Abandon(r)
      PROVE  WatchdogArmed'
  BY <1>2 DEF TypeOK, Abandon, clientVars, serverVars, timerVars, portVars, ghostVars
<1>3. CASE ClientDies
  BY <1>3 DEF TypeOK, ClientDies, clientVars, serverVars, timerVars, portVars, ghostVars
<1>4. ASSUME NEW r \in Req, HandleOversized(r)
      PROVE  WatchdogArmed'
  BY <1>4 DEF TypeOK, HandleOversized, Answer, clientVars, serverVars, timerVars, portVars, ghostVars
<1>5. ASSUME NEW r \in Req, HandleStatus(r)
      PROVE  WatchdogArmed'
  <2>1. resp'[r] = "finishing"
    BY <1>5 DEF HandleStatus, TypeOK
  <2> QED
    BY <2>1
<1>6. ASSUME NEW r \in Req, HandleWork(r)
      PROVE  WatchdogArmed'
  <2>1. resp'[r] = "pending"
    BY <1>6 DEF HandleWork, TypeOK
  <2> QED
    BY <2>1
<1>7. ASSUME NEW r \in Req, HandleClose(r)
      PROVE  WatchdogArmed'
  BY <1>7, <1>a DEF HandleClose
<1>8. ASSUME NEW r \in Req, Finish(r)
      PROVE  WatchdogArmed'
  BY <1>8 DEF TypeOK, Finish, clientVars, serverVars, timerVars, portVars, ghostVars
<1>9. ASSUME NEW r \in Req, ConnectionLost(r)
      PROVE  WatchdogArmed'
  BY <1>9 DEF TypeOK, ConnectionLost, clientVars, serverVars, timerVars, portVars, ghostVars
<1>10. CASE WorkerMessage
  BY <1>10 DEF TypeOK, WorkerMessage, timerVars
<1>11. CASE TimeoutExpires
  BY <1>11, <1>a DEF TimeoutExpires
<1>12. CASE WorkerExitEvent
  BY <1>12 DEF WorkerExitEvent
<1>13. CASE ServerClosed
  BY <1>13 DEF ServerClosed, ClosedServer, serverVars
<1>14. CASE WorkerTakesRequest
  <2>1. Range(inbox) = {Head(inbox)} \cup Range(inbox')
    BY <1>14, RangeTail DEF WorkerTakesRequest, TypeOK
  <2> QED
    BY <1>14, <2>1 DEF WorkerTakesRequest, serverVars, timerVars
<1>15. CASE WorkerTakesClose
  BY <1>15 DEF WorkerTakesClose
<1>16. ASSUME NEW r \in Req, WorkerReplies(r)
      PROVE  WatchdogArmed'
  BY <1>16 DEF TypeOK, WorkerReplies, clientVars, serverVars, timerVars, portVars, ghostVars
<1>17. CASE WorkerExits
  BY <1>17 DEF WorkerExits
<1>18. CASE WorkerCrashes
  BY <1>18 DEF WorkerCrashes
<1>19. CASE UNCHANGED vars
  BY <1>19 DEF TypeOK, vars, clientVars, serverVars, timerVars, portVars, ghostVars
<1> QED
  BY <1>1, <1>2, <1>3, <1>4, <1>5, <1>6, <1>7, <1>8, <1>9, <1>10, <1>11, <1>12, <1>13, <1>14, <1>15, <1>16, <1>17, <1>18, <1>19
  DEF Next, Client, MainThread, WorkerThread, Handle

-----------------------------------------------------------------------------
(* The initial states satisfy the inductive invariant. *)
LEMMA InitIInv == Init => IInv
<1> SUFFICES ASSUME Init PROVE IInv
  OBVIOUS
<1>1. TypeOK
  <2>1. inbox \in Seq(Req \cup {Close}) /\ outbox \in Seq(Req)
    BY DEF Init
  <2>2. /\ kind \in [Req -> Kinds \cup {"none"}]
        /\ call \in [Req -> {"idle", "waiting", "done", "failed"}]
        /\ got \in [Req -> Req \cup {None}]
        /\ resp \in [Req -> RespStates]
    BY DEF Init, RespStates
  <2> QED
    BY <2>1, <2>2 DEF Init, TypeOK
<1>2. PortInv
  BY DEF Init, PortInv, Unsent, Unhandled, FlightOwed, FlightOnce, OverlapSeen
<1>3. OwnResult /\ ListenersAreServed /\ WatchdogArmed /\ ClosedServer
  BY DEF Init, OwnResult, ListenersAreServed, WatchdogArmed, ClosedServer
<1> QED
  BY <1>1, <1>2, <1>3 DEF IInv

(* The invariant is preserved by every step, hence holds always. *)
THEOREM Invariance == Spec => []IInv
<1>1. Init => IInv
  BY InitIInv
<1>2. IInv /\ [Next]_vars => IInv'
  <2>1. ClosedServer /\ [Next]_vars => ClosedServer'
    BY DEF ClosedServer, Next, Client, MainThread, WorkerThread, Handle, Call,
           Abandon, ClientDies, HandleOversized, HandleStatus, HandleWork,
           HandleClose, Finish, ConnectionLost, WorkerMessage, TimeoutExpires,
           WorkerExitEvent, closeServer, ServerClosed, WorkerTakesRequest,
           WorkerTakesClose, WorkerReplies, WorkerExits, WorkerCrashes,
           serverVars, vars
  <2> QED
    BY <2>1, TypeStep, PortStep, OwnResultStep, ServedStep, WatchdogStep DEF IInv
<1> QED
  BY <1>1, <1>2, PTL DEF Spec

(* Type correctness of the bridge, for every number of requests. *)
THEOREM TypeCorrect == Spec => []TypeOK
<1>1. IInv => TypeOK
  BY DEF IInv
<1> QED
  BY <1>1, Invariance, PTL

(***************************************************************************)
(* A delegated request that did not overlap another one is answered with   *)
(* its own result (delegate.ts, worker.ts), whatever is abandoned, crashes *)
(* or shuts down.                                                          *)
(***************************************************************************)
THEOREM OwnResultSafe == Spec => []OwnResult
<1>1. IInv => OwnResult
  BY DEF IInv
<1> QED
  BY <1>1, Invariance, PTL

(* A running worker serves every registered listener (delegate.ts:54-57). *)
THEOREM ListenersServed == Spec => []ListenersAreServed
<1>1. IInv => ListenersAreServed
  BY DEF IInv
<1> QED
  BY <1>1, Invariance, PTL

(* The orphan watchdog is off only for a response or a shutdown. *)
THEOREM WatchdogSafe == Spec => []WatchdogArmed
<1>1. IInv => WatchdogArmed
  BY DEF IInv
<1> QED
  BY <1>1, Invariance, PTL
-----------------------------------------------------------------------------
(***************************************************************************)
(* BridgeServer implements BridgeCalls, for every number of requests.      *)
(*                                                                         *)
(* The argument: a result is handed out only while it is owed (delegated   *)
(* requests) or before its own caller stopped waiting (the others), and a  *)
(* result that was handed out is never owed again.  Since of two callers   *)
(* that wait at the same time one is the heartbeat, at most one caller is  *)
(* behind the listeners that fire together.                                *)
(***************************************************************************)
(* A call was made exactly if its request was sent. *)
Sent == \A r \in Req : call[r] = "idle" <=> kind[r] = "none"

(* Of two callers that wait, one is the heartbeat thread. *)
OneSensor ==
  \A r, q \in Req :
    call[r] = "waiting" /\ call[q] = "waiting" /\ r # q
      => kind[r] = "status" \/ kind[q] = "status"

(* Only delegated requests are owed, only /close requests pend. *)
KindOf == /\ \A r \in owed : kind[r] = "work"
          /\ \A r \in pendingCloseRequests : kind[r] = "close"

(* What was handed to a caller: its own result or a settled delegated one. *)
Delivered ==
  \A q \in Req : call[q] = "done" =>
    /\ got[q] \in Req /\ got[q] \notin owed
    /\ resp[got[q]] \notin {"none", "sent"}
    /\ got[q] = q \/ kind[got[q]] = "work"

CallInv == Sent /\ OneSensor /\ KindOf /\ Delivered

(***************************************************************************)
(* A step that settles no call preserves the invariant if it takes no      *)
(* response back and adds nothing to what is owed or pending.              *)
(***************************************************************************)
LEMMA QuietStep ==
  ASSUME TypeOK, CallInv, UNCHANGED <<kind, got>>, call' \in [Req -> Promise!States],
         \A r \in Req : \/ call'[r] = call[r]
                        \/ call[r] = "waiting" /\ call'[r] = "failed",
         owed' \subseteq owed, pendingCloseRequests' \subseteq pendingCloseRequests,
         \A r \in Req : resp'[r] \in {"none", "sent"} => resp[r] \in {"none", "sent"}
  PROVE  CallInv'
<1>1. Sent' /\ OneSensor' /\ KindOf'
  BY DEF CallInv, Sent, OneSensor, KindOf, TypeOK
<1>2. Delivered'
  BY DEF CallInv, Delivered, TypeOK
<1> QED
  BY <1>1, <1>2 DEF CallInv

(***************************************************************************)
(* The main thread answers r itself: nobody was given r's result before.   *)
(***************************************************************************)
LEMMA OwnAnswerFresh ==
  ASSUME TypeOK, CallInv, NEW r \in Req, call[r] = "waiting", kind[r] # "work"
  PROVE  r \in Promise!Made \ Promise!Taken
  BY DEF CallInv, Delivered, Promise!Made, Promise!Taken

(* A result that is owed was given to nobody. *)
LEMMA OwedFresh ==
  ASSUME TypeOK, CallInv, NEW x \in owed
  PROVE  x \in Promise!Made \ Promise!Taken
<1>1. x \in Req /\ call[x] # "idle"
  BY DEF TypeOK, CallInv, KindOf, Sent
<1> QED
  BY <1>1 DEF CallInv, Delivered, Promise!Made, Promise!Taken

(* Every step preserves the invariant on calls. *)
LEMMA CallStep == TypeOK /\ TypeOK' /\ PortInv /\ CallInv /\ [Next]_vars => CallInv'
<1> SUFFICES ASSUME TypeOK, TypeOK', PortInv, CallInv, [Next]_vars PROVE CallInv'
  OBVIOUS
<1> USE DEF Promise!States
<1>t. call' \in [Req -> {"idle", "waiting", "done", "failed"}]
  BY DEF TypeOK
<1>1. ASSUME NEW r \in Req, NEW k \in Kinds, Call(r, k)
      PROVE  CallInv'
  <2>1. k # "none" /\ resp[r] = "none" /\ kind[r] = "none"
    BY <1>1, KindsAssumption DEF AllKinds, PortInv, Unsent, Call
  <2>2. /\ kind' = [kind EXCEPT ![r] = k]
        /\ call'[r] \in {"waiting", "failed"}
        /\ \A q \in Req : q # r => call'[q] = call[q] /\ resp'[q] = resp[q]
        /\ UNCHANGED <<got, owed, pendingCloseRequests>>
        /\ \A q \in Req : call[q] = "waiting" => "status" \in {k, kind[q]}
    BY <1>1 DEF Call, Waiting, ghostVars, TypeOK
  <2>3. Sent' /\ OneSensor' /\ KindOf'
    BY <2>1, <2>2 DEF CallInv, Sent, OneSensor, KindOf, TypeOK
  <2>4. Delivered'
    BY <2>1, <2>2 DEF CallInv, Delivered, TypeOK
  <2> QED
    BY <2>3, <2>4 DEF CallInv
<1>2. ASSUME NEW r \in Req, Abandon(r)
      PROVE  CallInv'
  BY <1>2, <1>t, QuietStep DEF Abandon, serverVars, ghostVars, TypeOK
<1>3. CASE ClientDies
  BY <1>3, <1>t, QuietStep DEF ClientDies, serverVars, ghostVars, TypeOK
<1>4. ASSUME NEW r \in Req, HandleOversized(r) \/ HandleStatus(r)
      PROVE  CallInv'
  <2>1. /\ resp[r] = "sent" /\ kind[r] # "none"
        /\ resp'[r] \in {"finishing", "finished"}
        /\ \A q \in Req : q # r => resp'[q] = resp[q]
        /\ UNCHANGED <<kind, owed, pendingCloseRequests>>
        /\ \A q \in Req :
             \/ call'[q] = call[q] /\ got'[q] = got[q]
             \/ q = r /\ call[q] = "waiting" /\ call'[q] = "done" /\ got'[q] = r
    BY <1>4 DEF HandleOversized, HandleStatus, Answer, ghostVars, TypeOK
  <2>2. r \notin owed
    BY <2>1 DEF PortInv, Unhandled
  <2>3. Sent' /\ OneSensor' /\ KindOf'
    BY <2>1 DEF CallInv, Sent, OneSensor, KindOf, TypeOK
  <2>4. Delivered'
    BY <2>1, <2>2 DEF CallInv, Delivered, TypeOK
  <2> QED
    BY <2>3, <2>4 DEF CallInv
<1>5. ASSUME NEW r \in Req, HandleWork(r)
      PROVE  CallInv'
  <2>1. /\ resp[r] = "sent" /\ kind[r] = "work"
        /\ resp' = [resp EXCEPT ![r] = "pending"]
        /\ owed' = owed \cup {r}
        /\ UNCHANGED <<kind, call, got, pendingCloseRequests>>
    BY <1>5 DEF HandleWork, clientVars
  <2>2. Sent' /\ OneSensor' /\ KindOf'
    BY <2>1 DEF CallInv, Sent, OneSensor, KindOf, TypeOK
  <2>3. Delivered'
    BY <2>1 DEF CallInv, Delivered, TypeOK
  <2> QED
    BY <2>2, <2>3 DEF CallInv
<1>6. ASSUME NEW r \in Req, HandleClose(r)
      PROVE  CallInv'
  <2>1. /\ resp[r] = "sent" /\ kind[r] = "close"
        /\ resp' = [resp EXCEPT ![r] = "pending"]
        /\ pendingCloseRequests' = pendingCloseRequests \cup {r}
        /\ UNCHANGED <<kind, call, got, owed>>
    BY <1>6 DEF HandleClose, clientVars, ghostVars
  <2>2. Sent' /\ OneSensor' /\ KindOf'
    BY <2>1 DEF CallInv, Sent, OneSensor, KindOf, TypeOK
  <2>3. Delivered'
    BY <2>1 DEF CallInv, Delivered, TypeOK
  <2> QED
    BY <2>2, <2>3 DEF CallInv
<1>7. ASSUME NEW r \in Req, Finish(r) \/ ConnectionLost(r)
      PROVE  CallInv'
  BY <1>7, <1>t, QuietStep DEF Finish, ConnectionLost, clientVars, ghostVars, TypeOK
<1>8. CASE WorkerMessage
  <2> DEFINE x == Head(outbox)
             fired == {r \in listeners : resp[r] = "pending"}
  <2>1. outbox # <<>> /\ outbox \in Seq(Req)
    BY <1>8 DEF WorkerMessage, TypeOK
  <2>2. x \in owed /\ x \in Req
    BY <2>1, TailFacts DEF PortInv, FlightOwed
  <2>3. /\ resp' = [r \in Req |-> IF r \in fired THEN "finishing" ELSE resp[r]]
        /\ owed' = owed \ {x}
        /\ UNCHANGED <<kind, pendingCloseRequests>>
        /\ \A q \in Req :
             \/ call'[q] = call[q] /\ got'[q] = got[q]
             \/ call[q] = "waiting" /\ call'[q] = "done" /\ got'[q] = x
    BY <1>8 DEF WorkerMessage, Answer
  <2>4. resp[x] \notin {"none", "sent"} /\ kind[x] = "work"
    BY <2>2 DEF PortInv, Unhandled, CallInv, KindOf
  <2> HIDE DEF x, fired
  <2>5. Sent' /\ OneSensor' /\ KindOf'
    BY <2>3 DEF CallInv, Sent, OneSensor, KindOf, TypeOK
  <2>6. Delivered'
    BY <2>2, <2>3, <2>4 DEF CallInv, Delivered, TypeOK
  <2> QED
    BY <2>5, <2>6 DEF CallInv
<1>9. CASE WorkerExitEvent
  <2>1. CASE ~listening
    BY <1>9, <2>1, <1>t, QuietStep DEF WorkerExitEvent, clientVars, serverVars, ghostVars
  <2>2. CASE listening
    <3> closeServer /\ owed' = owed
      BY <1>9, <2>2 DEF WorkerExitEvent, ghostVars
    <3>1. /\ UNCHANGED kind /\ pendingCloseRequests' = {}
          /\ \A q \in Req :
               \/ call'[q] = call[q] /\ got'[q] = got[q]
               \/ call[q] = "waiting" /\ call'[q] = "failed" /\ got'[q] = got[q]
               \/ /\ call[q] = "waiting" /\ call'[q] = "done" /\ got'[q] = q
                  /\ q \in pendingCloseRequests /\ resp[q] = "pending"
      BY DEF closeServer
    <3>2. \A r \in Req : resp'[r] \in {"none", "sent"} => resp[r] \in {"none", "sent"}
      BY DEF closeServer
    <3>3. Sent' /\ OneSensor' /\ KindOf'
      <4>1. Sent'
        BY <3>1 DEF CallInv, Sent
      <4>2. OneSensor'
        BY <3>1 DEF CallInv, OneSensor
      <4>3. KindOf'
        BY <3>1 DEF CallInv, KindOf
      <4> QED
        BY <4>1, <4>2, <4>3
    <3>4. Delivered'
      BY <3>1, <3>2 DEF CallInv, Delivered, KindOf, TypeOK
    <3> QED
      BY <3>3, <3>4 DEF CallInv
  <2> QED
    BY <2>1, <2>2
<1>10. CASE TimeoutExpires \/ ServerClosed
  BY <1>10, <1>t, QuietStep DEF TimeoutExpires, ServerClosed, clientVars, serverVars, ghostVars
<1>11. CASE WorkerTakesRequest \/ WorkerTakesClose \/ WorkerExits \/ WorkerCrashes
  BY <1>11, <1>t, QuietStep
  DEF WorkerTakesRequest, WorkerTakesClose, WorkerExits, WorkerCrashes,
      clientVars, serverVars, ghostVars
<1>12. ASSUME NEW r \in Req, WorkerReplies(r)
      PROVE  CallInv'
  BY <1>12, <1>t, QuietStep DEF WorkerReplies, clientVars, serverVars, ghostVars
<1>13. CASE UNCHANGED vars
  BY <1>13, <1>t, QuietStep DEF vars, clientVars, serverVars, ghostVars
<1> QED
  BY <1>1, <1>2, <1>3, <1>4, <1>5, <1>6, <1>7, <1>8, <1>9, <1>10, <1>11, <1>12, <1>13
  DEF Next, Client, MainThread, WorkerThread, Handle

(* A step in which every call stays as it is or fails is one of BridgeCalls. *)
LEMMA NothingAnswered ==
  ASSUME TypeOK', UNCHANGED got,
         \A r \in Req : \/ call'[r] = call[r]
                        \/ call[r] = "waiting" /\ call'[r] = "failed"
  PROVE  Promise!Next
<1>1. call' \in [Req -> Promise!States] /\ got' \in [Req -> Req \cup {None}]
  BY DEF TypeOK, Promise!States
<1>2. \A r \in Req : Promise!Unchanged(r) \/ Promise!Fail(r)
  BY DEF Promise!Unchanged, Promise!Fail
<1>3. \A r \in Req : ~Promise!Answer(r)
  BY DEF Promise!Answer
<1> QED
  BY <1>1, <1>2, <1>3 DEF Promise!Next

(* Every step of the bridge is a step of BridgeCalls, or changes no call. *)
LEMMA PromiseStep ==
  TypeOK /\ TypeOK' /\ PortInv /\ CallInv /\ [Next]_vars
    => [Promise!Next]_<<call, got>>
<1> SUFFICES ASSUME TypeOK, TypeOK', PortInv, CallInv, [Next]_vars
             PROVE  Promise!Next \/ UNCHANGED <<call, got>>
  OBVIOUS
<1>t. call' \in [Req -> Promise!States] /\ got' \in [Req -> Req \cup {None}]
  BY DEF TypeOK, Promise!States
<1>1. ASSUME NEW r \in Req, NEW k \in Kinds, Call(r, k)
      PROVE  Promise!Next
  <2>1. call[r] = "idle" /\ call'[r] \in {"waiting", "failed"}
    BY <1>1 DEF Call, CallInv, Sent, TypeOK
  <2>2. UNCHANGED got /\ \A q \in Req : q # r => call'[q] = call[q]
    BY <1>1 DEF Call, TypeOK
  <2>3. \A q \in Req : Promise!Unchanged(q) \/ Promise!Make(q)
    BY <2>1, <2>2 DEF Promise!Unchanged, Promise!Make
  <2>4. \A q \in Req : ~Promise!Answer(q)
    BY <2>1, <2>2 DEF Promise!Answer
  <2> QED
    BY <1>t, <2>3, <2>4 DEF Promise!Next
<1>2. ASSUME NEW r \in Req, Abandon(r)
      PROVE  Promise!Next
  BY <1>2, NothingAnswered DEF Abandon, TypeOK
<1>3. CASE ClientDies
  BY <1>3, NothingAnswered DEF ClientDies
<1>4. ASSUME NEW r \in Req, HandleOversized(r) \/ HandleStatus(r)
      PROVE  Promise!Next
  <2>1. \A q \in Req :
          \/ call'[q] = call[q] /\ got'[q] = got[q]
          \/ q = r /\ call[q] = "waiting" /\ call'[q] = "done" /\ got'[q] = r
    BY <1>4 DEF HandleOversized, HandleStatus, Answer
  <2>2. kind[r] # "work"
    BY <1>4 DEF HandleOversized, HandleStatus
  <2>3. call[r] = "waiting" => r \in Promise!Made \ Promise!Taken
    BY <2>2, OwnAnswerFresh
  <2>4. \A q \in Req : Promise!Unchanged(q) \/ Promise!Answer(q)
    BY <2>1, <2>3 DEF Promise!Unchanged, Promise!Answer
  <2>5. \A q \in Req : Promise!Answer(q) => q = r
    BY <2>1 DEF Promise!Answer
  <2> QED
    BY <1>t, <2>4, <2>5 DEF Promise!Next
<1>5. CASE WorkerMessage
  <2> DEFINE x == Head(outbox)
  <2>1. outbox # <<>> /\ outbox \in Seq(Req)
    BY <1>5 DEF WorkerMessage, TypeOK
  <2>2. x \in owed
    BY <2>1, TailFacts DEF PortInv, FlightOwed
  <2>3. x \in Promise!Made \ Promise!Taken
    BY <2>2, OwedFresh
  <2>4. \A q \in Req :
          \/ call'[q] = call[q] /\ got'[q] = got[q]
          \/ /\ q \in listeners
             /\ call[q] = "waiting" /\ call'[q] = "done" /\ got'[q] = x
    BY <1>5 DEF WorkerMessage, Answer
  <2> HIDE DEF x
  <2>5. \A q \in listeners : kind[q] = "work"
    BY DEF PortInv, CallInv, KindOf
  <2>6. \A q \in Req : Promise!Unchanged(q) \/ Promise!Answer(q)
    BY <2>3, <2>4 DEF Promise!Unchanged, Promise!Answer
  <2>7. \A q, r \in Req : Promise!Answer(q) /\ Promise!Answer(r) => q = r
    BY <2>4, <2>5 DEF Promise!Answer, CallInv, OneSensor
  <2> QED
    BY <1>t, <2>6, <2>7 DEF Promise!Next
<1>6. CASE WorkerExitEvent
  <2>1. CASE ~listening
    BY <1>6, <2>1 DEF WorkerExitEvent, clientVars
  <2>2. CASE listening
    <3> closeServer
      BY <1>6, <2>2 DEF WorkerExitEvent
    <3>1. \A q \in Req :
            \/ call'[q] = call[q] /\ got'[q] = got[q]
            \/ call[q] = "waiting" /\ call'[q] = "failed" /\ got'[q] = got[q]
            \/ /\ q \in pendingCloseRequests
               /\ call[q] = "waiting" /\ call'[q] = "done" /\ got'[q] = q
      BY DEF closeServer
    <3>2. \A q \in Req : q \in pendingCloseRequests /\ call[q] = "waiting"
                         => q \in Promise!Made \ Promise!Taken
      BY OwnAnswerFresh DEF CallInv, KindOf
    <3>3. \A q \in Req : Promise!Unchanged(q) \/ Promise!Fail(q) \/ Promise!Answer(q)
      BY <3>1, <3>2 DEF Promise!Unchanged, Promise!Fail, Promise!Answer
    <3>4. \A q \in Req : Promise!Answer(q) => got'[q] = q
      BY <3>1 DEF Promise!Answer
    <3> QED
      BY <1>t, <3>3, <3>4 DEF Promise!Next
  <2> QED
    BY <2>1, <2>2
<1>7. ASSUME NEW r \in Req,
             \/ HandleWork(r) \/ HandleClose(r) \/ Finish(r)
             \/ ConnectionLost(r) \/ WorkerReplies(r)
      PROVE  UNCHANGED <<call, got>>
  BY <1>7 DEF HandleWork, HandleClose, Finish, ConnectionLost, WorkerReplies, clientVars
<1>8. CASE \/ TimeoutExpires \/ ServerClosed \/ WorkerTakesRequest
           \/ WorkerTakesClose \/ WorkerExits \/ WorkerCrashes \/ UNCHANGED vars
  BY <1>8 DEF TimeoutExpires, ServerClosed, WorkerTakesRequest, WorkerTakesClose,
              WorkerExits, WorkerCrashes, clientVars, vars
<1> QED
  BY <1>1, <1>2, <1>3, <1>4, <1>5, <1>6, <1>7, <1>8
  DEF Next, Client, MainThread, WorkerThread, Handle

(***************************************************************************)
(* The bridge keeps its promise: whatever overlaps, crashes, is abandoned  *)
(* or shuts down, no result is handed to two callers (delegate.ts:48-59,   *)
(* server.ts:157-171).                                                     *)
(***************************************************************************)
THEOREM PromiseKept == Spec => KeepsPromise
<1>1. Init => CallInv
  BY DEF Init, CallInv, Sent, OneSensor, KindOf, Delivered
<1>2. Init => Promise!Init
  BY DEF Init, Promise!Init
<1>3. IInv => TypeOK /\ PortInv
  BY DEF IInv
<1>4. Spec => []CallInv
  <2>1. (TypeOK /\ PortInv) /\ (TypeOK /\ PortInv)' /\ CallInv /\ [Next]_vars => CallInv'
    BY CallStep
  <2> QED
    BY <1>1, <1>3, <2>1, Invariance, PTL DEF Spec
<1>5. (TypeOK /\ PortInv) /\ (TypeOK /\ PortInv)' /\ CallInv /\ [Next]_vars
        => [Promise!Next]_<<call, got>>
  BY PromiseStep
<1> QED
  BY <1>2, <1>3, <1>4, <1>5, Invariance, PTL DEF Spec, KeepsPromise, Promise!Spec
=============================================================================
