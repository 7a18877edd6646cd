---------------------------- MODULE BridgeCalls ----------------------------
(***************************************************************************)
(* What the bridge promises the Java plugin, with no server, port or       *)
(* thread in sight: calls are made, and each one is answered or fails,     *)
(* once.  An answer is the result of some call that was made, and no       *)
(* result is ever handed to two callers.                                   *)
(*                                                                         *)
(* That an answer is the caller's own result is NOT promised: after a call *)
(* was abandoned the next one may be given its result.                     *)
(***************************************************************************)
CONSTANTS Calls,      \* the calls that can be made
          NoResult

VARIABLES call, got

States == {"idle", "waiting", "done", "failed"}

Init ==
  /\ call = [r \in Calls |-> "idle"]
  /\ got = [r \in Calls |-> NoResult]

Made  == {r \in Calls : call[r] # "idle"}
Taken == {got[r] : r \in {q \in Calls : call[q] = "done"}}

Unchanged(r) == call'[r] = call[r] /\ got'[r] = got[r]

Make(r) == /\ call[r] = "idle" /\ call'[r] \in {"waiting", "failed"}
           /\ got'[r] = got[r]

Fail(r) == /\ call[r] = "waiting" /\ call'[r] = "failed"
           /\ got'[r] = got[r]

Answer(r) == /\ call[r] = "waiting" /\ call'[r] = "done"
             /\ got'[r] \in Made \ Taken

(* One step may settle several calls, each of them with its own result. *)
Next ==
  /\ call' \in [Calls -> States]
  /\ got' \in [Calls -> Calls \cup {NoResult}]
  /\ \A r \in Calls : Unchanged(r) \/ Make(r) \/ Fail(r) \/ Answer(r)
  /\ \A r, q \in Calls : Answer(r) /\ Answer(q) /\ got'[r] = got'[q] => r = q

Spec == Init /\ [][Next]_<<call, got>>
=============================================================================
