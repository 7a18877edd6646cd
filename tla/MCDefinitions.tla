--------------------------- MODULE MCDefinitions ---------------------------
(***************************************************************************)
(* reachingDefinitions() on one function with circular assignments:        *)
(*                                                                         *)
(*   while (c) {                                                           *)
(*     if (d) {                                                            *)
(*       do { t = y; y = z; z = t; } while (e);                            *)
(*       return;                                                           *)
(*     }                                                                   *)
(*     z = 2;                                                              *)
(*   }                                                                     *)
(*                                                                         *)
(* Segments: 1 before the loop, 2 its test, 3 the test of the `if`, 4 the  *)
(* body of the inner loop, 5 its test, 6 the return, 7 the assignment, 8   *)
(* after the loop.                                                         *)
(***************************************************************************)
EXTENDS ReachingDefinitions

CONSTANTS t, y, z, two

MCStore(v, e) ==
  [id |-> 0, var |-> v, read |-> FALSE, write |-> TRUE, expr |-> e,
   partial |-> FALSE, exempt |-> FALSE]

MCInit ==
  /\ nextSegments = << <<2>>, <<3, 8>>, <<4, 7>>, <<5>>, <<4, 6>>, <<>>, <<2>>, <<>> >>
  /\ prevSegments = << <<>>, <<1, 7>>, <<2>>, <<3, 5>>, <<4>>, <<5>>, <<3>>, <<2>> >>
  /\ references =
       [s \in Segments |->
         CASE s = 4 -> <<MCStore(t, y), MCStore(y, z), MCStore(z, t)>>
           [] s = 7 -> <<MCStore(z, two)>>
           [] OTHER -> <<>>]
  /\ captured = {} /\ late = {}
  /\ DefInit
  /\ point = <<1, 1>>
  /\ env = [v \in Variables |-> Undefined]

(* The loop runs as long as it has something to do.                        *)
MCSpec == MCInit /\ [][RDNext]_rdVars /\ WF_rdVars(RDNext)
=============================================================================
