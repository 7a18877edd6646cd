------------------------- MODULE MCProjectAnalysis -------------------------
(* Two analyses of small projects on one worker.                           *)
EXTENDS ProjectAnalysis

CONSTANTS f1, f2, t1, t2, d1, d2

(* Programs with no file, one, or both; one tsconfig may import what the   *)
(* other lists.  References: none, to the other tsconfig, to itself.       *)
MCInit ==
  /\ driver \in {[d \in Analyses |-> IF d = d1 THEN p[1] ELSE p[2]] :
                 p \in {<<"program", "java">>, <<"program", "watch">>}}
  /\ \E F \in {{f1}, {}} : input = [d \in Analyses |-> IF d = d1 THEN Files ELSE F]
  /\ \E ts \in {<<>>, <<t1>>, <<t1, t2>>} : found = [d \in Analyses |-> ts]
  /\ \E a, b \in {<<>>, <<f1>>, <<f2, f1>>} :
       sourceFiles = [t \in Configs |->
         CASE t = t1 -> a [] t = t2 -> b [] t = Generated -> <<f1, f2>>]
  /\ rootNames = [t \in Configs |->
       IF sourceFiles[t] = <<f2, f1>> THEN <<f2>> ELSE sourceFiles[t]]
  /\ \E p \in {<<<<>>, <<>>>>, <<<<t2>>, <<>>>>, <<<<t2, t2>>, <<t2>>>>, <<<<t2>>, <<t1>>>>} :
       refs = [t \in Configs |->
         CASE t = t1 -> p[1] [] t = t2 -> p[2] [] t = Generated -> <<>>]
  /\ broken \in {{}, {t2}}
  /\ Idle

MCSpec == MCInit /\ [][Next]_vars /\ \A d \in Analyses : WF_vars(Step(d))
=============================================================================
