------------------------ MODULE RedundantAssignments ------------------------
(***************************************************************************)
(* Rule S4165: with the reaching definitions of a file, the assignments it *)
(* reports as redundant.                                                   *)
(***************************************************************************)
EXTENDS ReachingDefinitions, FiniteSets

ASSUME LiteralsAssumption == IsFiniteSet(Literals)

(* shouldReport(): compound assignments, x++, default values, parameters,  *)
(* variables declared without a value or named _... are skipped, and those *)
(* that other code paths use.                                              *)
shouldReport(r) == ~ r.exempt /\ r.var \notin captured

(* The map that checkSegment() has before the reference at position k: it  *)
(* starts with `in`, and the writes that are skipped do not change it.     *)
assignedValuesMap(s) ==
  LET map[k \in 1 .. Len(references[s])] ==
        IF k = 1 THEN states[s][1]
        ELSE LET r == references[s][k - 1]
             IN  IF r.write /\ shouldReport(r)
                 THEN updateProgramState(r, map[k - 1])
                 ELSE map[k - 1]
  IN  map

isWrittenOnlyOnce(v) ==
  LET writes(s) == {k \in DOMAIN references[s] :
                      references[s][k].write /\ references[s][k].var = v}
  IN  Cardinality(UNION {{<<s, k>> : k \in writes(s)} : s \in Segments}) = 1

(* Mutant: the number of values is not considered. *)
SomeLiterals(values) == values.type = "assigned"

SingleLiteral(values) == values.type = "assigned" /\ Cardinality(values.literals) = 1

(* checkSegment() and checkRedundantAssignement() report the reference.    *)
RedundantAssignment(s, k) ==
  LET r == references[s][k]
      map == assignedValuesMap(s)[k]
      rhsValues == resolveAssignedValues(r.var, r.expr, map)
  IN  /\ r.write
      /\ shouldReport(r)
      /\ SingleLiteral(map[r.var])
      /\ SingleLiteral(rhsValues)
      /\ map[r.var] = rhsValues
      /\ ~ isWrittenOnlyOnce(r.var)

(* A write that is skipped precedes in the same segment.                   *)
SkippedBefore(s, k) ==
  \E j \in 1 .. k - 1 :
    LET r == references[s][j]
    IN  r.write /\ r.var \in Tracked /\ ~ shouldReport(r)

(* "... already holds the assigned value along all execution paths": when  *)
(* the execution comes to an assignment that is reported the variable has  *)
(* the value it is given, or was never assigned on this path.  Exceptions: *)
(* a variable that is not tracked, though only because one of its values   *)
(* is copied from a variable that other code may write (the rule looks for *)
(* such code only for the variable that is assigned), and a skipped write  *)
(* before in the same segment, which checkSegment() does not see.          *)
RedundantIndeed ==
  Analysed /\ point[2] \in DOMAIN references[point[1]] =>
    LET r == references[point[1]][point[2]]
    IN  /\ r.var \in Tracked
        /\ ~ SkippedBefore(point[1], point[2])
        /\ RedundantAssignment(point[1], point[2])
        => env[r.var] = Undefined \/ Undefined \in Assigned(r) \/ Assigned(r) = {env[r.var]}
=============================================================================
