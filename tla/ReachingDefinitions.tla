------------------------ MODULE ReachingDefinitions ------------------------
(***************************************************************************)
(* Reaching definitions (rules/helpers/reaching-definitions.ts) over the   *)
(* segments of a code path, and an execution of that code path: once the   *)
(* analysis has ended, a run walks through the references along the edges  *)
(* with the values that the variables really have.  Variables that other   *)
(* code paths use may change under its feet.                               *)
(*                                                                         *)
(* A program state maps every variable to its values: none are recorded,   *)
(* some literals, or unknownValue.                                         *)
(***************************************************************************)
EXTENDS CodePaths

CONSTANTS
  Undefined,  \* run: the variable was not assigned
  Computed    \* run: a value that is no literal of the program

ASSUME ValuesAssumption ==
  /\ Undefined \notin Literals
  /\ Computed \notin Literals
  /\ Undefined # Computed

VARIABLES
  captured,  \* variables with usages in several code paths
  late,      \* variables stored to inside another assignment: the reference
             \* is collected when the outermost assignment is left
  defWork,   \* worklist of reachingDefinitions(): a stack of segments
  defOut,    \* ReachingDefinitions.out
  current,   \* the segment whose propagate() is in progress, or 0
  states,    \* for each segment the program states of its last propagate():
             \* before each reference, and after the last one
  point,     \* the run: a segment and a position in its references
  env        \* the run: the value of each variable

defVars == <<defWork, defOut, current, states>>
rdVars == <<nextSegments, prevSegments, references, captured, late,
            defWork, defOut, current, states, point, env>>

NoValues == [type |-> "none", literals |-> {}]
unknownValue == [type |-> "unknown", literals |-> {}]

assignedValues(L) == [type |-> "assigned", literals |-> L]

Values == {NoValues, unknownValue} \cup [type: {"assigned"}, literals: SUBSET Literals]
State == [Variables -> Values]
RunValues == Literals \cup {Undefined, Computed}

EmptyState == [v \in Variables |-> NoValues]

DefInit ==
  /\ defWork = [i \in 1 .. N |-> i]
  /\ defOut = [s \in Segments |-> EmptyState]
  /\ current = 0
  /\ states = [s \in Segments |-> <<>>]

RDInit ==
  /\ GraphOK
  /\ ReferencesOK
  /\ captured \subseteq Variables /\ late \subseteq Variables
  /\ DefInit
  /\ point \in {s \in Segments : prevSegments[s] = <<>>} \X {1}
  /\ env = [v \in Variables |-> Undefined]

-----------------------------------------------------------------------------
(* Mutant: a value that is unknown on one way is ignored. *)
JoinKnown(s) ==
  [v \in Variables |->
    LET all == {defOut[p][v] : p \in Elements(prevSegments[s])} \ {NoValues}
    IN  IF all = {} THEN NoValues ELSE assignedValues(UNION {x.literals : x \in all})]

(* join() of the `out` of all previous segments.                           *)
join(s) ==
  [v \in Variables |->
    LET all == {defOut[p][v] : p \in Elements(prevSegments[s])} \ {NoValues}
    IN  CASE all = {} -> NoValues
          [] unknownValue \in all -> unknownValue
          [] OTHER -> assignedValues(UNION {x.literals : x \in all})]

(* The values of a right-hand side.  A variable that is copied but has no  *)
(* values yet is unknown, as is one copied to itself.                      *)
resolveAssignedValues(v, expr, state) ==
  IF expr \in Literals THEN assignedValues({expr})
  ELSE IF expr \in Variables /\ expr # v /\ state[expr] # NoValues THEN state[expr]
  ELSE unknownValue

updateProgramState(r, state) ==
  IF r.write
  THEN [state EXCEPT ![r.var] = resolveAssignedValues(r.var, r.expr, state)]
  ELSE state

(* propagate() of the segment on top of the worklist, in three parts: the  *)
(* join, the references one by one, and the comparison with `out`.         *)
Join ==
  /\ current = 0
  /\ defWork # <<>>
  /\ current' = defWork[Len(defWork)]
  /\ defWork' = SubSeq(defWork, 1, Len(defWork) - 1)
  /\ states' = [states EXCEPT ![current'] = <<join(current')>>]
  /\ UNCHANGED defOut

Update ==
  /\ current # 0
  /\ LET done == states[current]
     IN  /\ Len(done) <= Len(references[current])
         /\ states' = [states EXCEPT ![current] =
              Append(done, updateProgramState(references[current][Len(done)],
                                              done[Len(done)]))]
  /\ UNCHANGED <<defWork, defOut, current>>

(* Mutant: the maps are compared by identity. *)
OtherObject(s, newOut) == TRUE

outHasChanged(s, newOut) == newOut # defOut[s]

(* Mutant: the next segments are not pushed. *)
WorkDropped(s) == defWork

WorkAfter(s) == defWork \o nextSegments[s]

Compare ==
  /\ current # 0
  /\ Len(states[current]) = Len(references[current]) + 1
  /\ LET newOut == states[current][Len(states[current])]
     IN  IF outHasChanged(current, newOut)
         THEN /\ defOut' = [defOut EXCEPT ![current] = newOut]
              /\ defWork' = WorkAfter(current)
         ELSE UNCHANGED <<defOut, defWork>>
  /\ current' = 0
  /\ UNCHANGED states

Analyse == Join \/ Update \/ Compare

Analysed == defWork = <<>> /\ current = 0

-----------------------------------------------------------------------------
(* What a store really assigns: a literal, the value of another variable,  *)
(* or something computed; x += 1 computes, though its writeExpr is 1, and  *)
(* a for-of loop over s assigns what s contains, though its writeExpr is s.*)
Assigned(r) ==
  IF r.read \/ r.partial \/ r.expr = Opaque THEN RunValues \ {Undefined}
  ELSE IF r.expr \in Literals THEN {r.expr}
  ELSE {env[r.expr]}

EvaluateRef ==
  /\ Analysed
  /\ point[2] \in DOMAIN references[point[1]]
  /\ LET r == references[point[1]][point[2]]
     IN  IF r.write
         THEN \E x \in Assigned(r) : env' = [env EXCEPT ![r.var] = x]
         ELSE UNCHANGED env
  /\ point' = <<point[1], point[2] + 1>>

FollowEdge ==
  /\ Analysed
  /\ point[2] \notin DOMAIN references[point[1]]
  /\ \E t \in Elements(nextSegments[point[1]]) : point' = <<t, 1>>
  /\ UNCHANGED env

(* The code path that runs is interrupted (a call, an await), and other    *)
(* code writes a variable.  One that is stored to inside an assignment is  *)
(* written where that store is evaluated, or is not: its reference comes   *)
(* later, and always.                                                      *)
WrittenElsewhere ==
  /\ Analysed
  /\ \E v \in captured \cup late, x \in RunValues : env' = [env EXCEPT ![v] = x]
  /\ UNCHANGED point

RDNext ==
  /\ \/ Analyse /\ UNCHANGED <<point, env>>
     \/ (EvaluateRef \/ FollowEdge \/ WrittenElsewhere) /\ UNCHANGED defVars
  /\ UNCHANGED <<nextSegments, prevSegments, references, captured, late>>

RDSpec == RDInit /\ [][RDNext]_rdVars

RDFairSpec == RDSpec /\ WF_rdVars(Analyse /\ RDNext)

-----------------------------------------------------------------------------
RDTypeOK ==
  /\ GraphOK
  /\ ReferencesOK
  /\ captured \subseteq Variables /\ late \subseteq Variables
  /\ defWork \in Seq(Segments)
  /\ defOut \in [Segments -> State]
  /\ current \in Segments \cup {0}
  /\ states \in [Segments -> Seq(State)]
  /\ point \in Segments \X (Nat \ {0})
  /\ env \in [Variables -> RunValues]

(* The analysis takes the store for what it is: it takes x += 1 for x = 1, *)
(* and x in `for (x of s)` for a copy of s.                                *)
ReadRight(r) == r.expr = Opaque \/ (~ r.read /\ ~ r.partial)

(* The values of these variables come from stores in this code path, at    *)
(* the places of their references and read right, and they are copied only *)
(* from variables of this kind: updateProgramState() looks at nothing of   *)
(* the variable it copies but its state.                                   *)
SelfContained(V) ==
  /\ V \cap (captured \cup late) = {}
  /\ \A s \in Segments : \A r \in Elements(references[s]) :
       r.write /\ r.var \in V => ReadRight(r) /\ (r.expr \in Variables => r.expr \in V)

Tracked == UNION {V \in SUBSET Variables : SelfContained(V)}

(* When the worklist is empty the states solve the equations: each segment *)
(* starts with the join of its predecessors, and its `out` is its last     *)
(* state, although `in` is cleared and rebuilt at every visit and a copied *)
(* variable may have been unknown the first time.                          *)
DefinitionsSolved ==
  Analysed =>
    \A s \in Segments :
      /\ Len(states[s]) = Len(references[s]) + 1
      /\ states[s][1] = join(s)
      /\ defOut[s] = states[s][Len(states[s])]

(* Wherever the execution is, the state of the analysis covers what the    *)
(* tracked variables hold: a single literal recorded for a variable means  *)
(* that it has this value, or was never assigned on this path.  The others *)
(* may hold anything while the state has one literal.                      *)
Covers(state) ==
  \A v \in Tracked :
    \/ state[v].type = "unknown"
    \/ env[v] = Undefined
    \/ state[v].type = "assigned" /\ env[v] \in state[v].literals

ValuesCovered == Analysed => Covers(states[point[1]][point[2]])

(* No variable is copied: its values do not depend on those of another.    *)
CopyFree ==
  \A s \in Segments : \A r \in Elements(references[s]) : r.expr \notin Variables

(* Once begun, the loop of reachingDefinitions() ends for code without     *)
(* copies ...                                                              *)
EndsWithoutCopies == (CopyFree /\ current # 0) ~> Analysed

(* ... and for any code, circular assignments included.                    *)
DefinitionsEnd == <>Analysed
=============================================================================
