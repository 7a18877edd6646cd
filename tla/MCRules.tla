------------------------------ MODULE MCRules ------------------------------
(***************************************************************************)
(* The data-flow rules and the complexity metric on small files.  `turn`   *)
(* is the analysis that works, the others have not begun:                  *)
(*   "live"        lva() on given references (LiveVariables)               *)
(*   "dead"        the whole of rule S1854 (DeadStores)                    *)
(*   "redundant"   reachingDefinitions() and S4165 (RedundantAssignments)  *)
(*   "complexity"  rule S3776 (CognitiveComplexity)                        *)
(***************************************************************************)
EXTENDS DeadStores, RedundantAssignments, CognitiveComplexity

CONSTANTS MaxWork, x, y, a, b

VARIABLE turn

(* if/else; a while loop; an endless loop around an if; `&&` in a file     *)
(* with a function of one segment.                                         *)
IfElse == << <<2, 3>>, <<4>>, <<4>>, <<>> >>
AndIn == << <<2, 3>>, <<3>>, <<>>, <<>> >>
Graphs == {
  IfElse,
  << <<2>>, <<3, 4>>, <<2>>, <<>> >>,
  << <<2>>, <<3, 4>>, <<4>>, <<2>> >>,
  AndIn }

(* x ? y : z; try/finally with a call in the try block; a function that    *)
(* returns before its end, and code after it.                              *)
Files == {
  [next |-> << <<2, 3>>, <<4>>, <<4>>, <<>> >>,
   home |-> <<1, 1, 1, 1>>,
   plan |-> <<PathStart(1, {1}), SegmentsStart("fork", {2}),
              SegmentsStart("other", {3}), SegmentsStart("join", {4}), PathEnd>>],
  [next |-> << <<2, 3>>, <<4>>, <<>>, <<>> >>,
   home |-> <<1, 1, 1, 1>>,
   plan |-> <<PathStart(1, {1}), SegmentsStart("statement", {2, 3}),
              SegmentsStart("statement", {4}), PathEnd>>],
  [next |-> << <<3>>, <<>>, <<4>>, <<>> >>,
   home |-> <<1, 2, 1, 1>>,
   plan |-> <<PathStart(1, {1}), PathStart(2, {2}),
              SegmentsStart("statement", {}), PathEnd,
              SegmentsStart("statement", {3}), SegmentsStart("on", {4}), PathEnd>>] }

Ascending(S) ==
  [i \in 1 .. Cardinality(S) |-> CHOOSE s \in S : Cardinality({t \in S : t <= s}) = i]

Prev(g) ==
  [s \in Segments |-> Ascending({t \in Segments : s \in Elements(g[t])})]

MCRef(v, read, write, e, exempt) ==
  [id |-> IF ~ write THEN 0 ELSE IF v = x THEN 1 ELSE 2,
   var |-> v, read |-> read, write |-> write, expr |-> e, partial |-> FALSE,
   exempt |-> exempt]
Read(v) == MCRef(v, TRUE, FALSE, Opaque, FALSE)
Store(v, e) == MCRef(v, FALSE, TRUE, e, FALSE)
Skipped(v, e) == MCRef(v, FALSE, TRUE, e, TRUE)
Plus(v, e) == MCRef(v, TRUE, TRUE, e, TRUE)
ElementOf(v, e) == [Store(v, e) EXCEPT !.partial = TRUE]

LiveRefs == { <<>>, <<Read(x)>>, <<Store(x, a)>>, <<Plus(x, a)>>,
              <<Read(x), Store(x, a)>>, <<Store(x, a), Read(x)>> }
DefRefs == { <<>>, <<Store(x, b), Store(y, x)>>,
             <<Store(x, y), Store(y, a)>>, <<Plus(x, Opaque), Skipped(y, b)>>,
             <<ElementOf(y, b)>> }

(* No other code writes a variable; other code paths write y; y is stored  *)
(* to inside assignments.                                                  *)
Elsewhere == { <<{}, {}>>, <<{y}, {}>>, <<{}, {y}>> }

LiveIdle == LiveInit /\ at = <<1, 1>> /\ holds = [v \in Variables |-> NoStore]
VisitIdle ==
  /\ codePathOf = [s \in Segments |-> 1]
  /\ plan = <<>> /\ codePathStack = <<>> /\ readVariables = {} /\ events = 0
  /\ variableUsages = [v \in Variables |-> {}] /\ trace = [s \in Segments |-> <<>>]
  /\ nested = {} /\ frames = <<>> /\ stored = [v \in Variables |-> 0]
DefIdle == DefInit /\ point = <<1, 1>> /\ env = [v \in Variables |-> Undefined]

MCInit ==
  /\ turn \in {"live", "dead", "redundant", "complexity"}
  /\ \/ /\ turn = "live"
        /\ nextSegments \in Graphs
        /\ references \in [Segments -> LiveRefs]
        /\ VisitIdle
     \/ /\ turn = "dead"
        /\ \E f \in Files : /\ nextSegments = f.next /\ codePathOf = f.home
                             /\ plan = f.plan
        /\ PlanOK
        /\ VisitInit
     \/ /\ turn = "redundant"
        /\ nextSegments \in Graphs \ {AndIn}
        /\ references \in [Segments -> DefRefs]
        /\ VisitIdle
     \/ /\ turn = "complexity"
        /\ nextSegments = [s \in Segments |-> <<>>]
        /\ references = [s \in Segments |-> <<>>]
        /\ VisitIdle
  /\ \E code \in IF turn = "redundant" /\ nextSegments = IfElse
                  THEN Elsewhere ELSE {<<{}, {}>>} :
       captured = code[1] /\ late = code[2]
  /\ prevSegments = Prev(nextSegments)
  /\ LiveIdle /\ DefIdle /\ Init

(* Reads of y and assignments to it, inside assignments to x or not.  The  *)
(* last reference of a file is a read of y or an assignment to it.         *)
MCVisit ==
  \/ StartCodePath \/ Fork \/ OtherBranch \/ JoinBranches \/ GoesOn \/ NextStatement
  \/ EndCodePath \/ ExitAssignment
  \/ Identifier(y, FALSE)
  \/ events + 1 < MaxEvents /\ Identifier(y, TRUE)
  \/ events + 1 < MaxEvents /\ EnterAssignment(x, FALSE, TRUE)
  \/ \E compound \in BOOLEAN : EnterAssignment(y, compound, FALSE)

rdOnly == <<captured, late, defVars, point, env>>

LiveTurn ==
  /\ turn = "live" /\ LVNext
  /\ UNCHANGED <<codePathOf, visitVars, execVars, rdOnly, vars>>

DeadTurn ==
  /\ turn = "dead"
  /\ \/ MCVisit /\ UNCHANGED <<liveVars, execVars>>
     \/ Visited /\ Propagate /\ UNCHANGED <<references, visitVars, execVars>>
     \/ Execute /\ UNCHANGED <<references, visitVars, liveVars>>
  /\ UNCHANGED <<nextSegments, prevSegments, codePathOf, runVars, rdOnly, vars>>

RedundantTurn ==
  /\ turn = "redundant" /\ RDNext
  /\ Len(defWork') <= MaxWork
  /\ UNCHANGED <<liveVars, runVars, codePathOf, visitVars, execVars, vars>>

ComplexityTurn ==
  /\ turn = "complexity" /\ Next
  /\ UNCHANGED <<lvVars, codePathOf, visitVars, execVars, rdOnly>>

MCNext ==
  /\ LiveTurn \/ DeadTurn \/ RedundantTurn \/ ComplexityTurn
  /\ UNCHANGED turn

allVars == <<turn, lvVars, codePathOf, visitVars, execVars, rdOnly, vars>>

(* An analysis that has begun runs to its end: while it has something on   *)
(* its worklist no other step is possible.                                 *)
AnalysisStep ==
  /\ \/ turn = "live" /\ liveWork # <<>> /\ LiveTurn
     \/ turn = "dead" /\ Visited /\ liveWork # <<>> /\ DeadTurn
     \/ turn = "redundant" /\ ~ Analysed /\ RedundantTurn
  /\ UNCHANGED turn

MCSpec == MCInit /\ [][MCNext]_allVars /\ WF_allVars(AnalysisStep)
=============================================================================
