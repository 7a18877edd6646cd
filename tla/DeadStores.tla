----------------------------- MODULE DeadStores -----------------------------
(***************************************************************************)
(* Rule S1854: the visitor that collects the references of each code path  *)
(* segment, the live variable analysis, the stores it reports, and an      *)
(* execution of the visited code to compare them with.                     *)
(*                                                                         *)
(* The references inside an assignment are kept back until ESLint leaves   *)
(* it, and then go to the segments that are current at that time.  The     *)
(* execution follows `trace`: what is really evaluated in each segment.    *)
(***************************************************************************)
EXTENDS LiveVariables, FiniteSets

CONSTANTS
  CodePathIds,  \* code paths: the program and its functions
  MaxEvents     \* bound: assignments and references in the file

ASSUME MaxEventsAssumption == MaxEvents \in Nat

VARIABLES
  codePathOf,      \* the code path that each segment is in
  plan,            \* code path events still to come, in the order of ESLint
  codePathStack,   \* for each open code path its id, assignmentStack,
                   \*   currentCodePathSegments and, for each open branch of
                   \*   an expression, the ends of the branches before it
  readVariables,
  variableUsages,  \* variable -> ids of the code paths that use it
  events,          \* number of assignments and references, and last id used
  trace,           \* what is evaluated in each segment, in order
  nested,          \* history: variables stored to inside another assignment
  frames,          \* execution: where the calls in progress are
  stored           \* execution: the store each variable holds, or 0

visitVars == <<plan, codePathStack, readVariables, variableUsages, events, trace,
               nested>>
execVars == <<frames, stored>>
dsVars == <<nextSegments, prevSegments, codePathOf, references, liveWork, liveIn,
            liveOut, plan, codePathStack, readVariables, variableUsages, events,
            trace, nested, frames, stored>>

(* Code path events: a code path starts with its first segments, others    *)
(* take over (several at once in a finally block, none in code that cannot *)
(* be reached), it ends.  Within an expression the segments of a branch    *)
(* of ?: or && start with a "fork", those of its "other" branch and of the *)
(* "join" follow; evaluation may also go "on" in new segments.  Between    *)
(* expressions they are those of a "statement".                            *)
PathStart(id, S) == [type |-> "start", id |-> id, segments |-> S]
SegmentsStart(type, S) == [type |-> type, segments |-> S]
PathEnd == [type |-> "end", segments |-> {}]

PlanEvent ==
  {PathStart(id, S) : id \in CodePathIds, S \in (SUBSET Segments) \ {{}}}
  \cup {SegmentsStart(type, S) : type \in {"fork", "other", "join", "on", "statement"},
                                 S \in SUBSET Segments}
  \cup {PathEnd}

(* The code path events p are properly nested, in `depth` open code paths: *)
(* open[i] of them are open after the first i events.                      *)
Brackets(p, open, depth) ==
  /\ open[0] = depth /\ open[Len(p)] = 0
  /\ \A i \in 1 .. Len(p) :
       CASE p[i].type = "start" -> open[i] = open[i - 1] + 1
         [] p[i].type = "end"   -> open[i - 1] = open[i] + 1
         [] OTHER               -> open[i] = open[i - 1] /\ open[i] > 0

(* One code path, the program's, encloses the others.  A segment starts    *)
(* once, and edges do not leave a code path.                               *)
PlanOK ==
  /\ codePathOf \in [Segments -> CodePathIds]
  /\ \A s \in Segments : \A t \in Elements(nextSegments[s]) :
       codePathOf[s] = codePathOf[t]
  /\ plan \in Seq(PlanEvent) /\ plan # <<>>
  /\ \A i, j \in DOMAIN plan : i # j => plan[i].segments \cap plan[j].segments = {}
  /\ \A i \in DOMAIN plan : plan[i].type = "start" =>
       /\ \A s \in plan[i].segments : codePathOf[s] = plan[i].id
       /\ plan[i].id = codePathOf[1] <=> i = 1
  /\ \E open \in [0 .. Len(plan) -> 0 .. Len(plan)] :
       /\ Brackets(plan, open, 0)
       /\ \A i \in 1 .. Len(plan) - 1 : open[i] > 0

Front(stack) == SubSeq(stack, 1, Len(stack) - 1)

Context == codePathStack[Len(codePathStack)]
assignmentStack == Context.assignments
SetContext(c) == codePathStack' = [codePathStack EXCEPT ![Len(codePathStack)] = c]

(* The variables are declared, without initial values, at the start of the *)
(* outermost code path: checkIdentifierUsage() finds no reference there.   *)
VisitInit ==
  /\ references = [s \in Segments |-> <<>>]
  /\ LiveInit
  /\ codePathStack = <<>>
  /\ readVariables = {}
  /\ variableUsages = [v \in Variables |-> {codePathOf[1]}]
  /\ events = 0
  /\ trace = [s \in Segments |-> <<>>]
  /\ nested = {}
  /\ frames = << <<1, 1>> >>
  /\ stored = [v \in Variables |-> 0]

-----------------------------------------------------------------------------
(* onCodePathStart and onCodePathSegmentStart.                             *)
StartCodePath ==
  /\ plan # <<>> /\ Head(plan).type = "start"
  /\ codePathStack' = Append(codePathStack,
       [id |-> Head(plan).id, assignments |-> <<>>, forks |-> <<>>,
        segments |-> Head(plan).segments])
  /\ plan' = Tail(plan)
  /\ UNCHANGED <<references, readVariables, variableUsages, events, trace, nested>>

(* onCodePathSegmentEnd and onCodePathSegmentStart.  An expression can be  *)
(* reached as a whole or not at all.                                       *)
NextSegments(type, forks) ==
  /\ plan # <<>> /\ Head(plan).type = type
  /\ \A s \in Head(plan).segments : codePathOf[s] = Context.id
  /\ type # "statement" => (Head(plan).segments = {} <=> Context.segments = {})
  /\ SetContext([Context EXCEPT !.segments = Head(plan).segments, !.forks = forks])
  /\ plan' = Tail(plan)
  /\ UNCHANGED <<references, readVariables, variableUsages, events, trace, nested>>

LeadTo(S, T) == \A s \in S : \E t \in T : t \in Elements(nextSegments[s])

InExpression == LeadTo(Context.segments, Head(plan).segments)

(* A branch is left: no assignment goes on that was opened in it.          *)
LeavesBranch ==
  /\ codePathStack # <<>> /\ Context.forks # <<>>
  /\ \A i \in DOMAIN assignmentStack : assignmentStack[i].opened < Len(Context.forks)

Fork == NextSegments("fork", Append(Context.forks, {})) /\ InExpression

OtherBranch ==
  /\ LeavesBranch
  /\ NextSegments("other",
       Append(Front(Context.forks), Top(Context.forks) \cup Context.segments))

JoinBranches ==
  /\ LeavesBranch
  /\ NextSegments("join", Front(Context.forks))
  /\ InExpression /\ LeadTo(Top(Context.forks), Head(plan).segments)

GoesOn == NextSegments("on", Context.forks) /\ InExpression

NextStatement ==
  /\ NextSegments("statement", <<>>)
  /\ assignmentStack = <<>> /\ Context.forks = <<>>

(* onCodePathEnd: the segments of the enclosing code path are current.     *)
EndCodePath ==
  /\ plan # <<>> /\ Head(plan).type = "end"
  /\ assignmentStack = <<>> /\ Context.forks = <<>>
  /\ codePathStack' = Front(codePathStack)
  /\ plan' = Tail(plan)
  /\ UNCHANGED <<references, readVariables, variableUsages, events, trace, nested>>

(* What is evaluated now, in the current segments: a read, or the store of *)
(* a reference; nothing if the code cannot be reached.                     *)
Happens(es) ==
  trace' = [s \in Segments |->
    IF s \in Context.segments THEN trace[s] \o es ELSE trace[s]]

ReadOf(r) == [var |-> r.var, id |-> r.id, store |-> FALSE]
StoreOf(r) == [var |-> r.var, id |-> r.id, store |-> TRUE]

(* updateReadVariables() and updateVariableUsages().                       *)
Used(r) ==
  /\ readVariables' = IF r.read THEN readVariables \cup {r.var} ELSE readVariables
  /\ variableUsages' = [variableUsages EXCEPT ![r.var] = @ \cup {Context.id}]

NewRef(v, read, write, exempt) ==
  [id |-> events + 1, var |-> v, read |-> read, write |-> write,
   expr |-> Opaque, partial |-> FALSE, exempt |-> exempt]

(* processReference(): the innermost open assignment keeps the references, *)
(* and if there is none they go to the current segments.                   *)
Process(refs, stack) ==
  IF stack = <<>>
  THEN /\ references' = [s \in Segments |->
            IF s \in Context.segments THEN references[s] \o refs ELSE references[s]]
       /\ SetContext([Context EXCEPT !.assignments = <<>>])
  ELSE /\ SetContext([Context EXCEPT !.assignments =
            [stack EXCEPT ![Len(stack)].rhs = @ \o refs]])
       /\ UNCHANGED references

CanVisit == codePathStack # <<>> /\ events < MaxEvents

(* Identifier: a variable is read, or updated by ++ or --.                 *)
Identifier(v, update) ==
  LET r == NewRef(v, TRUE, update, TRUE)
  IN  /\ CanVisit
      /\ events' = events + 1
      /\ Process(<<r>>, assignmentStack)
      /\ Happens(IF update THEN <<ReadOf(r), StoreOf(r)>> ELSE <<ReadOf(r)>>)
      /\ Used(r)
      /\ nested' = IF update /\ assignmentStack # <<>> THEN nested \cup {v} ELSE nested
      /\ UNCHANGED plan

(* pushAssignmentContext(), and the identifier on the left-hand side; a    *)
(* compound assignment reads it now.                                       *)
EnterAssignment(v, compound, exempt) ==
  LET r == NewRef(v, compound, TRUE, exempt)
  IN  /\ CanVisit
      /\ events' = events + 1
      /\ SetContext([Context EXCEPT !.assignments =
           Append(@, [lhs |-> <<r>>, rhs |-> <<>>, opened |-> Len(Context.forks)])])
      /\ Happens(IF compound THEN <<ReadOf(r)>> ELSE <<>>)
      /\ Used(r)
      /\ nested' = IF assignmentStack # <<>> THEN nested \cup {v} ELSE nested
      /\ UNCHANGED <<plan, references>>

(* Mutant: the references of the left-hand side are forgotten. *)
RhsOnly(assignment) == assignment.rhs

(* Mutant: those of the left-hand side are processed first. *)
LhsFirst(assignment) == assignment.lhs \o assignment.rhs

RhsFirst(assignment) == assignment.rhs \o assignment.lhs

(* popAssignmentContext(): the variable is assigned, the references of the *)
(* right-hand side are processed before those of the left-hand side.       *)
ExitAssignment ==
  /\ codePathStack # <<>>
  /\ assignmentStack # <<>>
  /\ Top(assignmentStack).opened = Len(Context.forks)
  /\ LET assignment == Top(assignmentStack)
     IN  /\ Process(RhsFirst(assignment), Front(assignmentStack))
         /\ Happens(<<StoreOf(assignment.lhs[1])>>)
  /\ UNCHANGED <<plan, readVariables, variableUsages, events, nested>>

Visited == plan = <<>>

-----------------------------------------------------------------------------
shouldReportReference(r) == ~ r.exempt

variableUsedOutsideOfCodePath(v) == Cardinality(variableUsages[v]) > 1

(* checkSegment() or reportNeverReadVariables() reports the reference.     *)
Reported(s, k) ==
  LET r == references[s][k]
  IN  /\ r.write
      /\ shouldReportReference(r)
      /\ \/ r.var \notin readVariables
         \/ DeadStore(s, k) /\ ~ variableUsedOutsideOfCodePath(r.var)

-----------------------------------------------------------------------------
(* An execution: the innermost call evaluates what comes next in its       *)
(* segment or goes on to a following one; a function may be called at any  *)
(* time by the code around it.                                             *)
Here == Top(frames)
Executing == Visited /\ liveWork = <<>> /\ frames # <<>>

EvaluateNext ==
  /\ Executing
  /\ Here[2] \in DOMAIN trace[Here[1]]
  /\ LET e == trace[Here[1]][Here[2]]
     IN  stored' = IF e.store THEN [stored EXCEPT ![e.var] = e.id] ELSE stored
  /\ frames' = Append(Front(frames), <<Here[1], Here[2] + 1>>)

GoOn ==
  /\ Executing
  /\ Here[2] \notin DOMAIN trace[Here[1]]
  /\ frames' \in {Append(Front(frames), <<t, 1>>) : t \in Elements(nextSegments[Here[1]])}
                \cup (IF nextSegments[Here[1]] = <<>> THEN {Front(frames)} ELSE {})
  /\ UNCHANGED stored

CallFunction(s) ==
  /\ Executing
  /\ Len(frames) = 1
  /\ codePathOf[s] # codePathOf[1]
  /\ prevSegments[s] = <<>>
  /\ frames' = Append(frames, <<s, 1>>)
  /\ UNCHANGED stored

Visit ==
  \/ StartCodePath \/ Fork \/ OtherBranch \/ JoinBranches \/ GoesOn \/ NextStatement
  \/ EndCodePath \/ ExitAssignment
  \/ \E v \in Variables, update \in BOOLEAN : Identifier(v, update)
  \/ \E v \in Variables, compound, exempt \in BOOLEAN :
       EnterAssignment(v, compound, exempt)

Execute == EvaluateNext \/ GoOn \/ \E s \in Segments : CallFunction(s)

DSNext ==
  /\ \/ Visit /\ UNCHANGED <<liveVars, execVars>>
     \/ Visited /\ Propagate /\ UNCHANGED <<references, visitVars, execVars>>
     \/ Execute /\ UNCHANGED <<references, visitVars, liveVars>>
  /\ UNCHANGED <<nextSegments, prevSegments, codePathOf>>

DSInit == GraphOK /\ PlanOK /\ VisitInit

DSSpec == DSInit /\ [][DSNext]_dsVars

-----------------------------------------------------------------------------
(* Every reference reaches a segment: when the file was visited what is    *)
(* evaluated anywhere has a reference in some segment, and none is in one  *)
(* segment twice, though it may have been passed on through several        *)
(* assignments.                                                            *)
StoresCollected ==
  Visited => \A s \in Segments :
    /\ \A e \in Elements(trace[s]) :
         \E t \in Segments : \E r \in Elements(references[t]) : r.id = e.id
    /\ \A j, k \in DOMAIN references[s] :
         references[s][j].id = references[s][k].id => j = k

(* Where the reference was collected.                                      *)
Places(id) ==
  {p \in Segments \X (1 .. MaxEvents) :
     p[2] \in DOMAIN references[p[1]] /\ references[p[1]][p[2]].id = id}

(* The code of the file reads no store that the rule reports, whatever way *)
(* it takes and whenever its functions are called.  There are two          *)
(* exceptions: variables that are stored to inside another assignment,     *)
(* whose references are collected too late, and references in several      *)
(* segments (a finally block), which are reported if one of them is dead.  *)
NoFalseAlarm ==
  Executing /\ Here[2] \in DOMAIN trace[Here[1]] =>
    LET e == trace[Here[1]][Here[2]]
        places == Places(stored[e.var])
    IN  ~ e.store /\ e.var \notin nested =>
          \A p \in places : places = {p} => ~ Reported(p[1], p[2])
=============================================================================
