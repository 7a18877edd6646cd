------------------------ MODULE CognitiveComplexity ------------------------
(***************************************************************************)
(* Rule S3776, which also computes the complexity metric of a file: the    *)
(* handlers that ESLint calls while it walks over the syntax tree.         *)
(*                                                                         *)
(* `path` holds the nodes that were entered and not left.  A node that     *)
(* changes nothing in the rule is not represented.  ESLint calls the       *)
(* handler of '*' before the one for the type of the node, on exit too.    *)
(* The arrays of complexity points are represented by their sums.          *)
(***************************************************************************)
EXTENDS Integers, Sequences

CONSTANTS
  Threshold,         \* the option of the rule
  IsFileComplexity,  \* the option 'metric' is given
  MaxOperators,      \* bound: operators counted for one logical expression
  MaxCases,          \* bound: cases of a switch
  MaxPoints,         \* bound: complexity points in a file
  MaxPath            \* bound: depth of the syntax tree

ASSUME ThresholdAssumption == Threshold \in Nat
ASSUME MetricAssumption == IsFileComplexity \in BOOLEAN
ASSUME LimitsAssumption ==
  /\ MaxOperators \in Nat /\ MaxCases \in Nat
  /\ MaxPoints \in Nat /\ MaxPath \in Nat

VARIABLES
  path,              \* nodes entered and not left
  nesting,
  fileComplexity,
  hasStructural,     \* topLevelHasStructuralComplexity
  capital,           \* reactFunctionalComponent.nameStartsWithCapital
  returnsJsx,        \* reactFunctionalComponent.returnsJsx
  topOwn,            \* topLevelOwnComplexity
  ifNotNested,       \* complexityIfNotNested
  ifNested,          \* complexityIfNested
  second,            \* secondLevelFunctions: the sums of both alternatives
  own,               \* functionOwnComplexity, one for each enclosing function
  ownNesting,        \* functionOwnControlFlowNesting
  issues,            \* complexities reported for functions
  points,            \* number of complexity points
  total,             \* history: what was added, functions not counted
  deeper,            \* history: structural points in functions of the
                     \*   current top level function
  surplus,           \* history: those of the functions counted as nested
  branchFunction     \* history: a function was itself a branch

tree == <<path, nesting>>
react == <<capital, returnsJsx>>
sums == <<fileComplexity, hasStructural, topOwn, ifNotNested, ifNested, own,
          points, total, deeper>>
vars == <<path, nesting, fileComplexity, hasStructural, capital, returnsJsx,
          topOwn, ifNotNested, ifNested, second, own, ownNesting, issues,
          points, total, deeper, surplus, branchFunction>>

(* In an "if chain" the `else if` was not entered yet; a loop and a catch  *)
(* clause are handled alike.                                               *)
Kinds == {"function", "if", "if chain", "loop or catch", "switch",
          "conditional", "logical", "block"}

(* A node on the path: `branch` if its parent put it into nestingNodes,    *)
(* `marked` if it is there now; `left` counts the children it put there    *)
(* and that were not entered.  For the properties: the number of functions *)
(* on the path down to it, and both nestings when it was entered.          *)
Nodes == [kind: Kinds, branch: BOOLEAN, marked: BOOLEAN, left: Nat,
          level: Nat, before: Int, ownBefore: Int]

Parent == path[Len(path)]
Outer == SubSeq(path, 1, Len(path) - 1)
depth == Len(own)   \* enclosingFunctions.length

Init ==
  /\ path = <<>>
  /\ nesting = 0
  /\ fileComplexity = 0
  /\ hasStructural = FALSE
  /\ capital = FALSE
  /\ returnsJsx = FALSE
  /\ topOwn = 0
  /\ ifNotNested = 0
  /\ ifNested = 0
  /\ second = [nested |-> 0, alone |-> 0]
  /\ own = <<>>
  /\ ownNesting = <<>>
  /\ issues = 0
  /\ points = 0
  /\ total = 0
  /\ deeper = 0
  /\ surplus = 0
  /\ branchFunction = FALSE

-----------------------------------------------------------------------------
AddToLast(s, n) == IF s = <<>> THEN s ELSE [s EXCEPT ![Len(s)] = @ + n]

(* The parent may take a node as a branch while it has some left.          *)
CanBe(branch) ==
  /\ Len(path) < MaxPath
  /\ branch => path # <<>> /\ Parent.left > 0

NodeOf(kind, branch, marked, children) ==
  [kind |-> kind, branch |-> branch, marked |-> marked, left |-> children,
   level |-> IF kind = "function" THEN depth + 1 ELSE depth,
   before |-> nesting,
   ownBefore |-> IF depth = 0 THEN 0 ELSE ownNesting[depth]]

(* The path with a new node below the parent.                              *)
Below(node) ==
  Append(IF node.branch THEN [path EXCEPT ![Len(path)].left = @ - 1] ELSE path, node)

(* '*' for a node that is a branch, and for another one.                   *)
NestingIn(branch) == IF branch THEN nesting + 1 ELSE nesting
OwnNestingIn(branch) == IF branch THEN AddToLast(ownNesting, 1) ELSE ownNesting

(* Complexity points are added: `structural` of them are by                *)
(* addStructuralComplexity(), the others by addComplexity(); ownSum does   *)
(* not count the nesting outside the function.                             *)
Add(count, structural, sum, ownSum) ==
  /\ points + count <= MaxPoints
  /\ points' = points + count
  /\ own' = AddToLast(own, ownSum)
  /\ total' = total + sum
  /\ fileComplexity' = IF depth = 0 THEN fileComplexity + sum ELSE fileComplexity
  /\ topOwn' = IF depth = 1 THEN topOwn + sum ELSE topOwn
  /\ hasStructural' = (hasStructural \/ (depth = 1 /\ structural > 0))
  /\ IF depth > 1
     THEN /\ ifNotNested' = ifNotNested + sum
          /\ ifNested' = ifNested + sum + structural
          /\ deeper' = deeper + structural
     ELSE UNCHANGED <<ifNotNested, ifNested, deeper>>

AddComplexity(n) == Add(n, 0, n, n)

AddStructural(n, branch) ==
  Add(n + 1, 1, n + NestingIn(branch) + 1,
      n + 1 + IF depth = 0 THEN 0 ELSE OwnNestingIn(branch)[depth])

(* ESLint enters a node: '*' first, then the handler of its type.          *)
Enter(kind, branch, children) ==
  /\ CanBe(branch)
  /\ nesting' = NestingIn(branch)
  /\ ownNesting' = OwnNestingIn(branch)
  /\ path' = Below(NodeOf(kind, branch, branch, children))
  /\ UNCHANGED <<react, second, issues, surplus, branchFunction>>

(* visitIfStatement(); an `else` that is no `else if` is a branch too and  *)
(* counts.                                                                 *)
IfStatement(branch, alternate) ==
  LET else == IF alternate = "else" THEN 1 ELSE 0
  IN  /\ Enter(IF alternate = "if" THEN "if chain" ELSE "if", branch, 1 + else)
      /\ AddStructural(else, branch)

(* An `else if` is no branch and has no structural complexity.             *)
ElseIf(alternate) ==
  LET else == IF alternate = "else" THEN 1 ELSE 0
      node == NodeOf(IF alternate = "if" THEN "if chain" ELSE "if",
                     FALSE, FALSE, 1 + else)
  IN  /\ CanBe(FALSE)
      /\ path # <<>> /\ Parent.kind = "if chain"
      /\ path' = Append([path EXCEPT ![Len(path)].kind = "if"], node)
      /\ AddComplexity(1 + else)
      /\ UNCHANGED <<nesting, react, second, ownNesting, issues, surplus,
                     branchFunction>>

(* visitLoop(), visitCatchClause(), visitSwitchStatement() and             *)
(* visitConditionalExpression().                                           *)
Branches(kind) ==
  CASE kind = "switch" -> 0 .. MaxCases
    [] kind = "conditional" -> {2}
    [] OTHER -> {1}

Structure(kind, branch) ==
  /\ \E n \in Branches(kind) : Enter(kind, branch, n)
  /\ AddStructural(0, branch)

(* visitLogicalExpression(): the outermost one counts for those that are   *)
(* its operands, unless it is a JSX short circuit.                         *)
LogicalExpression(branch, n) ==
  /\ path # <<>> /\ Parent.kind = "logical" => n = 0
  /\ Enter("logical", branch, 0)
  /\ AddComplexity(n)

(* Any other node that is a branch.                                        *)
Block ==
  /\ Enter("block", TRUE, 0)
  /\ UNCHANGED sums

(* visitContinueOrBreakStatement() with a label.                           *)
Jump ==
  /\ AddComplexity(1)
  /\ UNCHANGED <<tree, react, second, ownNesting, issues, surplus, branchFunction>>

(* visitReturnStatement() of JSX.                                          *)
ReturnJsx ==
  /\ depth = 1
  /\ ~ returnsJsx
  /\ returnsJsx' = TRUE
  /\ UNCHANGED <<tree, capital, sums, second, ownNesting, issues,
                 surplus, branchFunction>>
-----------------------------------------------------------------------------
(* '*' and then onEnterFunction().  From the third level on the function   *)
(* adds to the nesting and goes into nestingNodes itself.                  *)
EnterFunction(branch, isCapital) ==
  LET third == depth >= 2
  IN  /\ CanBe(branch)
      /\ nesting' = NestingIn(branch) + (IF third THEN 1 ELSE 0)
      /\ path' = Below(NodeOf("function", branch, branch \/ third, 0))
      /\ branchFunction' = (branchFunction \/ branch)
      /\ own' = Append(own, 0)
      /\ ownNesting' = Append(OwnNestingIn(branch), 0)
      /\ IF depth = 0
         THEN /\ hasStructural' = FALSE
              /\ capital' = isCapital
              /\ returnsJsx' = FALSE
              /\ topOwn' = 0
              /\ second' = [nested |-> 0, alone |-> 0]
              /\ deeper' = 0
         ELSE UNCHANGED <<hasStructural, react, topOwn, second, deeper>>
      /\ IF depth = 1
         THEN ifNotNested' = 0 /\ ifNested' = 0
         ELSE UNCHANGED <<ifNotNested, ifNested>>
      /\ UNCHANGED <<fileComplexity, issues, points, total, surplus>>

(* Mutant: nesting-- is missing. *)
NestingKept == nesting

(* '*:exit' for a node that is in nestingNodes.                            *)
NestingOut == IF Parent.marked THEN nesting - 1 ELSE nesting

OwnNestingOut == IF Parent.marked THEN AddToLast(ownNesting, -1) ELSE ownNesting

Leave ==
  /\ path # <<>>
  /\ Parent.kind # "function"
  /\ nesting' = NestingOut
  /\ ownNesting' = OwnNestingOut
  /\ path' = Outer
  /\ UNCHANGED <<react, sums, second, issues, surplus, branchFunction>>

DropLast(s) == SubSeq(s, 1, Len(s) - 1)

OwnNestingPopped == DropLast(OwnNestingOut)

(* Mutant: functions of all inner levels are collected. *)
LeavesInner == depth >= 2

LeavesSecondLevel == depth = 2

(* '*:exit' and then onLeaveFunction().                                    *)
LeaveFunction ==
  LET asNested == hasStructural /\ ~ (capital /\ returnsJsx)
  IN  /\ path # <<>>
      /\ Parent.kind = "function"
      /\ nesting' = NestingOut
      /\ path' = Outer
      /\ own' = DropLast(own)
      /\ ownNesting' = OwnNestingPopped
      /\ IF depth = 1
         THEN /\ fileComplexity' = fileComplexity + topOwn +
                                   (IF asNested THEN second.nested ELSE second.alone)
              /\ surplus' = surplus + (IF asNested THEN deeper ELSE 0)
         ELSE UNCHANGED <<fileComplexity, surplus>>
      /\ second' = IF LeavesSecondLevel
                   THEN [nested |-> second.nested + ifNested,
                         alone |-> second.alone + ifNotNested]
                   ELSE second
      /\ issues' = IF ~ IsFileComplexity /\ own[depth] > Threshold
                   THEN issues + 1 ELSE issues
      /\ UNCHANGED <<hasStructural, react, topOwn, ifNotNested, ifNested, points,
                     total, deeper, branchFunction>>

Next ==
  \/ \E branch \in BOOLEAN :
       \/ \E alternate \in {"none", "else", "if"} : IfStatement(branch, alternate)
       \/ \E kind \in {"loop or catch", "switch", "conditional"} : Structure(kind, branch)
       \/ \E n \in 0 .. MaxOperators : LogicalExpression(branch, n)
       \/ \E isCapital \in BOOLEAN : EnterFunction(branch, isCapital)
  \/ \E alternate \in {"none", "else", "if"} : ElseIf(alternate)
  \/ Block
  \/ Jump
  \/ ReturnJsx
  \/ Leave
  \/ LeaveFunction

Spec == Init /\ [][Next]_vars

-----------------------------------------------------------------------------
TypeOK ==
  /\ path \in Seq(Nodes)
  /\ own \in Seq(Nat) /\ ownNesting \in Seq(Int) /\ Len(own) = Len(ownNesting)
  /\ {nesting, fileComplexity, topOwn, ifNotNested, ifNested, issues, points,
      total, deeper, surplus} \subseteq Nat
  /\ {hasStructural, capital, returnsJsx, branchFunction} \subseteq BOOLEAN
  /\ second \in [nested: Nat, alone: Nat]

(* What a node adds to the nesting: one if it is a branch, and one if it   *)
(* is a function in a function in a function.                              *)
Adds(node) ==
  (IF node.branch THEN 1 ELSE 0) +
  (IF node.kind = "function" /\ node.level > 2 THEN 1 ELSE 0)

(* `nesting` is the number of enclosing control flow statements and        *)
(* functions: from each node on the path to the next it grows by what the  *)
(* node adds, and it is what it was once the node is left.  A function     *)
(* that is itself a branch breaks this for the rest of the file.           *)
NestingRestored ==
  ~ branchFunction =>
    /\ path = <<>> => nesting = 0
    /\ \A i \in DOMAIN path :
         /\ i = 1 => path[i].before = 0
         /\ path[i].before + Adds(path[i]) =
              IF i = Len(path) THEN nesting ELSE path[i + 1].before

(* The own nesting of a function counts the branches on the path from it,  *)
(* and is not disturbed by the functions inside.                           *)
OwnNestingRestored ==
  ~ branchFunction =>
    \A i \in DOMAIN path :
      LET inside == IF path[i].kind = "function" THEN 0
                    ELSE IF path[i].level = 0 THEN 0
                    ELSE path[i].ownBefore + (IF path[i].branch THEN 1 ELSE 0)
          next == IF i < Len(path) THEN path[i + 1].ownBefore
                  ELSE IF depth = 0 THEN 0 ELSE ownNesting[depth]
      IN  /\ inside = next
          /\ path[i].kind = "function" /\ path[i].level > 1 =>
               ownNesting[path[i].level - 1] = path[i].ownBefore

(* Whatever is counted on the way down is taken back on the way up.        *)
CountersRestored == NestingRestored /\ OwnNestingRestored

(* No complexity point is lost or counted twice: what was added is in the  *)
(* complexity of the file or in the functions not left yet.  A structural  *)
(* point in an inner function counts one more if the top level function    *)
(* has structural complexity itself and is no React component.             *)
PointsCounted ==
  LET inSecond == IF depth > 1 THEN ifNotNested ELSE 0
      inSecondNested == IF depth > 1 THEN ifNested ELSE 0
  IN  IF depth = 0
      THEN fileComplexity = total + surplus
      ELSE /\ fileComplexity + topOwn + second.alone + inSecond = total + surplus
           /\ second.nested + inSecondNested = second.alone + inSecond + deeper
=============================================================================
