--------------------- MODULE CognitiveComplexityProofs ---------------------
(***************************************************************************)
(* The counters of rule S3776, for syntax trees of any depth: what the     *)
(* handlers of '*' and of the functions add on the way down is taken back  *)
(* on the way up, and no complexity point is lost.                         *)
(***************************************************************************)
EXTENDS CognitiveComplexity, SequenceTheorems, TLAPS

(* What is decremented when the node is left.                              *)
Mark(n) == IF n.marked THEN 1 ELSE 0
IsFunction(n) == IF n.kind = "function" THEN 1 ELSE 0

(* The own nesting of the innermost function.                              *)
OwnNow == IF depth = 0 THEN 0 ELSE ownNesting[depth]

(* ... and the least it can be inside a node.                              *)
OwnInside(n) ==
  IF n.kind = "function" \/ n.level = 0 THEN 0 ELSE n.ownBefore + Mark(n)

(* x is not less than it was; it is the same unless a function was a       *)
(* branch.                                                                 *)
Keeps(was, x) == was <= x /\ (~ branchFunction => was = x)

(* The counters just inside the node at position i: those with which the   *)
(* next node was entered, or the present ones.                             *)
NestingAt(i) == IF i = Len(path) THEN nesting ELSE path[i + 1].before
OwnAt(i) == IF i = Len(path) THEN OwnNow ELSE path[i + 1].ownBefore
LevelAt(i) ==
  IF i = Len(path) THEN depth ELSE path[i + 1].level - IsFunction(path[i + 1])

Marked(n) == n.marked = (n.branch \/ (n.kind = "function" /\ n.level > 2))

(* A node on the path, and what follows it there.                          *)
Linked(i) ==
  /\ i = 1 => Keeps(0, path[i].before) /\ path[i].level = IsFunction(path[i])
  /\ path[i].before >= 0 /\ path[i].ownBefore >= 0
  /\ Keeps(path[i].before + Mark(path[i]), NestingAt(i))
  /\ Keeps(OwnInside(path[i]), OwnAt(i))
  /\ path[i].level = LevelAt(i)
  /\ path[i].level <= depth
  /\ path[i].kind = "function" => path[i].level >= 1
  /\ path[i].kind = "function" /\ path[i].branch => branchFunction
  /\ Marked(path[i])

(* A function on the path: the nesting of the one around it waits.         *)
Suspended(i) ==
  path[i].kind = "function" /\ path[i].level > 1 =>
    Keeps(path[i].ownBefore, ownNesting[path[i].level - 1])

(* Levels grow along the path, at every function.                          *)
Ascending(i) ==
  \A j \in 1 .. i - 1 : path[j].level <= path[i].level - IsFunction(path[i])

PathTypeOK ==
  /\ path \in Seq(Nodes)
  /\ ownNesting \in Seq(Int)
  /\ own \in Seq(Nat)
  /\ Len(own) = Len(ownNesting)
  /\ nesting \in Nat
  /\ branchFunction \in BOOLEAN

Chain ==
  /\ PathTypeOK
  /\ path = <<>> => depth = 0 /\ Keeps(0, nesting)
  /\ \A i \in 1 .. Len(path) : Linked(i) /\ Suspended(i) /\ Ascending(i)

(* Two nodes that differ in the kind of `if` and the children left.        *)
Alike(p, q) ==
  /\ p.before = q.before /\ p.ownBefore = q.ownBefore /\ p.level = q.level
  /\ p.marked = q.marked /\ p.branch = q.branch
  /\ p.kind = "function" <=> q.kind = "function"

LEMMA NodeType ==
  ASSUME NEW n \in Nodes
  PROVE  /\ n.level \in Nat /\ n.before \in Int /\ n.ownBefore \in Int /\ n.left \in Nat
         /\ n.marked \in BOOLEAN /\ n.branch \in BOOLEAN /\ n.kind \in Kinds
         /\ Mark(n) \in {0, 1} /\ IsFunction(n) \in {0, 1}
         /\ n.kind = "function" <=> IsFunction(n) = 1
         /\ OwnInside(n) \in Int
  BY DEF Nodes, Mark, IsFunction, OwnInside

LEMMA Present ==
  ASSUME Chain
  PROVE  /\ depth \in Nat
         /\ OwnNow \in Int /\ OwnNow >= 0
         /\ path # <<>> => depth = path[Len(path)].level
<1>1. depth \in Nat /\ OwnNow \in Int
  BY DEF Chain, PathTypeOK, depth, OwnNow
<1>2. CASE path = <<>>
  BY <1>1, <1>2 DEF Chain, OwnNow
<1>3. CASE path # <<>>
  <2> DEFINE l == Len(path)
             n == path[l]
  <2>1. l \in 1 .. Len(path) /\ n \in Nodes
    BY <1>3 DEF Chain, PathTypeOK
  <2>2. Linked(l)
    BY <2>1 DEF Chain
  <2>3. n.ownBefore >= 0 /\ n.level = depth /\ OwnInside(n) <= OwnNow
    BY <2>2 DEF Linked, LevelAt, OwnAt, Keeps
  <2>4. OwnInside(n) >= 0
    BY <2>1, <2>3 DEF OwnInside, Mark, Nodes
  <2> HIDE DEF n
  <2>5. OwnInside(n) \in Int
    BY <2>1, NodeType
  <2> QED BY <1>1, <2>3, <2>4, <2>5 DEF n
<1> QED BY <1>2, <1>3

-----------------------------------------------------------------------------
(* A node is entered.                                                      *)
LEMMA ChainGrows ==
  ASSUME Chain, PathTypeOK', NEW node \in Nodes,
         Len(path') = Len(path) + 1,
         path'[Len(path) + 1] = node,
         \A i \in 1 .. Len(path) : Alike(path'[i], path[i]),
         node.before = nesting, node.ownBefore = OwnNow,
         node.level = depth + IsFunction(node),
         depth' = node.level,
         Marked(node),
         branchFunction => branchFunction',
         node.kind = "function" /\ node.branch => branchFunction',
         Keeps(node.before + Mark(node), nesting)',
         Keeps(OwnInside(node), OwnNow)',
         \A l \in 1 .. depth - 1 : ownNesting'[l] = ownNesting[l],
         node.kind = "function" /\ node.level > 1 =>
           Keeps(node.ownBefore, ownNesting[node.level - 1])'
  PROVE  Chain'
<1> PICK n : n = Len(path)
  OBVIOUS
<1>1. /\ n \in Nat /\ path \in Seq(Nodes) /\ path' \in Seq(Nodes)
      /\ Len(path') = n + 1
      /\ nesting \in Nat /\ nesting' \in Nat
  BY DEF Chain, PathTypeOK
<1>2. /\ \A i \in 1 .. n : path[i] \in Nodes /\ path'[i] \in Nodes
      /\ path'[n + 1] = node
  BY <1>1
<1>3. \A i \in 1 .. n : /\ Mark(path'[i]) = Mark(path[i])
                        /\ IsFunction(path'[i]) = IsFunction(path[i])
                        /\ OwnInside(path'[i]) = OwnInside(path[i])
                        /\ Marked(path'[i]) <=> Marked(path[i])
  BY DEF Alike, Mark, IsFunction, OwnInside, Marked
<1>5. depth \in Nat /\ OwnNow >= 0 /\ OwnNow \in Int
  BY Present
<1>6. path' # <<>>
  BY <1>1
<1>7. /\ node.level \in Nat /\ depth <= node.level /\ IsFunction(node) \in {0, 1}
  BY <1>5, <1>6, NodeType
<1>8. ASSUME NEW i \in 1 .. n
      PROVE  Linked(i)' /\ Suspended(i)' /\ Ascending(i)'
  <2>1. Linked(i) /\ Suspended(i) /\ Ascending(i) /\ Alike(path'[i], path[i])
    BY DEF Chain
  <2>2. NestingAt(i)' = NestingAt(i)
    <3>1. CASE i = n
      BY <3>1, <1>1, <1>2 DEF NestingAt
    <3>2. CASE i # n
      <4>1. i + 1 \in 1 .. n /\ i # n + 1
        BY <3>2, <1>1
      <4> QED BY <3>2, <4>1, <1>1 DEF NestingAt, Alike
    <3> QED BY <3>1, <3>2
  <2>3. OwnAt(i)' = OwnAt(i)
    <3>1. CASE i = n
      BY <3>1, <1>1, <1>2 DEF OwnAt
    <3>2. CASE i # n
      <4>1. i + 1 \in 1 .. n /\ i # n + 1
        BY <3>2, <1>1
      <4> QED BY <3>2, <4>1, <1>1 DEF OwnAt, Alike
    <3> QED BY <3>1, <3>2
  <2>4. LevelAt(i)' = LevelAt(i)
    <3>1. CASE i = n
      BY <3>1, <1>1, <1>2, <1>5, <1>7 DEF LevelAt
    <3>2. CASE i # n
      <4>1. i + 1 \in 1 .. n /\ i # n + 1
        BY <3>2, <1>1
      <4> QED BY <3>2, <4>1, <1>1, <1>3 DEF LevelAt, Alike
    <3> QED BY <3>1, <3>2
  <2>5. path[i].level <= depth /\ path[i].level \in Nat
    BY <2>1, <1>2, NodeType DEF Linked
  <2>6. Linked(i)'
    <3>1. /\ i = 1 => Keeps(0, path[i].before)' /\ path'[i].level = IsFunction(path'[i])
          /\ path'[i].before >= 0 /\ path'[i].ownBefore >= 0
          /\ Marked(path'[i])
      BY <2>1, <1>3 DEF Linked, Alike, Keeps
    <3>2. Keeps(path[i].before + Mark(path[i]), NestingAt(i))'
      <4>1. Keeps(path[i].before + Mark(path[i]), NestingAt(i))
        BY <2>1 DEF Linked
      <4>2. path'[i].before + Mark(path'[i]) = path[i].before + Mark(path[i])
        BY <2>1, <1>3 DEF Alike
      <4> QED BY <4>1, <4>2, <2>2 DEF Keeps
    <3>3. Keeps(OwnInside(path[i]), OwnAt(i))'
      <4>1. Keeps(OwnInside(path[i]), OwnAt(i))
        BY <2>1 DEF Linked
      <4> QED BY <4>1, <1>3, <2>3 DEF Keeps
    <3>4. path'[i].level = LevelAt(i)' /\ path'[i].level <= depth'
      BY <2>1, <2>4, <2>5, <1>5, <1>7 DEF Linked, Alike
    <3>5. /\ path'[i].kind = "function" => path'[i].level >= 1
          /\ path'[i].kind = "function" /\ path'[i].branch => branchFunction'
      BY <2>1 DEF Linked, Alike
    <3> QED BY <3>1, <3>2, <3>3, <3>4, <3>5 DEF Linked, Marked, IsFunction
  <2>7. Suspended(i)'
    <3> SUFFICES ASSUME path'[i].kind = "function", path'[i].level > 1
                 PROVE  Keeps(path[i].ownBefore, ownNesting[path[i].level - 1])'
      BY DEF Suspended
    <3>1. path[i].level - 1 \in 1 .. depth - 1
      BY <2>1, <2>5, <1>5 DEF Alike
    <3>2. Keeps(path[i].ownBefore, ownNesting[path[i].level - 1])
      BY <2>1 DEF Suspended, Alike
    <3> QED BY <3>1, <3>2, <2>1 DEF Keeps, Alike
  <2>8. Ascending(i)'
    <3> SUFFICES ASSUME NEW j \in 1 .. i - 1
                 PROVE  path'[j].level <= path'[i].level - IsFunction(path'[i])
      BY DEF Ascending, IsFunction
    <3>1. j \in 1 .. n
      BY <1>1
    <3> QED BY <3>1, <2>1, <1>3 DEF Ascending, Alike
  <2> QED BY <2>6, <2>7, <2>8
<1>9. Linked(n + 1)' /\ Suspended(n + 1)' /\ Ascending(n + 1)'
  <2>1. NestingAt(n + 1)' = nesting' /\ OwnAt(n + 1)' = OwnNow' /\ LevelAt(n + 1)' = depth'
    BY <1>1 DEF NestingAt, OwnAt, LevelAt
  <2>2. (path[n + 1])' = node
    BY <1>2
  <2>3. n + 1 = 1 => Keeps(0, node.before)' /\ node.level = IsFunction(node)
    <3> SUFFICES ASSUME n = 0 PROVE Keeps(0, nesting) /\ depth = 0
      BY <1>1, <1>7 DEF Keeps
    <3>1. path = <<>>
      BY <1>1, EmptySeq
    <3> QED BY <3>1 DEF Chain
  <2>4. node.kind = "function" => node.level >= 1
    BY <1>5, NodeType
  <2>5. Linked(n + 1)'
    BY <2>1, <2>2, <2>3, <2>4, <1>1, <1>5, <1>7
       DEF Linked, Marked, Mark, OwnInside, IsFunction, Keeps
  <2>6. Suspended(n + 1)'
    BY <2>2 DEF Suspended, Keeps
  <2>7. Ascending(n + 1)'
    <3> SUFFICES ASSUME NEW j \in 1 .. n
                 PROVE  path'[j].level <= node.level - IsFunction(node)
      BY <1>1, <2>2 DEF Ascending, IsFunction
    <3>1. path'[j].level = path[j].level /\ path[j].level <= depth
      BY DEF Chain, Linked, Alike
    <3> QED BY <3>1, <1>5, <1>7
  <2> QED BY <2>5, <2>6, <2>7
<1>10. ASSUME NEW i \in 1 .. Len(path')
       PROVE  Linked(i)' /\ Suspended(i)' /\ Ascending(i)'
  <2>1. i \in 1 .. n \/ i = n + 1
    BY <1>1
  <2> QED BY <2>1, <1>8, <1>9
<1> QED BY <1>6, <1>10 DEF Chain

(* The innermost node is left.                                             *)
LEMMA ChainShrinks ==
  ASSUME Chain, PathTypeOK', path # <<>>,
         path' = Outer,
         nesting' = nesting - Mark(Parent),
         branchFunction' = branchFunction,
         depth' = Parent.level - IsFunction(Parent),
         \A l \in 1 .. depth' - 1 : ownNesting'[l] = ownNesting[l],
         depth' > 0 => /\ Parent.ownBefore <= OwnNow'
                       /\ ~ branchFunction => Parent.ownBefore = OwnNow'
  PROVE  Chain'
<1> PICK n : n = Len(path)
  OBVIOUS
<1>1. /\ n \in Nat \ {0} /\ path \in Seq(Nodes) /\ path' \in Seq(Nodes)
      /\ Len(path') = n - 1
      /\ \A i \in 1 .. n - 1 : path'[i] = path[i] /\ path[i] \in Nodes
      /\ Parent = path[n] /\ path[n] \in Nodes
  <2>1. path \in Seq(Nodes) /\ path' \in Seq(Nodes)
    BY DEF Chain, PathTypeOK
  <2>2. n \in Nat \ {0}
    BY <2>1, EmptySeq
  <2>3. path[n] \in Nodes /\ \A i \in 1 .. n - 1 : path[i] \in Nodes
    BY <2>1, <2>2
  <2>4. Len(path') = n - 1 /\ \A i \in 1 .. n - 1 : path'[i] = path[i]
    BY <2>1, <2>2 DEF Outer
  <2> QED BY <2>1, <2>2, <2>3, <2>4 DEF Parent
<1>2. depth' \in Nat /\ nesting' \in Nat /\ nesting \in Nat /\ OwnNow' \in Int
  <2>1. depth' \in Nat /\ nesting' \in Nat /\ nesting \in Nat
    BY DEF Chain, PathTypeOK, depth
  <2>2. depth' # 0 => depth' \in 1 .. Len(ownNesting') /\ ownNesting' \in Seq(Int)
    BY DEF PathTypeOK, depth
  <2>3. OwnNow' = IF depth' = 0 THEN 0 ELSE ownNesting'[depth']
    BY DEF OwnNow
  <2>4. depth' # 0 => ownNesting'[depth'] \in Int
    BY <2>2
  <2> QED BY <2>1, <2>3, <2>4
<1>3. Linked(n) /\ Ascending(n)
  BY <1>1 DEF Chain
<1>4. /\ path[n].before \in Int /\ path[n].before >= 0
      /\ path[n].ownBefore \in Int
      /\ path[n].before <= nesting' /\ (~ branchFunction => path[n].before = nesting')
  <2>1. Keeps(path[n].before + Mark(path[n]), nesting) /\ path[n].before >= 0
    BY <1>3 DEF Linked, NestingAt
  <2>2. path[n].before \in Int /\ path[n].ownBefore \in Int /\ Mark(path[n]) \in {0, 1}
    BY <1>1, NodeType
  <2> QED BY <2>1, <2>2, <1>1, <1>2 DEF Keeps
<1>5. path' = <<>> => depth' = 0 /\ Keeps(0, nesting)'
  <2> SUFFICES ASSUME n = 1
               PROVE  depth' = 0 /\ Keeps(0, nesting)'
    BY <1>1
  <2>1. Keeps(0, path[1].before) /\ path[1].level = IsFunction(path[1])
    BY <1>3 DEF Linked
  <2>2. IsFunction(path[1]) \in {0, 1}
    BY <1>1, NodeType
  <2> QED BY <2>1, <2>2, <1>1, <1>4 DEF Keeps
<1>6. ASSUME NEW i \in 1 .. n - 1
      PROVE  Linked(i)' /\ Suspended(i)' /\ Ascending(i)'
  <2>1. /\ i \in 1 .. n /\ path'[i] = path[i] /\ path[i] \in Nodes
        /\ Linked(i) /\ Suspended(i) /\ Ascending(i)
    BY <1>1 DEF Chain
  <2>2. path[i].level <= depth' /\ path[i].level \in Nat
    BY <2>1, <1>1, <1>3, NodeType DEF Ascending
  <2>3. Suspended(i)'
    <3> SUFFICES ASSUME path[i].kind = "function", path[i].level > 1
                 PROVE  Keeps(path[i].ownBefore, ownNesting[path[i].level - 1])'
      BY <2>1 DEF Suspended
    <3>1. path[i].level - 1 \in 1 .. depth' - 1
      BY <2>2, <1>2
    <3>2. Keeps(path[i].ownBefore, ownNesting[path[i].level - 1])
      BY <2>1 DEF Suspended
    <3> QED BY <3>1, <3>2, <2>1 DEF Keeps
  <2>4. Ascending(i)'
    <3> SUFFICES ASSUME NEW j \in 1 .. i - 1
                 PROVE  path'[j].level <= path'[i].level - IsFunction(path'[i])
      BY DEF Ascending, IsFunction
    <3>1. path'[j] = path[j]
      BY <1>1
    <3> QED BY <3>1, <2>1 DEF Ascending
  <2>5. CASE i = n - 1
    <3>1. /\ NestingAt(i) = path[n].before /\ OwnAt(i) = path[n].ownBefore
          /\ LevelAt(i) = depth'
      BY <2>5, <1>1 DEF NestingAt, OwnAt, LevelAt
    <3>2. NestingAt(i)' = nesting' /\ OwnAt(i)' = OwnNow' /\ LevelAt(i)' = depth'
      BY <2>5, <1>1 DEF NestingAt, OwnAt, LevelAt
    <3>3. Keeps(path[i].before + Mark(path[i]), NestingAt(i))'
      <4>1. Keeps(path[i].before + Mark(path[i]), path[n].before)
        BY <2>1, <3>1 DEF Linked
      <4>2. path[i].before + Mark(path[i]) \in Int
        BY <2>1, NodeType
      <4>3. Mark(path'[i]) = Mark(path[i])
        BY <2>1
      <4> QED BY <4>1, <4>2, <4>3, <3>2, <2>1, <1>2, <1>4 DEF Keeps
    <3>4. Keeps(OwnInside(path[i]), OwnAt(i))'
      <4>1. OwnInside(path'[i]) = OwnInside(path[i]) /\ OwnInside(path[i]) \in Int
        BY <2>1, NodeType
      <4>2. CASE depth' = 0
        <5>1. path[i].level = 0
          BY <4>2, <2>2
        <5>2. OwnInside(path[i]) = 0 /\ OwnNow' = 0
          BY <5>1, <4>2 DEF OwnInside, OwnNow
        <5> QED BY <5>2, <4>1, <3>2 DEF Keeps
      <4>3. CASE depth' > 0
        <5>1. Keeps(OwnInside(path[i]), path[n].ownBefore)
          BY <2>1, <3>1 DEF Linked
        <5> QED BY <5>1, <4>1, <4>3, <3>2, <1>1, <1>2, <1>4 DEF Keeps
      <4> QED BY <4>2, <4>3, <1>2
    <3>5. path[i].level = depth'
      BY <2>1, <3>1 DEF Linked
    <3> QED BY <2>1, <2>2, <2>3, <2>4, <3>2, <3>3, <3>4, <3>5
            DEF Linked, Marked, IsFunction, Keeps
  <2>6. CASE i # n - 1
    <3>1. i + 1 \in 1 .. n - 1 /\ i # n /\ i + 1 <= n - 1
      BY <2>6, <1>1
    <3>2. NestingAt(i)' = NestingAt(i) /\ OwnAt(i)' = OwnAt(i) /\ LevelAt(i)' = LevelAt(i)
      BY <2>6, <3>1, <1>1 DEF NestingAt, OwnAt, LevelAt, IsFunction
    <3>3. Keeps(path[i].before + Mark(path[i]), NestingAt(i))'
      <4>1. Keeps(path[i].before + Mark(path[i]), NestingAt(i))
        BY <2>1 DEF Linked
      <4> QED BY <4>1, <3>2, <2>1 DEF Keeps, Mark
    <3>4. Keeps(OwnInside(path[i]), OwnAt(i))'
      <4>1. Keeps(OwnInside(path[i]), OwnAt(i))
        BY <2>1 DEF Linked
      <4> QED BY <4>1, <3>2, <2>1 DEF Keeps, OwnInside, Mark
    <3>5. path[i].level = LevelAt(i)
      BY <2>1 DEF Linked
    <3> QED BY <2>1, <2>2, <2>3, <2>4, <3>2, <3>3, <3>4, <3>5
            DEF Linked, Marked, IsFunction, Keeps
  <2> QED BY <2>5, <2>6
<1> QED BY <1>1, <1>5, <1>6 DEF Chain

-----------------------------------------------------------------------------
(* The helpers of the handlers.                                            *)
LEMMA LastAdded ==
  ASSUME NEW S, NEW s \in Seq(S), NEW n \in Int,
         s # <<>> => s[Len(s)] + n \in S
  PROVE  /\ AddToLast(s, n) \in Seq(S)
         /\ Len(AddToLast(s, n)) = Len(s) /\ Len(s) \in Nat
         /\ \A l \in 1 .. Len(s) - 1 : AddToLast(s, n)[l] = s[l]
         /\ s # <<>> => AddToLast(s, n)[Len(s)] = s[Len(s)] + n
<1>1. CASE s = <<>>
  BY <1>1 DEF AddToLast
<1>2. CASE s # <<>>
  <2>1. Len(s) \in Nat \ {0}
    BY <1>2, EmptySeq
  <2>2. AddToLast(s, n) = [s EXCEPT ![Len(s)] = s[Len(s)] + n]
    BY <1>2 DEF AddToLast
  <2> QED BY <1>2, <2>1, <2>2
<1> QED BY <1>1, <1>2

LEMMA BelowShape ==
  ASSUME path \in Seq(Nodes), NEW node \in Nodes,
         node.branch => path # <<>> /\ Parent.left > 0
  PROVE  /\ Below(node) \in Seq(Nodes)
         /\ Len(Below(node)) = Len(path) + 1
         /\ Below(node)[Len(path) + 1] = node
         /\ \A i \in 1 .. Len(path) : Alike(Below(node)[i], path[i])
<1> DEFINE outer == IF node.branch THEN [path EXCEPT ![Len(path)].left = @ - 1] ELSE path
<1>1. /\ outer \in Seq(Nodes) /\ Len(outer) = Len(path)
      /\ \A i \in 1 .. Len(path) : Alike(outer[i], path[i])
  <2>1. CASE ~ node.branch
    BY <2>1 DEF Alike
  <2>2. CASE node.branch
    <3>1. Len(path) \in Nat \ {0}
      BY <2>2, EmptySeq
    <3> DEFINE p == path[Len(path)]
               q == [p EXCEPT !.left = @ - 1]
    <3>2. p \in Nodes /\ p.left > 0
      BY <2>2, <3>1 DEF Parent
    <3>3. q \in Nodes /\ Alike(q, p)
      <4> HIDE DEF p
      <4>1. p.left - 1 \in Nat
        BY <3>2 DEF Nodes
      <4>2. q \in Nodes
        BY <3>2, <4>1 DEF Nodes
      <4>3. Alike(q, p)
        BY <3>2 DEF Nodes, Alike
      <4> QED BY <4>2, <4>3
    <3>4. outer = [path EXCEPT ![Len(path)] = q]
      BY <2>2
    <3> HIDE DEF q, outer
    <3>5. outer \in Seq(Nodes) /\ Len(outer) = Len(path)
      BY <3>1, <3>3, <3>4
    <3>6. \A i \in 1 .. Len(path) : outer[i] = IF i = Len(path) THEN q ELSE path[i]
      BY <3>1, <3>3, <3>4
    <3>7. \A i \in 1 .. Len(path) : Alike(path[i], path[i])
      BY DEF Alike
    <3> QED BY <3>3, <3>5, <3>6, <3>7
  <2> QED BY <2>1, <2>2
<1>2. Below(node) = Append(outer, node)
  BY DEF Below
<1> HIDE DEF outer
<1> QED BY <1>1, <1>2

(* What a node remembers when it is entered.                               *)
LEMMA NodeShape ==
  ASSUME Chain, NEW kind \in Kinds, NEW branch \in BOOLEAN, NEW marked \in BOOLEAN,
         NEW children \in Nat
  PROVE  LET node == NodeOf(kind, branch, marked, children)
         IN  /\ node \in Nodes
             /\ node.kind = kind /\ node.branch = branch /\ node.marked = marked
             /\ node.before = nesting /\ node.ownBefore = OwnNow
             /\ node.level = depth + IsFunction(node)
<1>1. depth \in Nat /\ OwnNow \in Int /\ nesting \in Nat
  BY Present DEF Chain, PathTypeOK
<1>2. OwnNow = IF depth = 0 THEN 0 ELSE ownNesting[depth]
  BY DEF OwnNow
<1> QED BY <1>1, <1>2 DEF NodeOf, Nodes, IsFunction

(* The counters other than the nestings.                                   *)
CountsOK ==
  /\ fileComplexity \in Nat /\ topOwn \in Nat /\ ifNotNested \in Nat
  /\ ifNested \in Nat /\ issues \in Nat /\ points \in Nat
  /\ total \in Nat /\ deeper \in Nat /\ surplus \in Nat
  /\ hasStructural \in BOOLEAN /\ capital \in BOOLEAN /\ returnsJsx \in BOOLEAN
  /\ second \in [nested: Nat, alone: Nat]

(* Points are added in a way that keeps the sums right.                    *)
LEMMA AddCounts ==
  ASSUME PathTypeOK, CountsOK, PointsCounted,
         NEW count \in Nat, NEW structural \in Nat, NEW sum \in Nat, NEW ownSum \in Nat,
         Add(count, structural, sum, ownSum),
         UNCHANGED <<react, second, issues, surplus>>
  PROVE  own' \in Seq(Nat) /\ Len(own') = Len(own) /\ CountsOK' /\ PointsCounted'
<1>1. own' \in Seq(Nat) /\ Len(own') = Len(own)
  <2>1. own \in Seq(Nat) /\ own' = AddToLast(own, ownSum)
    BY DEF PathTypeOK, Add
  <2>2. own # <<>> => own[Len(own)] + ownSum \in Nat
    <3> SUFFICES ASSUME own # <<>> PROVE own[Len(own)] + ownSum \in Nat
      OBVIOUS
    <3>1. Len(own) \in Nat \ {0}
      BY <2>1, EmptySeq
    <3>2. own[Len(own)] \in Nat
      BY <2>1, <3>1
    <3> QED BY <3>2
  <2> QED BY <2>1, <2>2, LastAdded
<1>2. depth \in Nat /\ depth' = depth
  BY <1>1 DEF PathTypeOK, depth
<1>3. CountsOK'
  BY <1>2 DEF CountsOK, Add, react
<1>4. PointsCounted'
  <2>1. CASE depth = 0
    BY <2>1, <1>2 DEF PointsCounted, Add, CountsOK
  <2>2. CASE depth = 1
    BY <2>2, <1>2 DEF PointsCounted, Add, CountsOK
  <2>3. CASE depth > 1
    BY <2>3, <1>2 DEF PointsCounted, Add, CountsOK
  <2> QED BY <2>1, <2>2, <2>3, <1>2
<1> QED BY <1>1, <1>3, <1>4

-----------------------------------------------------------------------------
(* '*' on the way down.                                                    *)
LEMMA OwnEntered ==
  ASSUME Chain, NEW branch \in BOOLEAN
  PROVE  LET new == OwnNestingIn(branch)
         IN  /\ new \in Seq(Int) /\ Len(new) = Len(ownNesting)
             /\ depth = Len(ownNesting) /\ depth \in Nat
             /\ \A l \in 1 .. depth - 1 : new[l] = ownNesting[l]
             /\ depth > 0 => new[depth] = OwnNow + (IF branch THEN 1 ELSE 0)
<1>1. ownNesting \in Seq(Int) /\ depth = Len(ownNesting) /\ depth \in Nat
  BY DEF Chain, PathTypeOK, depth
<1>2. depth > 0 => ownNesting # <<>> /\ ownNesting[depth] \in Int /\ OwnNow = ownNesting[depth]
  BY <1>1 DEF OwnNow
<1>3. ownNesting # <<>> => depth > 0
  BY <1>1, EmptySeq
<1>4. CASE branch
  BY <1>1, <1>2, <1>3, <1>4, LastAdded DEF OwnNestingIn
<1>5. CASE ~ branch
  BY <1>1, <1>2, <1>5 DEF OwnNestingIn
<1> QED BY <1>4, <1>5

LEMMA EnterChain ==
  ASSUME Chain, NEW kind \in Kinds \ {"function"}, NEW branch \in BOOLEAN,
         NEW children \in Nat, Enter(kind, branch, children),
         own' \in Seq(Nat), Len(own') = Len(own)
  PROVE  Chain'
<1> PICK node : node = NodeOf(kind, branch, branch, children)
  OBVIOUS
<1>1. /\ node \in Nodes
      /\ node.kind = kind /\ node.branch = branch /\ node.marked = branch
      /\ node.before = nesting /\ node.ownBefore = OwnNow
      /\ node.level = depth + IsFunction(node)
  BY NodeShape
<1>2. depth \in Nat /\ OwnNow \in Int /\ nesting \in Nat /\ path \in Seq(Nodes)
      /\ branchFunction \in BOOLEAN /\ depth' = depth
  BY Present DEF Chain, PathTypeOK, depth
<1>3. IsFunction(node) = 0 /\ node.level = depth /\ Mark(node) = IF branch THEN 1 ELSE 0
  BY <1>1, <1>2 DEF IsFunction, Mark
<1>4. /\ path' = Below(node) /\ nesting' = NestingIn(branch)
      /\ ownNesting' = OwnNestingIn(branch) /\ branchFunction' = branchFunction
      /\ branch => path # <<>> /\ Parent.left > 0
  BY DEF Enter, CanBe
<1>5. /\ path' \in Seq(Nodes) /\ Len(path') = Len(path) + 1
      /\ path'[Len(path) + 1] = node
      /\ \A i \in 1 .. Len(path) : Alike(path'[i], path[i])
  BY <1>1, <1>2, <1>4, BelowShape
<1>6. nesting' = nesting + Mark(node) /\ nesting' \in Nat
  BY <1>2, <1>3, <1>4 DEF NestingIn
<1>7. /\ ownNesting' \in Seq(Int) /\ Len(ownNesting') = depth
      /\ \A l \in 1 .. depth - 1 : ownNesting'[l] = ownNesting[l]
      /\ depth > 0 => ownNesting'[depth] = OwnNow + Mark(node)
  BY <1>3, <1>4, OwnEntered
<1>8. PathTypeOK'
  BY <1>2, <1>4, <1>5, <1>6, <1>7 DEF PathTypeOK, depth
<1>9. OwnNow' = OwnInside(node)
  BY <1>1, <1>2, <1>3, <1>7 DEF OwnInside, OwnNow
<1>10. Keeps(node.before + Mark(node), nesting)' /\ Keeps(OwnInside(node), OwnNow)'
  <2>1. OwnInside(node) \in Int
    BY <1>1, NodeType
  <2> QED BY <2>1, <1>1, <1>6, <1>9 DEF Keeps
<1>11. Marked(node)
  BY <1>1 DEF Marked
<1> QED BY <1>1, <1>2, <1>3, <1>4, <1>5, <1>7, <1>8, <1>10, <1>11, ChainGrows

(* '*' and onEnterFunction().                                              *)
LEMMA EnterFunctionChain ==
  ASSUME Chain, NEW branch \in BOOLEAN, NEW isCapital \in BOOLEAN,
         EnterFunction(branch, isCapital)
  PROVE  Chain'
<1> PICK marked \in BOOLEAN :
      /\ marked <=> branch \/ depth >= 2
      /\ path' = Below(NodeOf("function", branch, marked, 0))
  <2>1. path' = Below(NodeOf("function", branch, branch \/ depth >= 2, 0))
    BY DEF EnterFunction
  <2>2. CASE branch \/ depth >= 2
    <3>1. (branch \/ depth >= 2) = TRUE
      BY <2>2
    <3> QED BY <2>1, <2>2, <3>1
  <2>3. CASE ~ (branch \/ depth >= 2)
    <3>1. (branch \/ depth >= 2) = FALSE
      BY <2>3
    <3> QED BY <2>1, <2>3, <3>1
  <2> QED BY <2>2, <2>3
<1> PICK node : node = NodeOf("function", branch, marked, 0)
  OBVIOUS
<1>1. /\ node \in Nodes
      /\ node.kind = "function" /\ node.branch = branch /\ node.marked = marked
      /\ node.before = nesting /\ node.ownBefore = OwnNow
      /\ node.level = depth + IsFunction(node)
  <2>1. "function" \in Kinds
    BY DEF Kinds
  <2>2. PICK kind \in Kinds : kind = "function"
    BY <2>1
  <2>3. PICK none \in Nat : none = 0
    OBVIOUS
  <2>4. node = NodeOf(kind, branch, marked, none)
    BY <2>2, <2>3
  <2> QED BY <2>2, <2>4, NodeShape
<1>2. depth \in Nat /\ OwnNow \in Int /\ nesting \in Nat /\ path \in Seq(Nodes)
      /\ branchFunction \in BOOLEAN /\ own \in Seq(Nat)
  BY Present DEF Chain, PathTypeOK
<1>3. IsFunction(node) = 1 /\ node.level = depth + 1
  BY <1>1, <1>2 DEF IsFunction
<1>4. /\ path' = Below(node)
      /\ nesting' = NestingIn(branch) + (IF depth >= 2 THEN 1 ELSE 0)
      /\ own' = Append(own, 0)
      /\ ownNesting' = Append(OwnNestingIn(branch), 0)
      /\ branchFunction' = (branchFunction \/ branch)
      /\ branch => path # <<>> /\ Parent.left > 0
  BY DEF EnterFunction, CanBe
<1>5. /\ path' \in Seq(Nodes) /\ Len(path') = Len(path) + 1
      /\ path'[Len(path) + 1] = node
      /\ \A i \in 1 .. Len(path) : Alike(path'[i], path[i])
  BY <1>1, <1>2, <1>4, BelowShape
<1>6. /\ nesting' \in Nat /\ node.before + Mark(node) <= nesting'
      /\ ~ branch => node.before + Mark(node) = nesting'
  <2>1. Mark(node) = IF branch \/ depth >= 2 THEN 1 ELSE 0
    BY <1>1 DEF Mark
  <2>2. nesting' = nesting + (IF branch THEN 1 ELSE 0) + (IF depth >= 2 THEN 1 ELSE 0)
    BY <1>2, <1>4 DEF NestingIn
  <2> QED BY <2>1, <2>2, <1>1, <1>2
<1>7. /\ own' \in Seq(Nat) /\ Len(own') = depth + 1 /\ depth' = depth + 1
  BY <1>2, <1>4 DEF depth
<1>8. /\ ownNesting' \in Seq(Int) /\ Len(ownNesting') = depth + 1
      /\ ownNesting'[depth + 1] = 0
      /\ \A l \in 1 .. depth - 1 : ownNesting'[l] = ownNesting[l]
      /\ depth > 0 => ownNesting'[depth] = OwnNow + (IF branch THEN 1 ELSE 0)
  <2> DEFINE new == OwnNestingIn(branch)
  <2>1. /\ new \in Seq(Int) /\ Len(new) = depth
        /\ \A l \in 1 .. depth - 1 : new[l] = ownNesting[l]
        /\ depth > 0 => new[depth] = OwnNow + (IF branch THEN 1 ELSE 0)
    BY OwnEntered
  <2> HIDE DEF new
  <2>2. Append(new, 0) \in Seq(Int) /\ Len(Append(new, 0)) = depth + 1
        /\ Append(new, 0)[depth + 1] = 0
        /\ \A l \in 1 .. depth : Append(new, 0)[l] = new[l]
    BY <2>1, <1>2
  <2> QED BY <2>1, <2>2, <1>2, <1>4 DEF new
<1>9. PathTypeOK'
  BY <1>2, <1>4, <1>5, <1>6, <1>7, <1>8 DEF PathTypeOK
<1>10. OwnNow' = 0 /\ OwnInside(node) = 0
  BY <1>1, <1>2, <1>7, <1>8 DEF OwnNow, OwnInside
<1>11. /\ Keeps(node.before + Mark(node), nesting)'
       /\ Keeps(OwnInside(node), OwnNow)'
       /\ node.level > 1 => Keeps(node.ownBefore, ownNesting[node.level - 1])'
  <2>1. ~ branchFunction' => ~ branch
    BY <1>4
  <2>2. Keeps(node.before + Mark(node), nesting)'
    BY <2>1, <1>6 DEF Keeps
  <2>3. Keeps(OwnInside(node), OwnNow)'
    BY <1>10 DEF Keeps
  <2>4. ASSUME node.level > 1
        PROVE  Keeps(node.ownBefore, ownNesting[node.level - 1])'
    <3>1. node.level - 1 = depth /\ depth > 0
      BY <2>4, <1>2, <1>3
    <3>2. ownNesting'[node.level - 1] = node.ownBefore + (IF branch THEN 1 ELSE 0)
      BY <3>1, <1>1, <1>8
    <3> QED BY <2>1, <3>2, <1>1, <1>2 DEF Keeps
  <2> QED BY <2>2, <2>3, <2>4
<1>12. Marked(node)
  <2>1. depth >= 2 <=> node.level > 2
    BY <1>2, <1>3
  <2> QED BY <2>1, <1>1 DEF Marked
<1> QED BY <1>1, <1>2, <1>3, <1>4, <1>5, <1>7, <1>8, <1>9, <1>11, <1>12, ChainGrows

(* An `else if` changes its parent and is no branch.                       *)
LEMMA ElseIfChain ==
  ASSUME Chain, NEW alternate \in {"none", "else", "if"}, ElseIf(alternate),
         own' \in Seq(Nat), Len(own') = Len(own)
  PROVE  Chain'
<1> DEFINE else == IF alternate = "else" THEN 1 ELSE 0
<1>a. PICK kind \in Kinds \ {"function"} :
        kind = IF alternate = "if" THEN "if chain" ELSE "if"
  BY DEF Kinds
<1>b. 1 + else \in Nat
  OBVIOUS
<1>c. PICK node : node = NodeOf(kind, FALSE, FALSE, 1 + else)
  OBVIOUS
<1>1. /\ node \in Nodes
      /\ node.kind = kind /\ ~ node.branch /\ ~ node.marked
      /\ node.before = nesting /\ node.ownBefore = OwnNow
      /\ node.level = depth + IsFunction(node)
  <2>1. PICK children \in Nat : children = 1 + else
    BY <1>b
  <2>2. PICK no \in BOOLEAN : ~ no /\ no = FALSE
    OBVIOUS
  <2>3. node = NodeOf(kind, no, no, children)
    BY <2>1, <2>2, <1>c
  <2>4. /\ node \in Nodes
        /\ node.kind = kind /\ node.branch = no /\ node.marked = no
        /\ node.before = nesting /\ node.ownBefore = OwnNow
        /\ node.level = depth + IsFunction(node)
    BY <2>3, NodeShape
  <2> QED BY <2>2, <2>4
<1>2. depth \in Nat /\ OwnNow \in Int /\ nesting \in Nat /\ path \in Seq(Nodes)
      /\ branchFunction \in BOOLEAN /\ depth' = depth
  BY Present DEF Chain, PathTypeOK, depth
<1>3. IsFunction(node) = 0 /\ node.level = depth /\ Mark(node) = 0
  BY <1>1, <1>2 DEF IsFunction, Mark
<1> DEFINE l == Len(path)
           p == path[l]
           q == [p EXCEPT !.kind = "if"]
           outer == [path EXCEPT ![l].kind = "if"]
<1> HIDE DEF else
<1>4. /\ path' = Append(outer, node)
      /\ UNCHANGED <<nesting, ownNesting, branchFunction>>
      /\ path # <<>> /\ p.kind = "if chain"
  BY <1>a, <1>c DEF ElseIf, Parent, else
<1>5. l \in Nat \ {0} /\ p \in Nodes
  <2>1. l \in Nat \ {0}
    BY <1>2, <1>4, EmptySeq
  <2> QED BY <2>1, <1>2
<1>6. q \in Nodes /\ Alike(q, p) /\ outer = [path EXCEPT ![l] = q]
  <2>1. outer = [path EXCEPT ![l] = q]
    OBVIOUS
  <2> HIDE DEF p
  <2> QED BY <2>1, <1>4, <1>5 DEF Nodes, Kinds, Alike
<1> HIDE DEF p, q, outer
<1>7. /\ outer \in Seq(Nodes) /\ Len(outer) = l
      /\ \A i \in 1 .. l : outer[i] = IF i = l THEN q ELSE path[i]
  BY <1>2, <1>5, <1>6
<1>8. \A i \in 1 .. l : Alike(path[i], path[i])
  BY DEF Alike
<1>9. \A i \in 1 .. l : Alike(outer[i], path[i])
  BY <1>6, <1>7, <1>8 DEF p
<1>10. /\ path' \in Seq(Nodes) /\ Len(path') = Len(path) + 1
       /\ path'[Len(path) + 1] = node
       /\ \A i \in 1 .. Len(path) : Alike(path'[i], path[i])
  <2>1. /\ Append(outer, node) \in Seq(Nodes) /\ Len(Append(outer, node)) = l + 1
        /\ Append(outer, node)[l + 1] = node
        /\ \A i \in 1 .. l : Append(outer, node)[i] = outer[i]
    BY <1>1, <1>5, <1>7
  <2> QED BY <2>1, <1>4, <1>9
<1>11. PathTypeOK'
  BY <1>2, <1>4, <1>10 DEF PathTypeOK, Chain
<1>12. OwnNow' = OwnNow
  BY <1>2, <1>4 DEF OwnNow
<1>13. OwnInside(node) = OwnNow
  BY <1>1, <1>2, <1>3 DEF OwnInside, OwnNow
<1>14. Keeps(node.before + Mark(node), nesting)' /\ Keeps(OwnInside(node), OwnNow)'
  <2> HIDE DEF l
  <2>0. nesting' = nesting
    BY <1>4
  <2>1. node.before + Mark(node) = nesting' /\ nesting' \in Nat
    BY <2>0, <1>1, <1>2, <1>3
  <2>2. OwnInside(node) = OwnNow' /\ OwnNow' \in Int
    BY <1>2, <1>12, <1>13
  <2> QED BY <2>1, <2>2 DEF Keeps
<1>15. Marked(node)
  BY <1>1, NodeType DEF Marked
<1> QED BY <1>1, <1>2, <1>3, <1>4, <1>10, <1>11, <1>14, <1>15, ChainGrows

(* The path stays: jumps, returns of JSX.                                  *)
LEMMA ChainStays ==
  ASSUME Chain, UNCHANGED <<path, nesting, ownNesting, branchFunction>>,
         own' \in Seq(Nat), Len(own') = Len(own)
  PROVE  Chain'
<1>1. depth' = depth /\ OwnNow' = OwnNow
  BY DEF depth, OwnNow
<1>2. PathTypeOK'
  BY DEF Chain, PathTypeOK
<1>3. ASSUME NEW i \in 1 .. Len(path)
      PROVE  Linked(i)' /\ Suspended(i)' /\ Ascending(i)'
  <2>1. Linked(i) /\ Suspended(i) /\ Ascending(i)
    BY DEF Chain
  <2>2. NestingAt(i)' = NestingAt(i) /\ OwnAt(i)' = OwnAt(i) /\ LevelAt(i)' = LevelAt(i)
    BY <1>1 DEF NestingAt, OwnAt, LevelAt, IsFunction
  <2> QED BY <2>1, <2>2, <1>1
          DEF Linked, Suspended, Ascending, Keeps, Mark, Marked, IsFunction, OwnInside
<1> QED BY <1>1, <1>2, <1>3 DEF Chain, Keeps

(* '*:exit'.                                                               *)
LEMMA NodeLeft ==
  ASSUME Chain, path # <<>>
  PROVE  /\ Parent \in Nodes /\ Parent = path[Len(path)]
         /\ Len(path) \in Nat \ {0} /\ Outer \in Seq(Nodes)
         /\ Linked(Len(path)) /\ Suspended(Len(path))
         /\ NestingOut = nesting - Mark(Parent) /\ NestingOut \in Nat
<1>1. path \in Seq(Nodes) /\ nesting \in Nat
  BY DEF Chain, PathTypeOK
<1>2. Len(path) \in Nat \ {0}
  BY <1>1, EmptySeq
<1>3. Parent \in Nodes /\ Parent = path[Len(path)] /\ Outer \in Seq(Nodes)
  BY <1>1, <1>2 DEF Parent, Outer
<1>4. Linked(Len(path)) /\ Suspended(Len(path))
  BY <1>2 DEF Chain
<1>5. Parent.before >= 0 /\ Parent.before + Mark(Parent) <= nesting
  BY <1>3, <1>4 DEF Linked, NestingAt, Keeps
<1>6. Parent.before \in Int /\ Mark(Parent) \in {0, 1}
  BY <1>3, NodeType
<1>7. NestingOut = nesting - Mark(Parent)
  BY <1>1, <1>3 DEF NestingOut, Mark
<1> QED BY <1>1, <1>2, <1>3, <1>4, <1>5, <1>6, <1>7

LEMMA OwnLeft ==
  ASSUME Chain, path # <<>>
  PROVE  /\ depth \in Nat /\ depth = Len(ownNesting)
         /\ OwnNestingOut \in Seq(Int) /\ Len(OwnNestingOut) = depth
         /\ \A l \in 1 .. depth - 1 : OwnNestingOut[l] = ownNesting[l]
         /\ depth > 0 => /\ ownNesting[depth] \in Int
                         /\ OwnNestingOut[depth] = ownNesting[depth] - Mark(Parent)
<1>1. ownNesting \in Seq(Int) /\ depth = Len(ownNesting) /\ depth \in Nat
  BY DEF Chain, PathTypeOK, depth
<1>2. depth > 0 => ownNesting[depth] \in Int /\ ownNesting # <<>>
  BY <1>1
<1>3. CASE ~ Parent.marked
  BY <1>1, <1>2, <1>3 DEF OwnNestingOut, Mark
<1>4. CASE Parent.marked
  <2>1. PICK minus \in Int : minus = -1
    OBVIOUS
  <2>2. OwnNestingOut = AddToLast(ownNesting, minus)
    BY <1>4, <2>1 DEF OwnNestingOut
  <2>3. ownNesting # <<>> => ownNesting[Len(ownNesting)] + minus \in Int
    BY <1>1, <1>2, EmptySeq
  <2>4. /\ AddToLast(ownNesting, minus) \in Seq(Int)
        /\ Len(AddToLast(ownNesting, minus)) = Len(ownNesting)
        /\ \A l \in 1 .. Len(ownNesting) - 1 :
             AddToLast(ownNesting, minus)[l] = ownNesting[l]
        /\ ownNesting # <<>> => AddToLast(ownNesting, minus)[Len(ownNesting)]
                                  = ownNesting[Len(ownNesting)] + minus
    BY <2>3, <1>1, LastAdded
  <2>5. Mark(Parent) = 1
    BY <1>4 DEF Mark
  <2> QED BY <2>1, <2>2, <2>4, <2>5, <1>1, <1>2
<1> QED BY <1>3, <1>4

(* A node that is no function is left.                                     *)
LEMMA LeaveChain ==
  ASSUME Chain, Leave
  PROVE  Chain'
<1> PICK n : n = Parent
  OBVIOUS
<1>1. /\ path # <<>> /\ n.kind # "function"
      /\ path' = Outer /\ nesting' = NestingOut /\ ownNesting' = OwnNestingOut
      /\ UNCHANGED <<own, branchFunction>>
  BY DEF Leave, sums
<1>2. /\ n \in Nodes /\ n = path[Len(path)] /\ path' \in Seq(Nodes)
      /\ Linked(Len(path))
      /\ nesting' = nesting - Mark(n) /\ nesting' \in Nat
  BY <1>1, NodeLeft
<1>3. /\ n.level = depth
      /\ OwnInside(n) <= OwnNow /\ (~ branchFunction => OwnInside(n) = OwnNow)
  BY <1>2 DEF Linked, OwnAt, LevelAt, Keeps
<1>4. /\ n.ownBefore \in Int /\ n.level \in Nat /\ Mark(n) \in {0, 1} /\ IsFunction(n) = 0
  BY <1>1, <1>2, NodeType
<1>5. depth \in Nat /\ depth = Len(ownNesting) /\ depth' = depth
  BY <1>1, OwnLeft DEF depth
<1>6. /\ ownNesting' \in Seq(Int) /\ Len(ownNesting') = depth
      /\ \A l \in 1 .. depth - 1 : ownNesting'[l] = ownNesting[l]
      /\ depth > 0 => /\ ownNesting[depth] \in Int
                      /\ ownNesting'[depth] = ownNesting[depth] - Mark(n)
  BY <1>1, OwnLeft
<1>7. PathTypeOK'
  BY <1>1, <1>2, <1>5, <1>6 DEF Chain, PathTypeOK, depth
<1>8. depth' > 0 => /\ n.ownBefore <= OwnNow'
                    /\ ~ branchFunction => n.ownBefore = OwnNow'
  <2> SUFFICES ASSUME depth > 0
               PROVE  /\ n.ownBefore <= OwnNow'
                      /\ ~ branchFunction => n.ownBefore = OwnNow'
    BY <1>5
  <2>1. OwnInside(n) = n.ownBefore + Mark(n)
    BY <1>1, <1>3, <1>5 DEF OwnInside
  <2>2. OwnNow' = OwnNow - Mark(n) /\ OwnNow \in Int
    BY <1>5, <1>6 DEF OwnNow
  <2> QED BY <2>1, <2>2, <1>3, <1>4
<1>9. depth' = n.level - IsFunction(n)
  BY <1>3, <1>4, <1>5
<1> QED BY <1>1, <1>2, <1>5, <1>6, <1>7, <1>8, <1>9, ChainShrinks

(* A function is left.                                                     *)
LEMMA LeaveFunctionChain ==
  ASSUME Chain, LeaveFunction
  PROVE  /\ Chain'
         /\ depth \in Nat \ {0} /\ depth' = depth - 1
<1> PICK n : n = Parent
  OBVIOUS
<1>1. /\ path # <<>> /\ n.kind = "function"
      /\ path' = Outer /\ nesting' = NestingOut
      /\ ownNesting' = DropLast(OwnNestingOut) /\ own' = DropLast(own)
      /\ UNCHANGED branchFunction
  BY DEF LeaveFunction, OwnNestingPopped
<1>2. /\ n \in Nodes /\ n = path[Len(path)] /\ path' \in Seq(Nodes)
      /\ Linked(Len(path)) /\ Suspended(Len(path))
      /\ nesting' = nesting - Mark(n) /\ nesting' \in Nat
  BY <1>1, NodeLeft
<1>3. /\ n.level = depth /\ n.level >= 1
      /\ n.level > 1 => Keeps(n.ownBefore, ownNesting[n.level - 1])
  BY <1>1, <1>2 DEF Linked, LevelAt, Suspended
<1>4. n.ownBefore \in Int /\ n.level \in Nat /\ IsFunction(n) = 1
  BY <1>1, <1>2, NodeType
<1>5. depth \in Nat \ {0} /\ own \in Seq(Nat) /\ Len(own) = depth
  BY <1>3, <1>4 DEF depth, Chain, PathTypeOK
<1>6. own' \in Seq(Nat) /\ Len(own') = depth - 1 /\ depth' = depth - 1
  <2>1. own' = SubSeq(own, 1, depth - 1)
    BY <1>1, <1>5 DEF DropLast
  <2>2. own' \in Seq(Nat) /\ Len(own') = depth - 1
    BY <2>1, <1>5
  <2> QED BY <2>2 DEF depth
<1>7. /\ ownNesting' \in Seq(Int) /\ Len(ownNesting') = depth - 1
      /\ \A l \in 1 .. depth - 1 : ownNesting'[l] = ownNesting[l]
  <2> DEFINE out == OwnNestingOut
  <2>1. /\ out \in Seq(Int) /\ Len(out) = depth
        /\ \A l \in 1 .. depth - 1 : out[l] = ownNesting[l]
    BY <1>1, OwnLeft
  <2> HIDE DEF out
  <2>2. ownNesting' = SubSeq(out, 1, depth - 1)
    BY <2>1, <1>1 DEF DropLast, out
  <2> QED BY <2>1, <2>2, <1>5
<1>8. PathTypeOK'
  BY <1>1, <1>2, <1>6, <1>7 DEF Chain, PathTypeOK
<1>9. depth' > 0 => /\ n.ownBefore <= OwnNow'
                    /\ ~ branchFunction => n.ownBefore = OwnNow'
  <2> SUFFICES ASSUME depth' > 0
               PROVE  /\ n.ownBefore <= OwnNow'
                      /\ ~ branchFunction => n.ownBefore = OwnNow'
    OBVIOUS
  <2>1. OwnNow' = ownNesting[depth - 1] /\ n.level > 1
    BY <1>3, <1>5, <1>6, <1>7 DEF OwnNow
  <2> QED BY <2>1, <1>3 DEF Keeps
<1>10. depth' = n.level - IsFunction(n)
  BY <1>3, <1>4, <1>6
<1>11. \A l \in 1 .. depth' - 1 : ownNesting'[l] = ownNesting[l]
  BY <1>5, <1>6, <1>7
<1>12. Chain'
  BY <1>1, <1>2, <1>8, <1>9, <1>10, <1>11, ChainShrinks
<1> QED BY <1>5, <1>6, <1>12

-----------------------------------------------------------------------------
Inv == Chain /\ CountsOK /\ PointsCounted

LEMMA AddComplexityCounts ==
  ASSUME Inv, NEW n \in Nat, AddComplexity(n),
         UNCHANGED <<react, second, issues, surplus>>
  PROVE  own' \in Seq(Nat) /\ Len(own') = Len(own) /\ CountsOK' /\ PointsCounted'
<1>1. PICK none \in Nat : none = 0
  OBVIOUS
<1>2. Add(n, none, n, n)
  BY <1>1 DEF AddComplexity
<1> QED BY <1>2, AddCounts DEF Inv, Chain

LEMMA AddStructuralCounts ==
  ASSUME Inv, NEW n \in Nat, NEW branch \in BOOLEAN, AddStructural(n, branch),
         UNCHANGED <<react, second, issues, surplus>>
  PROVE  own' \in Seq(Nat) /\ Len(own') = Len(own) /\ CountsOK' /\ PointsCounted'
<1>1. nesting \in Nat /\ depth \in Nat /\ OwnNow \in Int /\ OwnNow >= 0
  BY Present DEF Inv, Chain, PathTypeOK
<1>2. depth > 0 => OwnNestingIn(branch)[depth] = OwnNow + (IF branch THEN 1 ELSE 0)
  BY OwnEntered DEF Inv
<1>3. PICK one \in Nat : one = 1
  OBVIOUS
<1>4. PICK sum \in Nat : sum = n + NestingIn(branch) + 1
  BY <1>1 DEF NestingIn
<1>5. PICK ownSum \in Nat :
        ownSum = n + 1 + IF depth = 0 THEN 0 ELSE OwnNestingIn(branch)[depth]
  BY <1>1, <1>2
<1>6. PICK count \in Nat : count = n + 1
  OBVIOUS
<1>7. Add(count, one, sum, ownSum)
  BY <1>3, <1>4, <1>5, <1>6 DEF AddStructural
<1> QED BY <1>7, AddCounts DEF Inv, Chain

LEMMA EnterFunctionCounts ==
  ASSUME Inv, NEW branch \in BOOLEAN, NEW isCapital \in BOOLEAN,
         EnterFunction(branch, isCapital)
  PROVE  CountsOK' /\ PointsCounted'
<1>1. depth \in Nat /\ depth' = depth + 1
  BY DEF Inv, Chain, PathTypeOK, depth, EnterFunction
<1>2. CountsOK'
  <2>1. UNCHANGED <<fileComplexity, issues, points, total, surplus>>
    BY DEF EnterFunction
  <2>2. /\ topOwn' \in Nat /\ deeper' \in Nat /\ ifNotNested' \in Nat /\ ifNested' \in Nat
        /\ second' \in [nested: Nat, alone: Nat]
    BY DEF Inv, CountsOK, EnterFunction
  <2>3. hasStructural' \in BOOLEAN /\ capital' \in BOOLEAN /\ returnsJsx' \in BOOLEAN
    <3>1. CASE depth = 0
      BY <3>1 DEF EnterFunction
    <3>2. CASE depth # 0
      BY <3>2 DEF Inv, CountsOK, EnterFunction, react
    <3> QED BY <3>1, <3>2
  <2> QED BY <2>1, <2>2, <2>3 DEF Inv, CountsOK
<1>3. PointsCounted'
  <2>1. CASE depth = 0
    BY <2>1, <1>1 DEF Inv, CountsOK, PointsCounted, EnterFunction, react
  <2>2. CASE depth = 1
    BY <2>2, <1>1 DEF Inv, CountsOK, PointsCounted, EnterFunction, react
  <2>3. CASE depth > 1
    BY <2>3, <1>1, SMTT(40) DEF Inv, CountsOK, PointsCounted, EnterFunction, react
  <2> QED BY <2>1, <2>2, <2>3, <1>1
<1> QED BY <1>2, <1>3

LEMMA LeaveFunctionCounts ==
  ASSUME Inv, LeaveFunction
  PROVE  CountsOK' /\ PointsCounted'
<1>1. depth \in Nat \ {0} /\ depth' = depth - 1
  BY LeaveFunctionChain DEF Inv
<1>2. CountsOK'
  <2>1. second' \in [nested: Nat, alone: Nat]
    BY DEF Inv, CountsOK, LeaveFunction
  <2>2. fileComplexity' \in Nat /\ surplus' \in Nat
    <3>1. second.nested \in Nat /\ second.alone \in Nat
      BY DEF Inv, CountsOK
    <3> QED BY <3>1 DEF Inv, CountsOK, LeaveFunction
  <2>3. issues' \in Nat
    BY DEF Inv, CountsOK, LeaveFunction
  <2>4. UNCHANGED <<hasStructural, capital, returnsJsx, topOwn, ifNotNested, ifNested,
                    points, total, deeper>>
    BY DEF LeaveFunction, react
  <2> QED BY <2>1, <2>2, <2>3, <2>4 DEF Inv, CountsOK
<1>3. PointsCounted'
  <2>1. CASE depth = 1
    BY <2>1, <1>1 DEF Inv, CountsOK, PointsCounted, LeaveFunction, LeavesSecondLevel, react
  <2>2. CASE depth = 2
    BY <2>2, <1>1 DEF Inv, CountsOK, PointsCounted, LeaveFunction, LeavesSecondLevel, react
  <2>3. CASE depth > 2
    BY <2>3, <1>1 DEF Inv, CountsOK, PointsCounted, LeaveFunction, LeavesSecondLevel, react
  <2> QED BY <2>1, <2>2, <2>3, <1>1
<1> QED BY <1>2, <1>3

LEMMA InvInit == Init => Inv
  <1> SUFFICES ASSUME Init PROVE Inv
    OBVIOUS
  <1>1. PathTypeOK /\ CountsOK /\ depth = 0
    <2>1. PathTypeOK
      <3>1. path \in Seq(Nodes) /\ own \in Seq(Nat) /\ ownNesting \in Seq(Int)
            /\ Len(own) = Len(ownNesting)
        BY EmptySeq DEF Init
      <3> QED BY <3>1 DEF Init, PathTypeOK
    <2>2. CountsOK
      BY DEF Init, CountsOK
    <2>3. depth = 0
      BY DEF Init, depth
    <2> QED BY <2>1, <2>2, <2>3
  <1>2. Chain
    BY <1>1 DEF Chain, Init, Keeps
  <1>3. PointsCounted
    BY <1>1 DEF PointsCounted, Init
  <1> QED BY <1>1, <1>2, <1>3 DEF Inv

LEMMA InvStep == Inv /\ [Next]_vars => Inv'
<1> SUFFICES ASSUME Inv, [Next]_vars PROVE Inv'
  OBVIOUS
<1>1. ASSUME NEW branch \in BOOLEAN, NEW alternate \in {"none", "else", "if"},
             IfStatement(branch, alternate)
      PROVE  Inv'
  <2>1. PICK else \in Nat : else = IF alternate = "else" THEN 1 ELSE 0
    OBVIOUS
  <2>2. PICK kind \in Kinds \ {"function"} :
          kind = IF alternate = "if" THEN "if chain" ELSE "if"
    BY DEF Kinds
  <2>3. PICK children \in Nat : children = 1 + else
    OBVIOUS
  <2>4. Enter(kind, branch, children) /\ AddStructural(else, branch)
    BY <1>1, <2>1, <2>2, <2>3 DEF IfStatement
  <2>5. own' \in Seq(Nat) /\ Len(own') = Len(own) /\ CountsOK' /\ PointsCounted'
    BY <2>4, AddStructuralCounts DEF Enter
  <2> QED BY <2>4, <2>5, EnterChain DEF Inv
<1>2. ASSUME NEW branch \in BOOLEAN, NEW kind \in {"loop or catch", "switch", "conditional"},
             Structure(kind, branch)
      PROVE  Inv'
  <2>1. kind \in Kinds \ {"function"}
    BY DEF Kinds
  <2>2. PICK n \in Branches(kind) : Enter(kind, branch, n)
    BY <1>2 DEF Structure
  <2>3. n \in Nat
    <3>1. CASE kind = "switch"
      BY <3>1, <2>2, LimitsAssumption DEF Branches
    <3>2. CASE kind = "conditional"
      BY <3>2, <2>2 DEF Branches
    <3>3. CASE kind = "loop or catch"
      <4>1. Branches(kind) = {1}
        BY <3>3, Zenon DEF Branches
      <4>2. n = 1
        BY <4>1, <2>2, Zenon
      <4> QED BY <4>2
    <3> QED BY <3>1, <3>2, <3>3
  <2>4. PICK none \in Nat : none = 0
    OBVIOUS
  <2>5. AddStructural(none, branch)
    BY <1>2, <2>4 DEF Structure
  <2>6. own' \in Seq(Nat) /\ Len(own') = Len(own) /\ CountsOK' /\ PointsCounted'
    BY <2>2, <2>5, AddStructuralCounts DEF Enter
  <2> QED BY <2>1, <2>2, <2>3, <2>6, EnterChain DEF Inv
<1>3. ASSUME NEW branch \in BOOLEAN, NEW n \in 0 .. MaxOperators,
             LogicalExpression(branch, n)
      PROVE  Inv'
  <2>1. PICK kind \in Kinds \ {"function"} : kind = "logical"
    BY DEF Kinds
  <2>2. PICK none \in Nat : none = 0
    OBVIOUS
  <2>3. Enter(kind, branch, none) /\ AddComplexity(n) /\ n \in Nat
    BY <1>3, <2>1, <2>2, LimitsAssumption DEF LogicalExpression
  <2>4. own' \in Seq(Nat) /\ Len(own') = Len(own) /\ CountsOK' /\ PointsCounted'
    BY <2>3, AddComplexityCounts DEF Enter
  <2> QED BY <2>3, <2>4, EnterChain DEF Inv
<1>4. ASSUME NEW branch \in BOOLEAN, NEW isCapital \in BOOLEAN,
             EnterFunction(branch, isCapital)
      PROVE  Inv'
  BY <1>4, EnterFunctionChain, EnterFunctionCounts DEF Inv
<1>5. ASSUME NEW alternate \in {"none", "else", "if"}, ElseIf(alternate)
      PROVE  Inv'
  <2>1. PICK n \in Nat : n = 1 + IF alternate = "else" THEN 1 ELSE 0
    OBVIOUS
  <2>2. AddComplexity(n) /\ UNCHANGED <<react, second, issues, surplus>>
    BY <1>5, <2>1 DEF ElseIf
  <2>3. own' \in Seq(Nat) /\ Len(own') = Len(own) /\ CountsOK' /\ PointsCounted'
    BY <2>2, AddComplexityCounts
  <2> QED BY <1>5, <2>3, ElseIfChain DEF Inv
<1>6. CASE Block
  <2>1. PICK kind \in Kinds \ {"function"} : kind = "block"
    BY DEF Kinds
  <2>2. PICK none \in Nat : none = 0
    OBVIOUS
  <2>3. PICK yes \in BOOLEAN : yes = TRUE
    OBVIOUS
  <2>4. Enter(kind, yes, none)
    BY <1>6, <2>1, <2>2, <2>3 DEF Block
  <2>5. own' = own /\ own \in Seq(Nat)
    BY <1>6 DEF Block, sums, Inv, Chain, PathTypeOK
  <2>6. CountsOK' /\ PointsCounted'
    BY <1>6 DEF Block, Enter, sums, react, Inv, CountsOK, PointsCounted, depth
  <2> QED BY <2>4, <2>5, <2>6, EnterChain DEF Inv
<1>7. CASE Jump
  <2>1. PICK n \in Nat : n = 1
    OBVIOUS
  <2>2. AddComplexity(n) /\ UNCHANGED <<react, second, issues, surplus>>
        /\ UNCHANGED <<path, nesting, ownNesting, branchFunction>>
    BY <1>7, <2>1 DEF Jump, tree
  <2>3. own' \in Seq(Nat) /\ Len(own') = Len(own) /\ CountsOK' /\ PointsCounted'
    BY <2>2, AddComplexityCounts
  <2> QED BY <2>2, <2>3, ChainStays DEF Inv
<1>8. CASE ReturnJsx
  <2>1. own' = own /\ own \in Seq(Nat)
        /\ UNCHANGED <<path, nesting, ownNesting, branchFunction>>
    BY <1>8 DEF ReturnJsx, tree, sums, Inv, Chain, PathTypeOK
  <2>2. CountsOK' /\ PointsCounted'
    BY <1>8 DEF ReturnJsx, sums, Inv, CountsOK, PointsCounted, depth
  <2> QED BY <2>1, <2>2, ChainStays DEF Inv
<1>9. CASE Leave
  <2>1. CountsOK' /\ PointsCounted'
    BY <1>9 DEF Leave, sums, react, Inv, CountsOK, PointsCounted, depth
  <2> QED BY <1>9, <2>1, LeaveChain DEF Inv
<1>10. CASE LeaveFunction
  BY <1>10, LeaveFunctionChain, LeaveFunctionCounts DEF Inv
<1>11. CASE UNCHANGED vars
  <2>1. own' = own /\ own \in Seq(Nat)
        /\ UNCHANGED <<path, nesting, ownNesting, branchFunction>>
    BY <1>11 DEF vars, Inv, Chain, PathTypeOK
  <2>2. CountsOK' /\ PointsCounted'
    BY <1>11 DEF vars, Inv, CountsOK, PointsCounted, depth
  <2> QED BY <2>1, <2>2, ChainStays DEF Inv
<1> QED BY <1>1, <1>2, <1>3, <1>4, <1>5, <1>6, <1>7, <1>8, <1>9, <1>10, <1>11 DEF Next

LEMMA InvHolds == Spec => []Inv
  BY InvInit, InvStep, PTL DEF Spec

(* The counters keep their types: in particular `nesting`, and what is     *)
(* added to the complexity of a function, are never negative, although     *)
(* '*:exit' decrements the nesting of the wrong function when a function   *)
(* is a branch.                                                            *)
THEOREM ComplexityTypeCorrect == Spec => []TypeOK
<1>1. Inv => TypeOK
  BY DEF Inv, Chain, PathTypeOK, CountsOK, TypeOK
<1> QED BY <1>1, InvHolds, PTL

(* `nesting` is what it was before once a node is left.                    *)
THEOREM NestingIsRestored == Spec => []NestingRestored
<1>1. Inv => NestingRestored
  <2> SUFFICES ASSUME Inv, ~ branchFunction
               PROVE  /\ path = <<>> => nesting = 0
                      /\ \A i \in DOMAIN path :
                           /\ i = 1 => path[i].before = 0
                           /\ path[i].before + Adds(path[i]) =
                                IF i = Len(path) THEN nesting ELSE path[i + 1].before
    BY DEF NestingRestored
  <2>1. path = <<>> => nesting = 0
    BY DEF Inv, Chain, Keeps
  <2>2. ASSUME NEW i \in DOMAIN path
        PROVE  /\ i = 1 => path[i].before = 0
               /\ path[i].before + Adds(path[i]) =
                    IF i = Len(path) THEN nesting ELSE path[i + 1].before
    <3>1. i \in 1 .. Len(path) /\ path[i] \in Nodes
      BY DEF Inv, Chain, PathTypeOK
    <3>2. Linked(i)
      BY <3>1 DEF Inv, Chain
    <3>3. Adds(path[i]) = Mark(path[i])
      BY <3>1, <3>2 DEF Linked, Marked, Adds, Mark, Nodes
    <3> QED BY <3>2, <3>3 DEF Linked, Keeps, NestingAt
  <2> QED BY <2>1, <2>2
<1> QED BY <1>1, InvHolds, PTL

(* The own nesting of every enclosing function is the one it had when the  *)
(* next node inside was entered.                                           *)
THEOREM OwnNestingIsRestored == Spec => []OwnNestingRestored
<1>1. Inv => OwnNestingRestored
  <2> SUFFICES ASSUME Inv, ~ branchFunction, NEW i \in DOMAIN path
               PROVE  LET inside == IF path[i].kind = "function" THEN 0
                                    ELSE IF path[i].level = 0 THEN 0
                                    ELSE path[i].ownBefore + (IF path[i].branch THEN 1 ELSE 0)
                          next == IF i < Len(path) THEN path[i + 1].ownBefore
                                  ELSE IF depth = 0 THEN 0 ELSE ownNesting[depth]
                      IN  /\ inside = next
                          /\ path[i].kind = "function" /\ path[i].level > 1 =>
                               ownNesting[path[i].level - 1] = path[i].ownBefore
    BY DEF OwnNestingRestored
  <2>1. i \in 1 .. Len(path) /\ path[i] \in Nodes /\ Len(path) \in Nat
    BY DEF Inv, Chain, PathTypeOK
  <2>2. Linked(i) /\ Suspended(i)
    BY <2>1 DEF Inv, Chain
  <2>3. path[i].kind # "function" => Mark(path[i]) = IF path[i].branch THEN 1 ELSE 0
    BY <2>1, <2>2 DEF Linked, Marked, Mark, Nodes
  <2>4. OwnInside(path[i]) = OwnAt(i)
    BY <2>2 DEF Linked, Keeps
  <2>5. OwnAt(i) = IF i < Len(path) THEN path[i + 1].ownBefore
                   ELSE IF depth = 0 THEN 0 ELSE ownNesting[depth]
    BY <2>1 DEF OwnAt, OwnNow
  <2>6. path[i].kind = "function" /\ path[i].level > 1 =>
          ownNesting[path[i].level - 1] = path[i].ownBefore
    BY <2>2 DEF Suspended, Keeps
  <2> QED BY <2>3, <2>4, <2>5, <2>6 DEF OwnInside
<1> QED BY <1>1, InvHolds, PTL

(* Both levels of nesting are what they were once a node is left, on any   *)
(* tree in which no function is itself a branch of a conditional.          *)
THEOREM CountersAreRestored == Spec => []CountersRestored
<1>1. NestingRestored /\ OwnNestingRestored => CountersRestored
  BY DEF CountersRestored
<1> QED BY <1>1, NestingIsRestored, OwnNestingIsRestored, PTL

(* No complexity point is lost or counted twice.                           *)
THEOREM AllPointsCounted == Spec => []PointsCounted
<1>1. Inv => PointsCounted
  BY DEF Inv
<1> QED BY <1>1, InvHolds, PTL
=============================================================================
