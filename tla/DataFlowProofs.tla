--------------------------- MODULE DataFlowProofs ---------------------------
(***************************************************************************)
(* What the two worklist algorithms promise, for every code path: any      *)
(* number of segments, any edges, any references; and what S1854 reports,  *)
(* for every file.                                                         *)
(***************************************************************************)
EXTENDS DeadStores, RedundantAssignments, SequenceTheorems, FiniteSetTheorems,
        WellFoundedInduction, TLAPS

(* The last element is taken from a stack of segments.                     *)
LEMMA TakeLast ==
  ASSUME NEW S, NEW w \in Seq(S), w # <<>>
  PROVE  /\ Len(w) \in Nat /\ Len(w) > 0
         /\ w[Len(w)] \in S
         /\ SubSeq(w, 1, Len(w) - 1) \in Seq(S)
         /\ Elements(w) = Elements(SubSeq(w, 1, Len(w) - 1)) \cup {w[Len(w)]}
<1>1. Len(w) \in Nat /\ Len(w) > 0 /\ DOMAIN w = 1 .. Len(w)
  OBVIOUS
<1>2. w[Len(w)] \in S
  BY <1>1
<1> DEFINE u == SubSeq(w, 1, Len(w) - 1)
<1>3. u \in Seq(S)
  BY <1>1
<1>4. DOMAIN u = 1 .. Len(w) - 1 /\ \A i \in 1 .. Len(w) - 1 : u[i] = w[i]
  BY <1>1
<1> HIDE DEF u
<1>5. Elements(w) = Elements(u) \cup {w[Len(w)]}
  BY <1>1, <1>4 DEF Elements
<1> QED
  BY <1>1, <1>2, <1>3, <1>5 DEF u

(* Segments are pushed.                                                    *)
LEMMA PushAll ==
  ASSUME NEW S, NEW w \in Seq(S), NEW u \in Seq(S)
  PROVE  /\ w \o u \in Seq(S)
         /\ Elements(w \o u) = Elements(w) \cup Elements(u)
<1>1. w \o u \in Seq(S)
  OBVIOUS
<1>2. /\ Len(w) \in Nat /\ Len(u) \in Nat
      /\ DOMAIN w = 1 .. Len(w) /\ DOMAIN u = 1 .. Len(u)
      /\ DOMAIN (w \o u) = 1 .. Len(w) + Len(u)
  OBVIOUS
<1>3. \A i \in 1 .. Len(w) : (w \o u)[i] = w[i]
  BY <1>2
<1>4. \A i \in 1 .. Len(u) : (w \o u)[Len(w) + i] = u[i]
  BY <1>2
<1> DEFINE c == w \o u
<1> HIDE DEF c
<1>5. ASSUME NEW x \in Elements(w) PROVE x \in Elements(c)
  BY <1>2, <1>3 DEF Elements, c
<1>6. ASSUME NEW x \in Elements(u) PROVE x \in Elements(c)
  <2>1. PICK i \in 1 .. Len(u) : x = u[i]
    BY <1>2 DEF Elements
  <2>2. Len(w) + i \in DOMAIN c /\ c[Len(w) + i] = x
    BY <2>1, <1>2, <1>4 DEF c
  <2> QED BY <2>2 DEF Elements
<1>7. ASSUME NEW x \in Elements(c) PROVE x \in Elements(w) \cup Elements(u)
  <2>1. PICK i \in 1 .. Len(w) + Len(u) : x = c[i]
    BY <1>2 DEF Elements, c
  <2>2. CASE i <= Len(w)
    BY <2>1, <2>2, <1>2, <1>3 DEF Elements, c
  <2>3. CASE i > Len(w)
    <3>1. i - Len(w) \in 1 .. Len(u) /\ i = Len(w) + (i - Len(w))
      BY <2>1, <2>3, <1>2
    <3>2. x = u[i - Len(w)]
      BY <3>1, <2>1, <1>4 DEF c
    <3> QED BY <3>1, <3>2, <1>2 DEF Elements
  <2> QED BY <2>1, <2>2, <2>3, <1>2
<1> QED BY <1>1, <1>5, <1>6, <1>7 DEF c

-----------------------------------------------------------------------------
(* lva()                                                                   *)

(* The state of lva(), without the run.                                    *)
LiveTyped ==
  /\ GraphOK
  /\ ReferencesOK
  /\ liveWork \in Seq(Segments)
  /\ liveIn \in [Segments -> SUBSET Variables]
  /\ liveOut \in [Segments -> SUBSET Variables]

(* What the analysis computes from is typed.                               *)
LEMMA LiveSets ==
  ASSUME LiveTyped, NEW s \in Segments
  PROVE  /\ gen(s) \subseteq Variables
         /\ OutOf(s) \subseteq Variables
         /\ InOf(s) \subseteq Variables
<1>1. \A k \in DOMAIN references[s] : references[s][k] \in Ref
  BY DEF LiveTyped, ReferencesOK
<1>2. gen(s) \subseteq Variables
  BY <1>1 DEF gen, Elements, Ref
<1>3. \A k \in DOMAIN nextSegments[s] : nextSegments[s][k] \in Segments
  BY DEF LiveTyped, GraphOK
<1>4. OutOf(s) \subseteq Variables
  BY <1>3 DEF OutOf, Elements, LiveTyped
<1> QED BY <1>2, <1>4 DEF InOf, difference

LEMMA PropagateTyped ==
  ASSUME LiveTyped, Propagate, UNCHANGED <<nextSegments, prevSegments, references>>
  PROVE  LiveTyped'
<1> DEFINE s == Top(liveWork)
<1>1. s \in Segments /\ Pop(liveWork) \in Seq(Segments)
  BY TakeLast DEF Propagate, LiveTyped, Top, Pop
<1>2. prevSegments[s] \in Seq(Segments)
  BY <1>1 DEF LiveTyped, GraphOK
<1>3. liveWork' \in Seq(Segments)
  <2>1. Pop(liveWork) \o prevSegments[s] \in Seq(Segments)
    BY <1>1, <1>2, PushAll
  <2> QED BY <1>1, <2>1 DEF Propagate, Push
<1>4. OutOf(s) \subseteq Variables /\ InOf(s) \subseteq Variables
  BY <1>1, LiveSets
<1> HIDE DEF s
<1>5. liveIn' \in [Segments -> SUBSET Variables]
  BY <1>1, <1>4 DEF Propagate, LiveTyped, s
<1>6. liveOut' \in [Segments -> SUBSET Variables]
  BY <1>1, <1>4 DEF Propagate, LiveTyped, s
<1> QED BY <1>3, <1>5, <1>6 DEF LiveTyped, GraphOK, ReferencesOK

LEMMA LiveStarts ==
  ASSUME LiveInit
  PROVE  /\ liveWork \in Seq(Segments) /\ Elements(liveWork) = Segments
         /\ liveIn \in [Segments -> SUBSET Variables]
         /\ liveOut \in [Segments -> SUBSET Variables]
<1>1. liveWork \in Seq(Segments)
  BY SegmentsAssumption DEF LiveInit, InitialWork, Segments
<1>2. Elements(liveWork) = Segments
  BY DEF LiveInit, InitialWork, Segments, Elements
<1> QED BY <1>1, <1>2 DEF LiveInit

(* The state of lva() and of the run keeps its type, whatever the edges    *)
(* and the references are.                                                 *)
THEOREM LiveTypeCorrect == LVSpec => []LVTypeOK
<1>1. LVInit => LVTypeOK
  <2> SUFFICES ASSUME LVInit PROVE LVTypeOK
    OBVIOUS
  <2> QED BY LiveStarts DEF LVInit, LVTypeOK, NoStore
<1>2. LVTypeOK /\ [LVNext]_lvVars => LVTypeOK'
  <2> SUFFICES ASSUME LVTypeOK, [LVNext]_lvVars PROVE LVTypeOK'
    OBVIOUS
  <2>1. CASE UNCHANGED lvVars
    BY <2>1 DEF lvVars, LVTypeOK, GraphOK, ReferencesOK
  <2>2. CASE LVNext /\ Propagate /\ UNCHANGED runVars
    <3>1. LiveTyped'
      BY <2>2, PropagateTyped DEF LVTypeOK, LiveTyped, LVNext
    <3> QED BY <2>2, <3>1 DEF LiveTyped, LVTypeOK, runVars
  <2>3. CASE LVNext /\ Evaluate /\ UNCHANGED liveVars
    <3>1. at[1] \in Segments /\ at[2] \in Nat \ {0} /\ at = <<at[1], at[2]>>
      BY DEF LVTypeOK
    <3>2. at' \in Segments \X (Nat \ {0})
      BY <2>3, <3>1 DEF Evaluate
    <3>3. at \in Segments \X Nat
      BY <3>1
    <3>4. holds' \in [Variables -> (Segments \X Nat) \cup {NoStore}]
      BY <2>3, <3>3 DEF Evaluate, LVTypeOK
    <3> QED BY <2>3, <3>2, <3>4 DEF LVNext, LVTypeOK, GraphOK, ReferencesOK, liveVars
  <2>4. CASE LVNext /\ Follow /\ UNCHANGED liveVars
    <3>1. at[1] \in Segments
      BY DEF LVTypeOK
    <3>2. \A t \in Elements(nextSegments[at[1]]) : t \in Segments
      BY <3>1 DEF LVTypeOK, GraphOK, Elements
    <3>3. at' \in Segments \X (Nat \ {0})
      BY <2>4, <3>2 DEF Follow
    <3> QED BY <2>4, <3>3 DEF Follow, LVNext, LVTypeOK, GraphOK, ReferencesOK, liveVars
  <2> QED BY <2>1, <2>2, <2>3, <2>4 DEF LVNext
<1> QED BY <1>1, <1>2, PTL DEF LVSpec

(* The equations of a segment hold.                                        *)
Solved(s) == liveOut[s] = OutOf(s) /\ InOf(s) \subseteq liveIn[s]

(* A segment that is not on the worklist is solved: what could disturb it, *)
(* a successor that needs more, puts it back there.                        *)
Settled ==
  /\ LiveTyped
  /\ \A s \in Segments : s \notin Elements(liveWork) => Solved(s)

LiveSettled == LVTypeOK /\ Settled

(* The step that takes a segment from the worklist keeps the others solved.*)
LEMMA PropagateSettles ==
  ASSUME Settled, Propagate, UNCHANGED <<nextSegments, prevSegments, references>>
  PROVE  Settled'
<1> DEFINE s == Top(liveWork)
<1>1. /\ s \in Segments
      /\ Pop(liveWork) \in Seq(Segments)
      /\ Elements(liveWork) = Elements(Pop(liveWork)) \cup {s}
  BY TakeLast DEF Propagate, Settled, LiveTyped, Top, Pop
<1>2. Elements(Push(Pop(liveWork), prevSegments[s]))
        = Elements(Pop(liveWork)) \cup Elements(prevSegments[s])
  <2>1. prevSegments[s] \in Seq(Segments)
    BY <1>1 DEF Settled, LiveTyped, GraphOK
  <2> QED BY <1>1, <2>1, PushAll DEF Push
<1>3. UNCHANGED <<nextSegments, prevSegments, references>> /\ LiveTyped'
  BY PropagateTyped DEF Settled
<1> SUFFICES ASSUME NEW t \in Segments, t \notin Elements(liveWork')
             PROVE  Solved(t)'
  BY <1>3 DEF Settled
<1> HIDE DEF s
<1>4. liveIn' # liveIn => liveIn' = [liveIn EXCEPT ![s] = InOf(s)]
                          /\ liveWork' = Push(Pop(liveWork), prevSegments[s])
  BY DEF Propagate, s
<1>5. t \notin Elements(Pop(liveWork))
  BY <1>2 DEF Propagate, s
<1>6. \A q \in Elements(nextSegments[t]) : liveIn'[q] = liveIn[q]
  <2>1. CASE liveIn' = liveIn
    BY <2>1
  <2>2. CASE liveIn' # liveIn
    <3>1. t \notin Elements(prevSegments[s])
      BY <2>2, <1>4, <1>2
    <3>2. s \notin Elements(nextSegments[t])
      BY <3>1, <1>1 DEF Settled, LiveTyped, GraphOK
    <3>3. Elements(nextSegments[t]) \subseteq Segments
      BY SMTT(40) DEF Settled, LiveTyped, GraphOK, Elements
    <3> QED BY <2>2, <1>4, <3>2, <3>3 DEF Settled, LiveTyped
  <2> QED BY <2>1, <2>2
<1>7. OutOf(t)' = OutOf(t)
  BY <1>3, <1>6 DEF OutOf, Elements
<1>8. InOf(t)' = InOf(t)
  BY <1>3, <1>7 DEF InOf, gen, difference, kill, Elements
<1>9. CASE t = s
  <2>1. liveOut'[t] = OutOf(t)
    BY <1>9, <1>1 DEF Propagate, s, Settled, LiveTyped
  <2>2. InOf(t) \subseteq liveIn'[t]
    <3>1. CASE shouldUpdate(t)
      <4>1. liveIn' = [liveIn EXCEPT ![s] = InOf(s)]
        BY <3>1, <1>9 DEF Propagate, s
      <4> QED BY <4>1, <1>9, <1>1 DEF Settled, LiveTyped
    <3>2. CASE ~ shouldUpdate(t)
      <4>1. liveIn' = liveIn
        BY <3>2, <1>9 DEF Propagate, s
      <4> QED BY <4>1, <3>2 DEF shouldUpdate
    <3> QED BY <3>1, <3>2
  <2> QED BY <2>1, <2>2, <1>7, <1>8 DEF Solved
<1>10. CASE t # s
  <2>1. Solved(t)
    BY <1>10, <1>1, <1>5 DEF Settled
  <2>2. liveOut'[t] = liveOut[t] /\ liveIn'[t] = liveIn[t]
    BY <1>10, <1>1, <1>4 DEF Propagate, s, Settled, LiveTyped
  <2> QED BY <2>1, <2>2, <1>7, <1>8 DEF Solved
<1> QED BY <1>9, <1>10

LEMMA SettledSame ==
  ASSUME Settled, UNCHANGED <<nextSegments, prevSegments, references, liveWork, liveIn, liveOut>>
  PROVE  Settled'
<1>1. LiveTyped'
  BY DEF Settled, LiveTyped, GraphOK, ReferencesOK
<1>2. \A s \in Segments : Solved(s)' <=> Solved(s)
  BY DEF Solved, OutOf, InOf, gen, difference, kill
<1> QED BY <1>1, <1>2 DEF Settled

LEMMA LiveStaysSettled == LVSpec => []LiveSettled
<1>1. LVInit => Settled
  BY LiveStarts DEF LVInit, LiveTyped, Settled
<1>2. Settled /\ [LVNext]_lvVars => Settled'
  <2> SUFFICES ASSUME Settled, [LVNext]_lvVars PROVE Settled'
    OBVIOUS
  <2>1. CASE LVNext /\ Propagate
    BY <2>1, PropagateSettles DEF LVNext
  <2>2. CASE UNCHANGED <<nextSegments, prevSegments, references, liveVars>>
    BY <2>2, SettledSame DEF liveVars
  <2> QED BY <2>1, <2>2 DEF LVNext, lvVars, liveVars
<1> QED BY <1>1, <1>2, LiveTypeCorrect, PTL DEF LVSpec, LiveSettled

(* When lva() ends the sets solve the data-flow equations of the whole     *)
(* code path, in whatever order segments were taken from the worklist.     *)
THEOREM LiveEquationsHold == LVSpec => []LiveSolved
<1>1. LiveSettled => LiveSolved
  BY DEF LiveSettled, Settled, LiveSolved, Solved, InOf, Elements
<1> QED BY <1>1, LiveStaysSettled, PTL

-----------------------------------------------------------------------------
(* The run                                                                 *)

(* A variable is only held from a store to it, and if its next reference   *)
(* is a read then that store was not found dead.                           *)
HeldStores ==
  \A v \in Variables : holds[v] # NoStore =>
    /\ liveWork = <<>>
    /\ WillBeRead(v, at[1], at[2]) => ~ DeadStore(holds[v][1], holds[v][2])

(* What is read from the start of a segment is live there.                 *)
LEMMA ReadIsLive ==
  ASSUME LiveSettled, liveWork = <<>>, NEW v \in Variables, NEW t \in Segments,
         WillBeRead(v, t, 1)
  PROVE  v \in liveIn[t]
<1>1. Solved(t)
  BY DEF LiveSettled, Settled, Elements
<1>2. references[t] \in Seq(Ref) /\ \A j \in DOMAIN references[t] : j >= 1
  BY DEF LiveSettled, LVTypeOK, ReferencesOK
<1> DEFINE here == {j \in DOMAIN references[t] : j >= 1 /\ references[t][j].var = v}
<1>3. CASE here = {} /\ v \in liveOut[t]
  <2>1. v \notin kill(t)
    BY <1>2, <1>3 DEF kill, Elements
  <2> QED BY <1>1, <1>3, <2>1 DEF Solved, InOf, difference
<1>4. CASE \E j \in here : references[t][j].read
  <2>1. v \in gen(t)
    BY <1>4 DEF gen, Elements
  <2> QED BY <1>1, <2>1 DEF Solved, InOf
<1> QED BY <1>3, <1>4 DEF WillBeRead

LEMMA EvaluateKeepsHeld ==
  ASSUME LiveSettled, HeldStores, LVNext, Evaluate, UNCHANGED liveVars
  PROVE  HeldStores'
<1> DEFINE s == at[1]
           k == at[2]
           r == references[s][k]
<1>1. /\ s \in Segments /\ k \in Nat \ {0} /\ at = <<s, k>>
      /\ k \in DOMAIN references[s]
      /\ references[s] \in Seq(Ref)
  BY DEF LiveSettled, LVTypeOK, ReferencesOK, Evaluate
<1>2. r \in Ref /\ (r.read \/ r.write) /\ r.var \in Variables
  BY <1>1 DEF Ref
<1>3. at'[1] = s /\ at'[2] = k + 1 /\ liveWork' = <<>>
  BY DEF Evaluate, liveVars
<1>4. UNCHANGED <<references, liveOut>> /\ holds \in [Variables -> (Segments \X Nat) \cup {NoStore}]
  BY DEF LVNext, liveVars, LiveSettled, LVTypeOK
<1>5. \A v, t, j : WillBeRead(v, t, j)' = WillBeRead(v, t, j)
  BY <1>4 DEF WillBeRead
<1>6. \A t, j : DeadStore(t, j)' = DeadStore(t, j)
  BY <1>4, <1>5 DEF DeadStore
<1>7. holds' = IF r.write THEN [holds EXCEPT ![r.var] = at] ELSE holds
  BY DEF Evaluate
<1> SUFFICES ASSUME NEW v \in Variables, holds'[v] # NoStore,
                    WillBeRead(v, s, k + 1)
             PROVE  ~ DeadStore(holds'[v][1], holds'[v][2])
  BY <1>3, <1>5, <1>6 DEF HeldStores
<1> HIDE DEF s, k, r
<1>8. CASE v = r.var /\ r.write
  <2>1. holds'[v] = <<s, k>>
    BY <1>7, <1>8, <1>4, <1>1
  <2> QED BY <2>1, <1>8 DEF DeadStore, r
<1>9. CASE v = r.var /\ ~ r.write
  <2>1. WillBeRead(v, s, k)
    BY <1>9, <1>1, <1>2 DEF WillBeRead, r
  <2> QED BY <2>1, <1>7, <1>9 DEF HeldStores, s, k
<1>10. CASE v # r.var
  <2>1. {j \in DOMAIN references[s] : j >= k + 1 /\ references[s][j].var = v}
        = {j \in DOMAIN references[s] : j >= k /\ references[s][j].var = v}
    BY <1>10, <1>1 DEF r
  <2>2. WillBeRead(v, s, k)
    BY <2>1 DEF WillBeRead
  <2>3. holds'[v] = holds[v]
    BY <1>7, <1>10, <1>4, <1>2
  <2> QED BY <2>2, <2>3 DEF HeldStores, s, k
<1> QED BY <1>8, <1>9, <1>10

LEMMA FollowKeepsHeld ==
  ASSUME LiveSettled, HeldStores, LVNext, Follow, UNCHANGED liveVars
  PROVE  HeldStores'
<1> DEFINE s == at[1]
           k == at[2]
<1>1. /\ s \in Segments /\ k \in Nat \ {0} /\ k \notin DOMAIN references[s]
      /\ references[s] \in Seq(Ref)
  BY DEF LiveSettled, LVTypeOK, ReferencesOK, Follow
<1>2. PICK t \in Elements(nextSegments[s]) : at' = <<t, 1>>
  BY DEF Follow
<1>3. t \in Segments
  BY <1>1, <1>2 DEF LiveSettled, LVTypeOK, GraphOK, Elements
<1>4. UNCHANGED <<references, liveOut, holds, liveWork>> /\ liveWork = <<>>
  BY DEF LVNext, liveVars, Follow
<1>5. \A v, q, j : WillBeRead(v, q, j)' = WillBeRead(v, q, j)
  BY <1>4 DEF WillBeRead
<1>6. \A q, j : DeadStore(q, j)' = DeadStore(q, j)
  BY <1>4, <1>5 DEF DeadStore
<1> SUFFICES ASSUME NEW v \in Variables, holds[v] # NoStore, WillBeRead(v, t, 1)
             PROVE  ~ DeadStore(holds[v][1], holds[v][2])
  BY <1>2, <1>4, <1>5, <1>6 DEF HeldStores
<1>7. v \in liveIn[t]
  BY <1>3, <1>4, ReadIsLive
<1>8. v \in liveOut[s]
  <2>1. Solved(s)
    BY <1>1, <1>4 DEF LiveSettled, Settled, Elements
  <2> QED BY <2>1, <1>7 DEF Solved, OutOf
<1>9. {j \in DOMAIN references[s] : j >= k /\ references[s][j].var = v} = {}
  BY <1>1
<1>10. WillBeRead(v, s, k)
  BY <1>8, <1>9 DEF WillBeRead
<1> QED BY <1>10 DEF HeldStores

(* No execution reads a store that checkSegment() finds useless.           *)
THEOREM DeadStoresAreUnread == LVSpec => []DeadStoresUnread
<1>1. LVInit => HeldStores
  BY DEF LVInit, HeldStores
<1>2. LiveSettled /\ HeldStores /\ [LVNext]_lvVars => HeldStores'
  <2> SUFFICES ASSUME LiveSettled, HeldStores, [LVNext]_lvVars PROVE HeldStores'
    OBVIOUS
  <2>1. CASE LVNext /\ Propagate /\ UNCHANGED runVars
    BY <2>1 DEF Propagate, HeldStores, runVars
  <2>2. CASE LVNext /\ Evaluate /\ UNCHANGED liveVars
    BY <2>2, EvaluateKeepsHeld
  <2>3. CASE LVNext /\ Follow /\ UNCHANGED liveVars
    BY <2>3, FollowKeepsHeld
  <2>4. CASE UNCHANGED lvVars
    <3>1. /\ references' = references /\ liveOut' = liveOut /\ liveWork' = liveWork
          /\ at' = at /\ holds' = holds
      BY <2>4 DEF lvVars
    <3>2. \A v, s, k : WillBeRead(v, s, k)' <=> WillBeRead(v, s, k)
      BY <3>1 DEF WillBeRead
    <3>3. \A s, k : DeadStore(s, k)' <=> DeadStore(s, k)
      BY <3>1, <3>2 DEF DeadStore
    <3> QED BY <3>1, <3>2, <3>3 DEF HeldStores
  <2> QED BY <2>1, <2>2, <2>3, <2>4 DEF LVNext
<1>3. LiveSettled /\ HeldStores => DeadStoresUnread
  <2> SUFFICES ASSUME LiveSettled, HeldStores, liveWork = <<>>,
                      at[2] \in DOMAIN references[at[1]],
                      references[at[1]][at[2]].read,
                      holds[references[at[1]][at[2]].var] # NoStore
               PROVE  LET r == references[at[1]][at[2]]
                      IN  ~ DeadStore(holds[r.var][1], holds[r.var][2])
    BY DEF DeadStoresUnread
  <2> DEFINE v == references[at[1]][at[2]].var
  <2>1. references[at[1]] \in Seq(Ref) /\ at[2] \in Nat
    BY DEF LiveSettled, LVTypeOK, ReferencesOK
  <2>2. v \in Variables
    BY <2>1 DEF Ref
  <2>3. WillBeRead(v, at[1], at[2])
    BY <2>1 DEF WillBeRead
  <2> QED BY <2>2, <2>3 DEF HeldStores
<1> QED BY <1>1, <1>2, <1>3, LiveStaysSettled, PTL DEF LVSpec

-----------------------------------------------------------------------------
(* reachingDefinitions()                                                   *)

(* The `out` of the predecessors and the join of them are program states.  *)
LEMMA JoinType ==
  ASSUME RDTypeOK, NEW s \in Segments
  PROVE  join(s) \in State
<1> SUFFICES ASSUME NEW v \in Variables PROVE join(s)[v] \in Values
  BY DEF join, State
<1> DEFINE all == {defOut[p][v] : p \in Elements(prevSegments[s])} \ {NoValues}
<1>1. Elements(prevSegments[s]) \subseteq Segments
  BY DEF RDTypeOK, GraphOK, Elements
<1>2. all \subseteq Values
  BY <1>1 DEF RDTypeOK, State
<1>3. UNION {x.literals : x \in all} \subseteq Literals
  BY <1>2 DEF Values, NoValues, unknownValue
<1>4. join(s)[v] = CASE all = {} -> NoValues
                     [] unknownValue \in all -> unknownValue
                     [] OTHER -> assignedValues(UNION {x.literals : x \in all})
  BY DEF join
<1> HIDE DEF all
<1>5. assignedValues(UNION {x.literals : x \in all}) \in Values
  BY <1>3 DEF assignedValues, Values
<1> QED BY <1>4, <1>5 DEF Values

LEMMA UpdateType ==
  ASSUME NEW r \in Ref, NEW state \in State
  PROVE  updateProgramState(r, state) \in State
<1>1. r.var \in Variables
  BY DEF Ref
<1>2. resolveAssignedValues(r.var, r.expr, state) \in Values
  <2>1. r.expr \in Literals => assignedValues({r.expr}) \in Values
    BY DEF assignedValues, Values
  <2>2. r.expr \in Variables => state[r.expr] \in Values
    BY DEF State
  <2>3. unknownValue \in Values
    BY DEF Values
  <2> QED BY <2>1, <2>2, <2>3 DEF resolveAssignedValues
<1> QED BY <1>1, <1>2 DEF updateProgramState, State

(* propagate() of `current` has begun with the join.                       *)
InProgress ==
  current # 0 => /\ Len(states[current]) \in 1 .. Len(references[current]) + 1
                 /\ states[current][1] = join(current)

(* The equations of a segment hold.                                        *)
DefSolved(s) ==
  /\ Len(states[s]) = Len(references[s]) + 1
  /\ states[s][1] = join(s)
  /\ defOut[s] = states[s][Len(states[s])]

(* Each state follows from the one before.                                 *)
Chained(s) ==
  \A k \in 1 .. Len(states[s]) - 1 :
    /\ k \in DOMAIN references[s]
    /\ states[s][k + 1] = updateProgramState(references[s][k], states[s][k])

(* A segment that waits for nothing is solved: when the `out` of one of    *)
(* its predecessors changes it is put on the worklist.                     *)
DefSettled ==
  /\ RDTypeOK
  /\ InProgress
  /\ \A s \in Segments :
       /\ s \notin Elements(defWork) /\ s # current => DefSolved(s)
       /\ Chained(s)

LEMMA SegmentFacts == 0 \notin Segments
  BY DEF Segments

LEMMA JoinStep ==
  ASSUME DefSettled, RDNext, Join, UNCHANGED <<point, env>>
  PROVE  DefSettled'
<1> DEFINE s == defWork[Len(defWork)]
           rest == SubSeq(defWork, 1, Len(defWork) - 1)
<1>1. /\ s \in Segments
      /\ rest \in Seq(Segments)
      /\ Elements(defWork) = Elements(rest) \cup {s}
  BY TakeLast DEF Join, DefSettled, RDTypeOK
<1>2. current' = s /\ defWork' = rest /\ defOut' = defOut /\ current = 0
  BY DEF Join
<1>3. states' = [states EXCEPT ![s] = <<join(s)>>] /\ states \in [Segments -> Seq(State)]
  BY DEF Join, DefSettled, RDTypeOK
<1>4. UNCHANGED <<nextSegments, prevSegments, references, captured, late>>
  BY DEF RDNext
<1>5. join(s) \in State
  BY <1>1, JoinType DEF DefSettled
<1> HIDE DEF s, rest
<1>6. <<join(s)>> \in Seq(State) /\ Len(<<join(s)>>) = 1 /\ <<join(s)>>[1] = join(s)
  BY <1>5
<1>7. states' \in [Segments -> Seq(State)]
  BY <1>3, <1>6
<1>8. RDTypeOK'
  BY <1>1, <1>2, <1>4, <1>7 DEF DefSettled, RDTypeOK, GraphOK, ReferencesOK
<1>9. \A t : join(t)' = join(t)
  BY <1>2, <1>4 DEF join, Elements
<1>10. Len(references[s]) \in Nat
  BY <1>1 DEF DefSettled, RDTypeOK, ReferencesOK
<1>11. InProgress'
  BY <1>1, <1>2, <1>3, <1>4, <1>6, <1>9, <1>10 DEF InProgress
<1>12. ASSUME NEW t \in Segments
       PROVE  /\ (t \notin Elements(defWork) /\ t # current => DefSolved(t))'
              /\ Chained(t)'
  <2>1. CASE t = s
    <3>1. states'[t] = <<join(s)>>
      BY <2>1, <1>1, <1>3
    <3> QED BY <3>1, <2>1, <1>2, <1>6 DEF Chained
  <2>2. CASE t # s
    <3>1. states'[t] = states[t]
      BY <2>2, <1>1, <1>3
    <3>2. Chained(t) /\ (t \notin Elements(defWork) => DefSolved(t))
      BY <1>2, SegmentFacts DEF DefSettled
    <3>3. DefSolved(t)' = DefSolved(t)
      BY <3>1, <1>2, <1>4, <1>9 DEF DefSolved
    <3>4. Chained(t)' = Chained(t)
      BY <3>1, <1>4 DEF Chained, updateProgramState, resolveAssignedValues
    <3>5. t \notin Elements(rest) => t \notin Elements(defWork)
      BY <2>2, <1>1
    <3> QED BY <3>2, <3>3, <3>4, <3>5, <1>2
  <2> QED BY <2>1, <2>2
<1> QED BY <1>8, <1>11, <1>12 DEF DefSettled

LEMMA UpdateStep ==
  ASSUME DefSettled, RDNext, Update, UNCHANGED <<point, env>>
  PROVE  DefSettled'
<1> DEFINE s == current
           done == states[s]
           n == Len(done)
           new == updateProgramState(references[s][n], done[n])
<1>1. /\ s \in Segments
      /\ done \in Seq(State) /\ references[s] \in Seq(Ref)
      /\ n \in 1 .. Len(references[s])
      /\ states[s][1] = join(s)
  BY DEF Update, DefSettled, RDTypeOK, ReferencesOK, InProgress
<1>2. UNCHANGED <<defWork, defOut, current, nextSegments, prevSegments, references,
                  captured, late>>
  BY DEF Update, RDNext
<1>3. states' = [states EXCEPT ![s] = Append(done, new)] /\ states \in [Segments -> Seq(State)]
  BY DEF Update, DefSettled, RDTypeOK
<1>4. new \in State
  <2>1. references[s][n] \in Ref /\ done[n] \in State
    BY <1>1
  <2> QED BY <2>1, UpdateType
<1> HIDE DEF new
<1>5. /\ states'[s] = Append(done, new)
      /\ states'[s] \in Seq(State)
      /\ Len(states'[s]) = n + 1
      /\ states'[s][n + 1] = new
      /\ \A k \in 1 .. n : states'[s][k] = done[k]
  <2> HIDE DEF done
  <2>1. states'[s] = Append(done, new)
    BY <1>1, <1>3
  <2> QED BY <2>1, <1>1, <1>4
<1>6. \A t \in Segments \ {s} : states'[t] = states[t]
  BY <1>3
<1>7. RDTypeOK'
  <2>1. states' \in [Segments -> Seq(State)]
    BY <1>1, <1>3, <1>5
  <2> QED BY <1>2, <2>1 DEF DefSettled, RDTypeOK, GraphOK, ReferencesOK
<1>8. \A t : join(t)' = join(t)
  BY <1>2 DEF join, Elements
<1>9. InProgress'
  <2>1. states'[s][1] = done[1] /\ n + 1 \in 1 .. Len(references[s]) + 1
    BY <1>1, <1>5
  <2> QED BY <2>1, <1>1, <1>2, <1>5, <1>8 DEF InProgress
<1>10. ASSUME NEW t \in Segments
       PROVE  /\ (t \notin Elements(defWork) /\ t # current => DefSolved(t))'
              /\ Chained(t)'
  <2>1. CASE t = s
    <3>1. Chained(s)
      BY <1>1 DEF DefSettled
    <3>2. ASSUME NEW k \in 1 .. n
          PROVE  /\ k \in DOMAIN references[s]
                 /\ states'[s][k + 1] = updateProgramState(references[s][k], states'[s][k])
      <4>1. CASE k = n
        BY <4>1, <1>1, <1>5 DEF new
      <4>2. CASE k # n
        <5>1. k \in 1 .. n - 1 /\ k + 1 \in 1 .. n
          BY <4>2, <1>1
        <5> QED BY <5>1, <3>1, <1>1, <1>5 DEF Chained
      <4> QED BY <4>1, <4>2
    <3>3. \A r, st : updateProgramState(r, st)' = updateProgramState(r, st)
      BY DEF updateProgramState, resolveAssignedValues
    <3>4. Chained(s)'
      BY <3>2, <1>1, <1>2, <1>5 DEF Chained
    <3> QED BY <2>1, <3>4, <1>2
  <2>2. CASE t # s
    <3>1. DefSolved(t)' = DefSolved(t)
      BY <2>2, <1>2, <1>6, <1>8 DEF DefSolved
    <3>2. Chained(t)' = Chained(t)
      BY <2>2, <1>2, <1>6 DEF Chained, updateProgramState, resolveAssignedValues
    <3> QED BY <2>2, <3>1, <3>2, <1>2 DEF DefSettled
  <2> QED BY <2>1, <2>2
<1> QED BY <1>7, <1>9, <1>10 DEF DefSettled

LEMMA CompareStep ==
  ASSUME DefSettled, RDNext, Compare, UNCHANGED <<point, env>>
  PROVE  DefSettled'
<1> DEFINE s == current
           newOut == states[s][Len(states[s])]
<1>1. /\ s \in Segments
      /\ states[s] \in Seq(State)
      /\ Len(states[s]) = Len(references[s]) + 1
      /\ Len(references[s]) \in Nat
      /\ states[s][1] = join(s)
      /\ nextSegments[s] \in Seq(Segments)
  BY DEF Compare, DefSettled, RDTypeOK, ReferencesOK, InProgress, GraphOK
<1>2. /\ UNCHANGED <<states, nextSegments, prevSegments, references, captured, late>>
      /\ current' = 0
  BY DEF Compare, RDNext
<1>3. newOut \in State
  BY <1>1
<1> HIDE DEF newOut
<1>4. defOut \in [Segments -> State] /\ defWork \in Seq(Segments)
  BY DEF DefSettled, RDTypeOK
<1>5. \/ newOut = defOut[s] /\ UNCHANGED <<defOut, defWork>>
      \/ /\ defOut' = [defOut EXCEPT ![s] = newOut]
         /\ defWork' = defWork \o nextSegments[s]
  BY DEF Compare, outHasChanged, WorkAfter, newOut
<1>6. /\ defWork' \in Seq(Segments)
      /\ Elements(defWork) \subseteq Elements(defWork')
      /\ defOut' # defOut => Elements(nextSegments[s]) \subseteq Elements(defWork')
  <2>1. /\ defWork \o nextSegments[s] \in Seq(Segments)
        /\ Elements(defWork \o nextSegments[s]) = Elements(defWork) \cup Elements(nextSegments[s])
    BY <1>1, <1>4, PushAll
  <2>2. CASE UNCHANGED <<defOut, defWork>>
    BY <2>2, <1>4
  <2>3. CASE defWork' = defWork \o nextSegments[s]
    BY <2>1, <2>3
  <2> QED BY <2>2, <2>3, <1>5
<1>7. /\ defOut' \in [Segments -> State]
      /\ defOut'[s] = newOut
      /\ \A t \in Segments \ {s} : defOut'[t] = defOut[t]
  <2>1. CASE newOut = defOut[s] /\ UNCHANGED <<defOut, defWork>>
    BY <2>1, <1>4
  <2>2. CASE defOut' = [defOut EXCEPT ![s] = newOut]
    BY <2>2, <1>1, <1>3, <1>4
  <2> QED BY <2>1, <2>2, <1>5
<1>8. RDTypeOK'
  BY <1>2, <1>6, <1>7 DEF DefSettled, RDTypeOK, GraphOK, ReferencesOK
<1>9. InProgress'
  BY <1>2 DEF InProgress
<1>10. ASSUME NEW t \in Segments, t \notin Elements(defWork')
       PROVE  join(t)' = join(t)
  <2>1. CASE defOut' = defOut
    BY <2>1, <1>2 DEF join, Elements
  <2>2. CASE defOut' # defOut
    <3>1. s \notin Elements(prevSegments[t])
      BY <2>2, <1>1, <1>6, <1>10 DEF DefSettled, RDTypeOK, GraphOK
    <3>2. Elements(prevSegments[t]) \subseteq Segments
      BY DEF DefSettled, RDTypeOK, GraphOK, Elements
    <3>3. \A p \in Elements(prevSegments[t]) : defOut'[p] = defOut[p]
      BY <3>1, <3>2, <1>7
    <3>4. Elements(prevSegments[t])' = Elements(prevSegments[t])
      BY <1>2 DEF Elements
    <3>5. \A v : {defOut[p][v] : p \in Elements(prevSegments[t])}'
                 = {defOut[p][v] : p \in Elements(prevSegments[t])}
      BY <3>3, <3>4
    <3> QED BY <3>5 DEF join
  <2> QED BY <2>1, <2>2
<1>11. ASSUME NEW t \in Segments
       PROVE  /\ (t \notin Elements(defWork) /\ t # current => DefSolved(t))'
              /\ Chained(t)'
  <2>1. Chained(t)'
    BY <1>2 DEF DefSettled, Chained, updateProgramState, resolveAssignedValues
  <2>2. ASSUME t \notin Elements(defWork') PROVE DefSolved(t)'
    <3>1. CASE t = s
      BY <3>1, <2>2, <1>1, <1>2, <1>7, <1>10 DEF DefSolved, newOut
    <3>2. CASE t # s
      <4>1. DefSolved(t)
        BY <3>2, <2>2, <1>6 DEF DefSettled
      <4> QED BY <4>1, <3>2, <2>2, <1>2, <1>7, <1>10 DEF DefSolved
    <3> QED BY <3>1, <3>2
  <2>3. Elements(defWork)' = Elements(defWork')
    BY DEF Elements
  <2> QED BY <2>1, <2>2, <2>3
<1> QED BY <1>8, <1>9, <1>11 DEF DefSettled

(* A step of the run leaves the analysis alone.                            *)
LEMMA RunStep ==
  ASSUME DefSettled, UNCHANGED <<nextSegments, prevSegments, references, captured, late, defVars>>,
         EvaluateRef \/ FollowEdge \/ WrittenElsewhere
  PROVE  DefSettled'
<1>1. \A t : join(t)' = join(t)
  BY DEF join, Elements, defVars
<1>2. point[1] \in Segments /\ point[2] \in Nat \ {0}
  BY DEF DefSettled, RDTypeOK
<1>3. point' \in Segments \X (Nat \ {0}) /\ env' \in [Variables -> RunValues]
  <2>1. CASE EvaluateRef
    <3> DEFINE r == references[point[1]][point[2]]
    <3>1. r \in Ref
      BY <2>1, <1>2 DEF EvaluateRef, DefSettled, RDTypeOK, ReferencesOK
    <3>2. Assigned(r) \subseteq RunValues
      <4>1. r.expr \in Variables \/ r.expr = Opaque \/ r.expr \in Literals
        BY <3>1 DEF Ref
      <4>2. r.expr \in Variables => env[r.expr] \in RunValues
        BY DEF DefSettled, RDTypeOK
      <4> QED BY <4>1, <4>2 DEF Assigned, RunValues
    <3>3. env' \in [Variables -> RunValues]
      BY <2>1, <3>2 DEF EvaluateRef, DefSettled, RDTypeOK
    <3>4. point' = <<point[1], point[2] + 1>>
      BY <2>1 DEF EvaluateRef
    <3>5. point[2] + 1 \in Nat \ {0}
      BY <1>2
    <3> QED BY <3>3, <3>4, <3>5, <1>2
  <2>2. CASE FollowEdge
    <3>1. Elements(nextSegments[point[1]]) \subseteq Segments
      BY <1>2 DEF DefSettled, RDTypeOK, GraphOK, Elements
    <3> QED BY <2>2, <3>1 DEF FollowEdge, DefSettled, RDTypeOK
  <2>3. CASE WrittenElsewhere
    BY <2>3 DEF WrittenElsewhere, DefSettled, RDTypeOK
  <2> QED BY <2>1, <2>2, <2>3
<1>4. RDTypeOK'
  BY <1>3 DEF DefSettled, RDTypeOK, GraphOK, ReferencesOK, defVars
<1>5. InProgress'
  BY <1>1 DEF InProgress, DefSettled, defVars
<1>6. ASSUME NEW t \in Segments
      PROVE  /\ (t \notin Elements(defWork) /\ t # current => DefSolved(t))'
             /\ Chained(t)'
  <2>1. DefSolved(t)' = DefSolved(t)
    BY <1>1 DEF DefSolved, defVars
  <2>2. Chained(t)' = Chained(t)
    BY DEF Chained, updateProgramState, resolveAssignedValues, defVars
  <2>3. Elements(defWork)' = Elements(defWork) /\ current' = current
    BY DEF Elements, defVars
  <2> QED BY <2>1, <2>2, <2>3 DEF DefSettled
<1> QED BY <1>4, <1>5, <1>6 DEF DefSettled

LEMMA DefinitionsStaySettled == RDSpec => []DefSettled
<1>1. RDInit => DefSettled
  <2> SUFFICES ASSUME RDInit PROVE DefSettled
    OBVIOUS
  <2>1. defWork \in Seq(Segments) /\ Elements(defWork) = Segments
    BY SegmentsAssumption DEF RDInit, DefInit, Segments, Elements
  <2>2. EmptyState \in State
    BY DEF EmptyState, State, Values
  <2>3. defOut \in [Segments -> State] /\ states \in [Segments -> Seq(State)] /\ current = 0
    BY <2>2 DEF RDInit, DefInit
  <2>4. env \in [Variables -> RunValues] /\ point \in Segments \X (Nat \ {0})
    BY DEF RDInit, RunValues
  <2>5. RDTypeOK
    BY <2>1, <2>3, <2>4 DEF RDTypeOK, RDInit
  <2>6. \A s \in Segments : Chained(s)
    BY DEF RDInit, DefInit, Chained
  <2> QED BY <2>1, <2>3, <2>5, <2>6 DEF DefSettled, InProgress
<1>2. DefSettled /\ [RDNext]_rdVars => DefSettled'
  <2> SUFFICES ASSUME DefSettled, [RDNext]_rdVars PROVE DefSettled'
    OBVIOUS
  <2>1. CASE RDNext /\ Join /\ UNCHANGED <<point, env>>
    BY <2>1, JoinStep
  <2>2. CASE RDNext /\ Update /\ UNCHANGED <<point, env>>
    BY <2>2, UpdateStep
  <2>3. CASE RDNext /\ Compare /\ UNCHANGED <<point, env>>
    BY <2>3, CompareStep
  <2>4. CASE RDNext /\ (EvaluateRef \/ FollowEdge \/ WrittenElsewhere) /\ UNCHANGED defVars
    <3>1. UNCHANGED <<nextSegments, prevSegments, references, captured, late, defVars>>
      BY <2>4 DEF RDNext
    <3> QED BY <2>4, <3>1, RunStep
  <2>5. CASE UNCHANGED rdVars
    <3>1. \A t : join(t)' = join(t)
      BY <2>5 DEF join, Elements, rdVars
    <3>2. RDTypeOK' /\ InProgress'
      BY <2>5, <3>1 DEF DefSettled, RDTypeOK, GraphOK, ReferencesOK, InProgress, rdVars
    <3>3. \A t : DefSolved(t)' = DefSolved(t)
      BY <2>5, <3>1 DEF DefSolved, rdVars
    <3>4. \A t : Chained(t)' = Chained(t)
      BY <2>5 DEF Chained, updateProgramState, resolveAssignedValues, rdVars
    <3>5. Elements(defWork)' = Elements(defWork) /\ current' = current
      BY <2>5 DEF Elements, rdVars
    <3> QED BY <3>2, <3>3, <3>4, <3>5 DEF DefSettled
  <2> QED BY <2>1, <2>2, <2>3, <2>4, <2>5 DEF RDNext, Analyse
<1> QED BY <1>1, <1>2, PTL DEF RDSpec

(* The worklist, the maps and the run keep their types.                    *)
THEOREM DefinitionsTypeCorrect == RDSpec => []RDTypeOK
<1>1. DefSettled => RDTypeOK
  BY DEF DefSettled
<1> QED BY <1>1, DefinitionsStaySettled, PTL

(* When reachingDefinitions() ends its states solve the equations of the   *)
(* whole code path.                                                        *)
THEOREM DefinitionEquationsHold == RDSpec => []DefinitionsSolved
<1>1. DefSettled => DefinitionsSolved
  BY SegmentFacts DEF DefSettled, DefinitionsSolved, Analysed, DefSolved, Elements
<1> QED BY <1>1, DefinitionsStaySettled, PTL

(* The run is within its segment, nothing is assigned before the analysis  *)
(* has ended, and then the state at the run's point covers the run.        *)
Covered ==
  /\ point[2] <= Len(references[point[1]]) + 1
  /\ ~ Analysed => \A v \in Variables : env[v] = Undefined
  /\ ValuesCovered

(* The tracked variables are themselves self-contained: what a store to    *)
(* one of them copies is tracked.                                          *)
LEMMA TrackedFacts ==
  /\ Tracked \subseteq Variables
  /\ Tracked \cap (captured \cup late) = {}
  /\ \A s \in Segments : \A k \in DOMAIN references[s] :
       references[s][k].write /\ references[s][k].var \in Tracked =>
         /\ ReadRight(references[s][k])
         /\ references[s][k].expr \in Variables => references[s][k].expr \in Tracked
<1>1. Tracked \subseteq Variables /\ Tracked \cap (captured \cup late) = {}
  BY DEF Tracked, SelfContained
<1>2. ASSUME NEW s \in Segments, NEW k \in DOMAIN references[s], NEW r, r = references[s][k],
             r.write, r.var \in Tracked
      PROVE  ReadRight(r) /\ (r.expr \in Variables => r.expr \in Tracked)
  <2>1. PICK V \in SUBSET Variables : SelfContained(V) /\ r.var \in V
    BY <1>2 DEF Tracked
  <2>2. r \in Elements(references[s])
    BY <1>2 DEF Elements
  <2>3. ReadRight(r) /\ (r.expr \in Variables => r.expr \in V)
    BY <1>2, <2>1, <2>2 DEF SelfContained
  <2> QED BY <2>1, <2>3 DEF Tracked
<1> QED BY <1>1, <1>2

LEMMA TrackedSame ==
  ASSUME UNCHANGED <<references, captured, late>>
  PROVE  Tracked' = Tracked
<1>1. \A V : SelfContained(V)' = SelfContained(V)
  BY DEF SelfContained, Elements, ReadRight
<1> QED BY <1>1 DEF Tracked

(* What covers the values at the end of a predecessor still covers them    *)
(* after the join.                                                         *)
LEMMA JoinCovers ==
  ASSUME RDTypeOK, NEW t \in Segments, NEW s \in Elements(prevSegments[t]),
         Covers(defOut[s])
  PROVE  Covers(join(t))
<1> SUFFICES ASSUME NEW v \in Tracked, env[v] # Undefined
             PROVE  \/ join(t)[v].type = "unknown"
                    \/ join(t)[v].type = "assigned" /\ env[v] \in join(t)[v].literals
  BY DEF Covers
<1> DEFINE all == {defOut[p][v] : p \in Elements(prevSegments[t])} \ {NoValues}
           x == defOut[s][v]
<1>1. s \in Segments /\ v \in Variables
  BY TrackedFacts DEF RDTypeOK, GraphOK, Elements
<1>2. x \in Values
  BY <1>1 DEF RDTypeOK, State
<1>3. x.type = "unknown" \/ (x.type = "assigned" /\ env[v] \in x.literals)
  BY DEF Covers
<1>4. x \in all
  BY <1>3 DEF NoValues
<1>5. join(t)[v] = CASE all = {} -> NoValues
                     [] unknownValue \in all -> unknownValue
                     [] OTHER -> assignedValues(UNION {y.literals : y \in all})
  BY <1>1 DEF join
<1> HIDE DEF all, x
<1>6. CASE unknownValue \in all
  BY <1>4, <1>5, <1>6 DEF unknownValue
<1>7. CASE unknownValue \notin all
  <2>1. x.type = "assigned" /\ env[v] \in x.literals
    BY <1>2, <1>3, <1>4, <1>7 DEF Values, NoValues, unknownValue
  <2>2. env[v] \in UNION {y.literals : y \in all}
    BY <2>1, <1>4
  <2>3. join(t)[v] = assignedValues(UNION {y.literals : y \in all})
    BY <1>4, <1>5, <1>7
  <2> QED BY <2>2, <2>3 DEF assignedValues
<1> QED BY <1>6, <1>7

LEMMA EvaluateKeepsCovered ==
  ASSUME DefSettled, Covered, EvaluateRef,
         UNCHANGED <<nextSegments, prevSegments, references, captured, late, defVars>>
  PROVE  Covered'
<1> DEFINE s == point[1]
           k == point[2]
           r == references[s][k]
           st == states[s][k]
<1>1. /\ s \in Segments /\ k \in Nat \ {0} /\ k \in DOMAIN references[s]
      /\ references[s] \in Seq(Ref) /\ states[s] \in Seq(State)
      /\ Analysed
  BY DEF DefSettled, RDTypeOK, ReferencesOK, EvaluateRef
<1>2. point'[1] = s /\ point'[2] = k + 1 /\ k + 1 <= Len(references[s]) + 1
  BY <1>1 DEF EvaluateRef
<1>3. Analysed' = Analysed /\ Tracked' = Tracked
  BY TrackedSame DEF Analysed, defVars
<1>4. DefSolved(s) /\ Chained(s)
  BY <1>1, SegmentFacts DEF DefSettled, Analysed, Elements
<1>5. states[s][k + 1] = updateProgramState(r, st)
  <2> HIDE DEF s, k
  <2>1. k \in 1 .. Len(states[s]) - 1
    BY <1>1, <1>4 DEF DefSolved
  <2> QED BY <2>1, <1>4 DEF Chained
<1>6. Covers(states[point[1]][point[2]])'
  <2>1. Covers(st)
    BY <1>1 DEF Covered, ValuesCovered
  <2>2. r \in Ref /\ r.var \in Variables /\ r.expr \in Literals \cup Variables \cup {Opaque}
    <3>1. r \in Ref
      BY <1>1
    <3> HIDE DEF r
    <3> QED BY <3>1 DEF Ref
  <2>3. r.write /\ r.var \in Tracked =>
          ReadRight(r) /\ (r.expr \in Variables => r.expr \in Tracked)
    BY <1>1, TrackedFacts
  <2>4. st \in State /\ env \in [Variables -> RunValues]
    BY <1>1, <1>4 DEF DefSolved, DefSettled, RDTypeOK
  <2>5. states'[s][k + 1] = updateProgramState(r, st)
    BY <1>5 DEF defVars
  <2>6. CASE ~ r.write
    <3>1. env' = env /\ updateProgramState(r, st) = st
      BY <2>6 DEF EvaluateRef, updateProgramState
    <3> QED BY <3>1, <2>1, <2>5, <1>2, <1>3 DEF Covers
  <2>7. CASE r.write
    <3>1. PICK a \in Assigned(r) : env' = [env EXCEPT ![r.var] = a]
      BY <2>7 DEF EvaluateRef
    <3> DEFINE new == resolveAssignedValues(r.var, r.expr, st)
    <3>2. updateProgramState(r, st) = [st EXCEPT ![r.var] = new]
      BY <2>7 DEF updateProgramState
    <3>3. ASSUME r.var \in Tracked
          PROVE  \/ new.type = "unknown"
                 \/ a = Undefined
                 \/ new.type = "assigned" /\ a \in new.literals
      <4>1. CASE r.expr = Opaque
        BY <4>1, OpaqueAssumption DEF resolveAssignedValues, unknownValue
      <4>2. CASE r.expr \in Literals
        <5>1. a = r.expr
          BY <4>2, <3>1, <3>3, <2>3, <2>7, OpaqueAssumption DEF Assigned, ReadRight
        <5> QED BY <5>1, <4>2 DEF resolveAssignedValues, assignedValues
      <4>3. CASE r.expr \in Variables
        <5>1. r.expr \notin Literals /\ r.expr # Opaque
          BY <4>3, OpaqueAssumption, ExprAssumption
        <5>2. a = env[r.expr]
          BY <5>1, <3>1, <3>3, <2>3, <2>7 DEF Assigned, ReadRight
        <5>3. new = unknownValue \/ new = st[r.expr]
          BY <5>1 DEF resolveAssignedValues
        <5>4. \/ st[r.expr].type = "unknown"
              \/ env[r.expr] = Undefined
              \/ st[r.expr].type = "assigned" /\ env[r.expr] \in st[r.expr].literals
          BY <4>3, <3>3, <2>1, <2>3, <2>7 DEF Covers
        <5> HIDE DEF new, r, st
        <5> QED BY <5>2, <5>3, <5>4 DEF unknownValue
      <4> QED BY <4>1, <4>2, <4>3, <2>2
    <3> HIDE DEF new, r, st
    <3>4. ASSUME NEW v \in Tracked
          PROVE  \/ [st EXCEPT ![r.var] = new][v].type = "unknown"
                 \/ env'[v] = Undefined
                 \/ /\ [st EXCEPT ![r.var] = new][v].type = "assigned"
                    /\ env'[v] \in [st EXCEPT ![r.var] = new][v].literals
      <4>1. CASE v = r.var
        <5>1. [st EXCEPT ![r.var] = new][v] = new /\ env'[v] = a
          BY <4>1, <2>4, <3>1, TrackedFacts DEF State
        <5> QED BY <5>1, <3>3, <4>1
      <4>2. CASE v # r.var
        <5>1. [st EXCEPT ![r.var] = new][v] = st[v] /\ env'[v] = env[v]
          BY <4>2, <2>4, <3>1, TrackedFacts DEF State
        <5> QED BY <5>1, <2>1 DEF Covers
      <4> QED BY <4>1, <4>2
    <3> QED BY <3>2, <3>4, <2>5, <1>2, <1>3 DEF Covers
  <2> QED BY <2>6, <2>7
<1>7. ValuesCovered'
  BY <1>6 DEF ValuesCovered
<1> QED BY <1>1, <1>2, <1>3, <1>7 DEF Covered

LEMMA FollowKeepsCovered ==
  ASSUME DefSettled, Covered, FollowEdge,
         UNCHANGED <<nextSegments, prevSegments, references, captured, late, defVars>>
  PROVE  Covered'
<1> DEFINE s == point[1]
           k == point[2]
<1>1. /\ s \in Segments /\ k \in Nat \ {0} /\ k \notin DOMAIN references[s]
      /\ references[s] \in Seq(Ref) /\ states[s] \in Seq(State)
      /\ Analysed /\ k <= Len(references[s]) + 1
  BY DEF DefSettled, RDTypeOK, ReferencesOK, FollowEdge, Covered
<1>2. k = Len(references[s]) + 1
  BY <1>1
<1>3. PICK t \in Elements(nextSegments[s]) : point' = <<t, 1>>
  BY DEF FollowEdge
<1>4. t \in Segments /\ s \in Elements(prevSegments[t])
  <2>1. t \in Segments
    BY <1>1, <1>3 DEF DefSettled, RDTypeOK, GraphOK, Elements
  <2> QED BY <2>1, <1>1, <1>3 DEF DefSettled, RDTypeOK, GraphOK
<1>5. DefSolved(s) /\ DefSolved(t)
  BY <1>1, <1>4, SegmentFacts DEF DefSettled, Analysed, Elements
<1>6. Analysed' = Analysed /\ Tracked' = Tracked /\ env' = env
  BY TrackedSame DEF Analysed, defVars, FollowEdge
<1>7. Covers(states[t][1])
  <2>1. Covers(defOut[s])
    BY <1>1, <1>2, <1>5 DEF Covered, ValuesCovered, DefSolved
  <2>2. Covers(join(t))
    BY <2>1, <1>4, JoinCovers DEF DefSettled
  <2> QED BY <2>2, <1>5 DEF DefSolved
<1>8. ValuesCovered'
  <2>1. Covers(states[t][1])'
    BY <1>6, <1>7 DEF Covers, defVars
  <2> QED BY <2>1, <1>3, <1>6 DEF ValuesCovered
<1>9. 1 <= Len(references[t]) + 1
  BY <1>4 DEF DefSettled, RDTypeOK, ReferencesOK
<1> QED BY <1>1, <1>3, <1>6, <1>8, <1>9 DEF Covered

(* What other code writes, it writes to variables that are not tracked.    *)
LEMMA ElsewhereKeepsCovered ==
  ASSUME DefSettled, Covered, WrittenElsewhere,
         UNCHANGED <<nextSegments, prevSegments, references, captured, late, defVars>>
  PROVE  Covered'
<1>1. Analysed /\ Analysed' = Analysed /\ Tracked' = Tracked /\ point' = point
  BY TrackedSame DEF Analysed, defVars, WrittenElsewhere
<1>2. \A v \in Tracked : env'[v] = env[v]
  BY TrackedFacts DEF WrittenElsewhere, DefSettled, RDTypeOK
<1>3. Covers(states[point[1]][point[2]])'
  BY <1>1, <1>2 DEF Covered, ValuesCovered, Covers, defVars
<1> QED BY <1>1, <1>3 DEF Covered, ValuesCovered

LEMMA StatesStayCovered == RDSpec => []Covered
<1>1. RDInit => Covered
  <2> SUFFICES ASSUME RDInit PROVE Covered
    OBVIOUS
  <2>1. point[2] = 1 /\ Len(references[point[1]]) \in Nat
    BY DEF RDInit, ReferencesOK
  <2>2. \A v \in Variables : env[v] = Undefined
    BY DEF RDInit
  <2> QED BY <2>1, <2>2, TrackedFacts DEF Covered, ValuesCovered, Covers
<1>2. DefSettled /\ Covered /\ [RDNext]_rdVars => Covered'
  <2> SUFFICES ASSUME DefSettled, Covered, [RDNext]_rdVars PROVE Covered'
    OBVIOUS
  <2>1. CASE RDNext /\ Analyse /\ UNCHANGED <<point, env>>
    <3>1. ~ Analysed
      BY <2>1 DEF Analyse, Join, Update, Compare, Analysed
    <3>2. \A v \in Variables : env'[v] = Undefined
      BY <2>1, <3>1 DEF Covered
    <3>3. references' = references /\ point' = point /\ Tracked' = Tracked
      BY <2>1, TrackedSame DEF RDNext
    <3> QED BY <3>2, <3>3, TrackedFacts DEF Covered, ValuesCovered, Covers
  <2>2. CASE RDNext /\ EvaluateRef /\ UNCHANGED defVars
    <3>1. UNCHANGED <<nextSegments, prevSegments, references, captured, late, defVars>>
      BY <2>2 DEF RDNext
    <3> QED BY <2>2, <3>1, EvaluateKeepsCovered
  <2>3. CASE RDNext /\ FollowEdge /\ UNCHANGED defVars
    <3>1. UNCHANGED <<nextSegments, prevSegments, references, captured, late, defVars>>
      BY <2>3 DEF RDNext
    <3> QED BY <2>3, <3>1, FollowKeepsCovered
  <2>4. CASE RDNext /\ WrittenElsewhere /\ UNCHANGED defVars
    <3>1. UNCHANGED <<nextSegments, prevSegments, references, captured, late, defVars>>
      BY <2>4 DEF RDNext
    <3> QED BY <2>4, <3>1, ElsewhereKeepsCovered
  <2>5. CASE UNCHANGED rdVars
    <3>1. Analysed' = Analysed /\ Tracked' = Tracked
      BY <2>5, TrackedSame DEF Analysed, rdVars
    <3> QED BY <2>5, <3>1 DEF Covered, ValuesCovered, Covers, rdVars
  <2> QED BY <2>1, <2>2, <2>3, <2>4, <2>5 DEF RDNext
<1> QED BY <1>1, <1>2, DefinitionsStaySettled, PTL DEF RDSpec

(* Whatever path an execution takes and whenever other code interrupts it, *)
(* the program states of reachingDefinitions() cover the values of the     *)
(* tracked variables.                                                      *)
THEOREM StatesCoverValues == RDSpec => []ValuesCovered
<1>1. Covered => ValuesCovered
  BY DEF Covered
<1> QED BY <1>1, StatesStayCovered, PTL

-----------------------------------------------------------------------------
(* Induction for a set of numbers: its complement would have a least       *)
(* element.                                                                *)
LEMMA LeastNat == \A S \in SUBSET Nat : S # {} => \E n \in S : \A m \in S : n <= m
<1> SUFFICES ASSUME NEW S \in SUBSET Nat, S # {} PROVE \E n \in S : \A m \in S : n <= m
  OBVIOUS
<1> DEFINE R == {p \in Nat \X Nat : p[1] < p[2]}
<1>1. IsWellFoundedOn(R, Nat)
  BY NatLessThanWellFounded DEF OpToRel
<1> HIDE DEF R
<1>2. PICK n \in S : \A m \in S : ~ (<<m, n>> \in R)
  BY <1>1, WFMin, Zenon
<1>3. \A m \in S : ~ (m < n)
  BY <1>2 DEF R
<1> QED BY <1>3

LEMMA SetInduction ==
  ASSUME NEW S, 0 \in S, \A n \in Nat : n \in S => n + 1 \in S
  PROVE  Nat \subseteq S
<1> SUFFICES ASSUME Nat \ S # {} PROVE FALSE
  OBVIOUS
<1>1. PICK n \in Nat \ S : \A m \in Nat \ S : n <= m
  BY LeastNat
<1>2. n # 0 /\ n - 1 \in Nat /\ n - 1 \in S
  BY <1>1
<1> QED BY <1>2

(* One turn of the loop of checkSegment().                                 *)
MapAfter(s, k, map) ==
  LET r == references[s][k - 1]
  IN  IF r.write /\ shouldReport(r) THEN updateProgramState(r, map) ELSE map

MapBefore(s, f, k) == IF k = 1 THEN states[s][1] ELSE MapAfter(s, k, f[k - 1])

(* The recursive function has the values its equation says.                *)
LEMMA MapExists ==
  ASSUME NEW s, NEW n \in Nat
  PROVE  \E f : f = [k \in 1 .. n |-> MapBefore(s, f, k)]
<1> DEFINE S == {m \in Nat : \E f : f = [k \in 1 .. m |-> MapBefore(s, f, k)]}
<1>1. 0 \in S
  <2> DEFINE f == [k \in 1 .. 0 |-> 0]
  <2>1. f = [k \in 1 .. 0 |-> MapBefore(s, f, k)]
    OBVIOUS
  <2> HIDE DEF f
  <2> QED BY <2>1
<1>2. ASSUME NEW m \in Nat, m \in S PROVE m + 1 \in S
  <2>1. PICK f : f = [k \in 1 .. m |-> MapBefore(s, f, k)]
    BY <1>2
  <2> DEFINE g == [k \in 1 .. m + 1 |-> IF k = m + 1 THEN MapBefore(s, f, m + 1) ELSE f[k]]
  <2>2. ASSUME NEW k \in 1 .. m + 1 PROVE g[k] = MapBefore(s, g, k)
    <3>1. k # 1 => k - 1 \in 1 .. m + 1 /\ k - 1 # m + 1
      OBVIOUS
    <3>2. k # 1 => g[k - 1] = f[k - 1]
      BY <3>1
    <3>3. MapBefore(s, g, k) = MapBefore(s, f, k)
      BY <3>2 DEF MapBefore
    <3>4. CASE k = m + 1
      BY <3>3, <3>4
    <3>5. CASE k # m + 1
      <4>1. k \in 1 .. m
        BY <3>5
      <4>2. f[k] = MapBefore(s, f, k)
        BY <4>1, <2>1
      <4> QED BY <3>3, <3>5, <4>2
    <3> QED BY <3>4, <3>5
  <2>3. g = [k \in 1 .. m + 1 |-> g[k]]
    OBVIOUS
  <2> HIDE DEF g
  <2>4. g = [k \in 1 .. m + 1 |-> MapBefore(s, g, k)]
    BY <2>2, <2>3
  <2> QED BY <2>4
<1> HIDE DEF S
<1>3. Nat \subseteq S
  BY <1>1, <1>2, SetInduction
<1> QED BY <1>3 DEF S

LEMMA MapEquation ==
  ASSUME NEW s, Len(references[s]) \in Nat
  PROVE  \A k \in 1 .. Len(references[s]) :
           assignedValuesMap(s)[k] = MapBefore(s, assignedValuesMap(s), k)
<1> DEFINE n == Len(references[s])
<1>1. assignedValuesMap(s) = CHOOSE f : f = [k \in 1 .. n |-> MapBefore(s, f, k)]
  BY DEF assignedValuesMap, MapBefore, MapAfter
<1>2. \E f : f = [k \in 1 .. n |-> MapBefore(s, f, k)]
  BY MapExists
<1> HIDE DEF n
<1>3. assignedValuesMap(s) = [k \in 1 .. n |-> MapBefore(s, assignedValuesMap(s), k)]
  BY <1>1, <1>2, Zenon
<1> QED BY <1>3 DEF n

(* Where no write was skipped, the map of checkSegment() has for tracked   *)
(* variables what the program state of the analysis has.                   *)
LEMMA MapIsState ==
  ASSUME RDTypeOK, NEW s \in Segments, NEW k \in 1 .. Len(references[s]),
         Len(states[s]) = Len(references[s]) + 1, Chained(s), ~ SkippedBefore(s, k)
  PROVE  /\ assignedValuesMap(s)[k] \in State
         /\ \A v \in Tracked : assignedValuesMap(s)[k][v] = states[s][k][v]
<1>1. /\ Len(references[s]) \in Nat
      /\ \A j \in 1 .. Len(references[s]) : references[s][j] \in Ref
      /\ \A j \in 1 .. Len(states[s]) : states[s][j] \in State
  BY LenProperties, ElementOfSeq DEF RDTypeOK, ReferencesOK
<1>2. \A j \in 1 .. Len(references[s]) :
        assignedValuesMap(s)[j] = MapBefore(s, assignedValuesMap(s), j)
  BY <1>1, MapEquation
<1> DEFINE map == assignedValuesMap(s)
           Same(j) == /\ map[j] \in State
                      /\ \A v \in Tracked : map[j][v] = states[s][j][v]
           S == {j \in Nat : j + 1 <= k => Same(j + 1)}
<1> HIDE DEF map
<1>3. 0 \in S
  <2>1. 1 \in 1 .. Len(references[s])
    BY <1>1
  <2>2. map[1] = states[s][1]
    BY <2>1, <1>2 DEF map, MapBefore
  <2>3. states[s][1] \in State
    BY <1>1, <2>1
  <2> QED BY <2>2, <2>3
<1>4. ASSUME NEW j \in Nat, j \in S PROVE j + 1 \in S
  <2> SUFFICES ASSUME (j + 1) + 1 <= k PROVE Same((j + 1) + 1)
    OBVIOUS
  <2> DEFINE r == references[s][j + 1]
             old == states[s][j + 1]
  <2>1. /\ j + 1 <= k /\ j + 1 \in 1 .. k - 1 /\ (j + 1) + 1 \in 1 .. Len(references[s])
        /\ (j + 1) + 1 # 1 /\ ((j + 1) + 1) - 1 = j + 1
        /\ j + 1 \in 1 .. Len(states[s]) - 1 /\ j + 1 \in 1 .. Len(references[s])
        /\ j + 1 \in 1 .. Len(states[s])
    BY <1>1
  <2>2. Same(j + 1)
    BY <1>4, <2>1
  <2>3. map[(j + 1) + 1] = MapAfter(s, (j + 1) + 1, map[j + 1])
    BY <1>2, <2>1 DEF map, MapBefore
  <2>4. r.write /\ r.var \in Tracked => shouldReport(r)
    BY <2>1 DEF SkippedBefore
  <2>5. MapAfter(s, (j + 1) + 1, map[j + 1]) =
          IF r.write /\ shouldReport(r) THEN updateProgramState(r, map[j + 1]) ELSE map[j + 1]
    BY <2>1 DEF MapAfter
  <2>6. states[s][(j + 1) + 1] = updateProgramState(r, old)
    BY <2>1 DEF Chained
  <2>7. r \in Ref /\ old \in State
    BY <1>1, <2>1
  <2>8. r.write /\ r.var \in Tracked /\ r.expr \in Variables => r.expr \in Tracked
    <3>1. j + 1 \in DOMAIN references[s]
      BY <2>1 DEF RDTypeOK, ReferencesOK
    <3> QED BY <3>1, TrackedFacts
  <2> DEFINE m == map[j + 1]
  <2>9. m \in State /\ \A v \in Tracked : m[v] = old[v]
    BY <2>2
  <2>10. map[(j + 1) + 1] = IF r.write /\ shouldReport(r) THEN updateProgramState(r, m) ELSE m
    BY <2>3, <2>5
  <2> HIDE DEF r, old, m, map
  <2>11. map[(j + 1) + 1] \in State
    BY <2>7, <2>9, <2>10, UpdateType
  <2>12. ASSUME NEW v \in Tracked
         PROVE  map[(j + 1) + 1][v] = updateProgramState(r, old)[v]
    <3>1. v \in Variables /\ r.var \in Variables
      BY <2>7, TrackedFacts DEF Ref
    <3>2. CASE ~ r.write
      BY <3>2, <2>9, <2>10 DEF updateProgramState
    <3>3. CASE r.write /\ r.var # v
      <4>1. updateProgramState(r, old)[v] = old[v] /\ updateProgramState(r, m)[v] = m[v]
        BY <3>1, <3>3, <2>7, <2>9 DEF updateProgramState, State
      <4> QED BY <4>1, <2>9, <2>10
    <3>4. CASE r.write /\ r.var = v
      <4>1. map[(j + 1) + 1] = updateProgramState(r, m)
        BY <3>4, <2>4, <2>10
      <4>2. /\ updateProgramState(r, m)[v] = resolveAssignedValues(v, r.expr, m)
            /\ updateProgramState(r, old)[v] = resolveAssignedValues(v, r.expr, old)
        BY <3>1, <3>4, <2>7, <2>9 DEF updateProgramState, State
      <4>3. r.expr \in Variables => m[r.expr] = old[r.expr]
        BY <3>4, <2>8, <2>9
      <4> QED BY <4>1, <4>2, <4>3 DEF resolveAssignedValues
    <3> QED BY <3>2, <3>3, <3>4
  <2> QED BY <2>6, <2>11, <2>12 DEF r, old
<1> HIDE DEF S
<1>5. Nat \subseteq S
  BY <1>3, <1>4, SetInduction
<1>6. k - 1 \in S /\ (k - 1) + 1 = k /\ k <= k
  BY <1>1, <1>5
<1> QED BY <1>6 DEF S, map

LEMMA SingleIsSingleton ==
  ASSUME NEW values \in Values, SingleLiteral(values)
  PROVE  \E c \in Literals : values = assignedValues({c})
<1>1. values.type = "assigned" /\ values \in [type: {"assigned"}, literals: SUBSET Literals]
  BY DEF SingleLiteral, Values, NoValues, unknownValue
<1>2. IsFiniteSet(values.literals)
  BY <1>1, FS_Subset, LiteralsAssumption
<1>3. PICK c : values.literals = {c}
  BY <1>2, FS_Singleton DEF SingleLiteral
<1> QED BY <1>1, <1>3 DEF assignedValues

(* An assignment that is reported assigns the value the variable has.      *)
LEMMA RedundantFollows ==
  ASSUME DefSettled, Covered PROVE RedundantIndeed
<1> DEFINE s == point[1]
           k == point[2]
           r == references[s][k]
           state == states[s][k]
<1> SUFFICES ASSUME Analysed, k \in DOMAIN references[s], r.var \in Tracked,
                    ~ SkippedBefore(s, k), RedundantAssignment(s, k)
             PROVE  env[r.var] = Undefined \/ Undefined \in Assigned(r) \/ Assigned(r) = {env[r.var]}
  BY DEF RedundantIndeed
<1>1. RDTypeOK /\ s \in Segments /\ Chained(s) /\ DefSolved(s)
  <2>1. RDTypeOK /\ s \in Segments
    BY DEF DefSettled, RDTypeOK
  <2>2. s \notin Elements(defWork) /\ s # current
    BY <2>1, SegmentFacts DEF Analysed, Elements
  <2> HIDE DEF s
  <2> QED BY <2>1, <2>2 DEF DefSettled
<1>2. k \in 1 .. Len(references[s]) /\ r \in Ref /\ Len(references[s]) \in Nat
  BY <1>1, LenProperties DEF RDTypeOK, ReferencesOK
<1>3. state \in State
  <2>1. k \in 1 .. Len(states[s]) /\ states[s] \in Seq(State)
    BY <1>1, <1>2 DEF DefSolved, RDTypeOK
  <2> QED BY <2>1, ElementOfSeq
<1> DEFINE map == assignedValuesMap(s)[k]
<1>4. \A v \in Tracked : map[v] = state[v]
  BY <1>1, <1>2, MapIsState DEF DefSolved
<1>5. Covers(state)
  BY DEF Covered, ValuesCovered
<1>6. r.var \in Variables /\ r.expr \in Literals \cup Variables \cup {Opaque}
  BY <1>2 DEF Ref
<1> DEFINE rhs == resolveAssignedValues(r.var, r.expr, state)
<1>7. r.write /\ ReadRight(r) /\ (r.expr \in Variables => r.expr \in Tracked)
  BY <1>1, TrackedFacts DEF RedundantAssignment
<1>8. SingleLiteral(state[r.var]) /\ state[r.var] = rhs
  <2>1. SingleLiteral(map[r.var]) /\ map[r.var] = resolveAssignedValues(r.var, r.expr, map)
    BY DEF RedundantAssignment
  <2>2. resolveAssignedValues(r.var, r.expr, map) = rhs
    BY <1>4, <1>7 DEF resolveAssignedValues
  <2> QED BY <2>1, <2>2, <1>4
<1> HIDE DEF s, k, state
<1>9. PICK c \in Literals : state[r.var] = assignedValues({c})
  BY <1>3, <1>6, <1>8, SingleIsSingleton DEF State
<1>10. state[r.var].type = "assigned" /\ state[r.var].literals = {c}
  BY <1>9 DEF assignedValues
<1>11. env[r.var] = Undefined \/ env[r.var] = c
  BY <1>5, <1>6, <1>10 DEF Covers
<1>12. rhs # unknownValue
  BY <1>8, <1>10 DEF unknownValue
<1>13. CASE r.expr \in Literals
  <2>1. rhs = assignedValues({r.expr}) /\ r.expr # Opaque
    BY <1>13, OpaqueAssumption DEF resolveAssignedValues
  <2>2. r.expr = c
    BY <2>1, <1>8, <1>10 DEF assignedValues
  <2>3. Assigned(r) = {c}
    BY <2>1, <2>2, <1>7, <1>13 DEF Assigned, ReadRight
  <2> QED BY <2>3, <1>11
<1>14. CASE r.expr \notin Literals
  <2>1. r.expr \in Variables /\ rhs = state[r.expr]
    BY <1>6, <1>12, <1>14, OpaqueAssumption DEF resolveAssignedValues
  <2>2. r.expr # Opaque
    BY <2>1, OpaqueAssumption
  <2>3. Assigned(r) = {env[r.expr]}
    BY <2>2, <1>7, <1>14 DEF Assigned, ReadRight
  <2>4. env[r.expr] = Undefined \/ env[r.expr] = c
    BY <2>1, <1>5, <1>7, <1>8, <1>10 DEF Covers
  <2> QED BY <2>3, <2>4, <1>11
<1> QED BY <1>13, <1>14

(* Rule S4165: an assignment it reports to a tracked variable is redundant *)
(* on every path, whenever other code interrupts it, unless a skipped      *)
(* write to a tracked variable precedes it in its segment.                 *)
THEOREM RedundantAssignmentsAreRedundant == RDSpec => []RedundantIndeed
BY StatesStayCovered, DefinitionsStaySettled, RedundantFollows, PTL

-----------------------------------------------------------------------------
(* StoresCollected.  A reference is at one place: kept by one assignment,  *)
(* or collected, once in each segment that was current.  What is evaluated *)
(* has its reference somewhere, and what an assignment in unreachable code *)
(* keeps is not evaluated.                                                 *)
Ids(s) == {s[k].id : k \in DOMAIN s}

NoDup(s) == \A j, k \in DOMAIN s : s[j].id = s[k].id => j = k

SegmentType == {"fork", "other", "join", "on", "statement"}
Assignment == [lhs: Seq(Ref), rhs: Seq(Ref), opened: Nat]
PathContext == [id: CodePathIds, assignments: Seq(Assignment),
                forks: Seq(SUBSET Segments), segments: SUBSET Segments]
Evaluated == [var: Variables, id: Nat, store: BOOLEAN]

(* The references that the assignments keep.                               *)
KeptBy(a) == Ids(a.rhs) \cup Ids(a.lhs)
Kept(A) == UNION {KeptBy(A[i]) : i \in DOMAIN A}

KeptOnce(A) ==
  /\ \A i \in DOMAIN A : /\ NoDup(A[i].rhs) /\ NoDup(A[i].lhs) /\ A[i].lhs # <<>>
                         /\ Ids(A[i].rhs) \cap Ids(A[i].lhs) = {}
  /\ \A i, j \in DOMAIN A : i # j => KeptBy(A[i]) \cap KeptBy(A[j]) = {}

VisitTypeOK ==
  /\ GraphOK
  /\ ReferencesOK
  /\ plan \in Seq(PlanEvent)
  /\ codePathStack \in Seq(PathContext)
  /\ events \in Nat
  /\ trace \in [Segments -> Seq(Evaluated)]
  /\ \E open \in [0 .. Len(plan) -> Nat] : Brackets(plan, open, Len(codePathStack))

KeptIn(c) == Kept(codePathStack[c].assignments)

IsCollected(id) == \E t \in Segments : id \in Ids(references[t])

Once ==
  /\ \A s \in Segments : NoDup(references[s]) /\ Ids(references[s]) \subseteq 1 .. events
  /\ \A c \in DOMAIN codePathStack :
       /\ KeptOnce(codePathStack[c].assignments) /\ KeptIn(c) \subseteq 1 .. events
       /\ \A s \in Segments : KeptIn(c) \cap Ids(references[s]) = {}
       /\ \A b \in DOMAIN codePathStack : b # c => KeptIn(b) \cap KeptIn(c) = {}

EvaluatedFound ==
  \A s \in Segments : \A id \in Ids(trace[s]) :
    /\ IsCollected(id) \/ \E c \in DOMAIN codePathStack : id \in KeptIn(c)
    /\ \A c \in DOMAIN codePathStack : codePathStack[c].segments = {} => id \notin KeptIn(c)

CollectInv == VisitTypeOK /\ Once /\ EvaluatedFound

-----------------------------------------------------------------------------
LEMMA IdsConcat ==
  ASSUME NEW S, NEW s \in Seq(S), NEW t \in Seq(S)
  PROVE  /\ s \o t \in Seq(S)
         /\ Ids(s \o t) = Ids(s) \cup Ids(t)
         /\ NoDup(s \o t) <=> NoDup(s) /\ NoDup(t) /\ Ids(s) \cap Ids(t) = {}
<1>1. /\ Len(s) \in Nat /\ Len(t) \in Nat /\ s \o t \in Seq(S)
      /\ DOMAIN s = 1 .. Len(s) /\ DOMAIN t = 1 .. Len(t)
      /\ DOMAIN (s \o t) = 1 .. Len(s) + Len(t)
  OBVIOUS
<1>2. PICK c : c = s \o t
  OBVIOUS
<1>3. \A i \in 1 .. Len(s) : c[i] = s[i]
  BY <1>1, <1>2
<1>4. \A i \in 1 .. Len(t) : c[Len(s) + i] = t[i]
  BY <1>1, <1>2
<1>5. DOMAIN c = 1 .. Len(s) + Len(t)
  BY <1>1, <1>2
<1>6. \A i \in DOMAIN t : Len(s) + i \in DOMAIN c /\ c[Len(s) + i] = t[i] /\ Len(s) + i > Len(s)
  BY <1>1, <1>4, <1>5
<1>7. \A i \in DOMAIN s : i \in DOMAIN c /\ c[i] = s[i] /\ i <= Len(s)
  BY <1>1, <1>3, <1>5
<1>8. \A i \in DOMAIN c : \/ i \in DOMAIN s
                          \/ i - Len(s) \in DOMAIN t /\ i = Len(s) + (i - Len(s)) /\ i > Len(s)
  BY <1>1, <1>5
<1>9. Ids(c) = Ids(s) \cup Ids(t)
  <2>1. \A i \in DOMAIN c : c[i].id \in Ids(s) \cup Ids(t)
    BY <1>6, <1>7, <1>8 DEF Ids
  <2>2. \A i \in DOMAIN s : s[i].id \in Ids(c)
    BY <1>7 DEF Ids
  <2>3. \A i \in DOMAIN t : t[i].id \in Ids(c)
    BY <1>6 DEF Ids
  <2> QED BY <2>1, <2>2, <2>3 DEF Ids
<1>10. ASSUME NoDup(c) PROVE NoDup(s) /\ NoDup(t) /\ Ids(s) \cap Ids(t) = {}
  <2>1. NoDup(s)
    BY <1>10, <1>7 DEF NoDup
  <2>2. NoDup(t)
    <3> SUFFICES ASSUME NEW j \in DOMAIN t, NEW k \in DOMAIN t, t[j].id = t[k].id PROVE j = k
      BY DEF NoDup
    <3>1. Len(s) + j = Len(s) + k
      BY <1>6, <1>10 DEF NoDup
    <3> QED BY <3>1, <1>1
  <2>3. ASSUME NEW j \in DOMAIN s, NEW k \in DOMAIN t, s[j].id = t[k].id PROVE FALSE
    <3>1. j = Len(s) + k
      BY <2>3, <1>6, <1>7, <1>10 DEF NoDup
    <3> QED BY <3>1, <1>1
  <2> QED BY <2>1, <2>2, <2>3 DEF Ids
<1>11. ASSUME NoDup(s), NoDup(t), Ids(s) \cap Ids(t) = {} PROVE NoDup(c)
  <2> SUFFICES ASSUME NEW j \in DOMAIN c, NEW k \in DOMAIN c, c[j].id = c[k].id PROVE j = k
    BY DEF NoDup
  <2>1. CASE j \in DOMAIN s /\ k \in DOMAIN s
    BY <2>1, <1>7, <1>11 DEF NoDup
  <2>2. CASE j \notin DOMAIN s /\ k \notin DOMAIN s
    <3>1. j - Len(s) \in DOMAIN t /\ k - Len(s) \in DOMAIN t
      BY <2>2, <1>8
    <3>2. t[j - Len(s)].id = t[k - Len(s)].id
      BY <3>1, <1>6, <1>8, <2>2
    <3>3. j - Len(s) = k - Len(s)
      BY <3>1, <3>2, <1>11 DEF NoDup
    <3> QED BY <3>3, <1>1, <1>5
  <2>3. CASE j \in DOMAIN s /\ k \notin DOMAIN s
    <3>1. k - Len(s) \in DOMAIN t /\ c[k] = t[k - Len(s)] /\ c[j] = s[j]
      BY <2>3, <1>6, <1>7, <1>8
    <3>2. s[j].id \in Ids(s) /\ t[k - Len(s)].id \in Ids(t)
      BY <3>1, <2>3 DEF Ids
    <3> QED BY <3>1, <3>2, <1>11
  <2>4. CASE j \notin DOMAIN s /\ k \in DOMAIN s
    <3>1. j - Len(s) \in DOMAIN t /\ c[j] = t[j - Len(s)] /\ c[k] = s[k]
      BY <2>4, <1>6, <1>7, <1>8
    <3>2. s[k].id \in Ids(s) /\ t[j - Len(s)].id \in Ids(t)
      BY <3>1, <2>4 DEF Ids
    <3> QED BY <3>1, <3>2, <1>11
  <2> QED BY <2>1, <2>2, <2>3, <2>4
<1> QED BY <1>1, <1>2, <1>9, <1>10, <1>11

LEMMA IdsOne ==
  ASSUME NEW r
  PROVE  Ids(<<r>>) = {r.id} /\ NoDup(<<r>>) /\ Ids(<<>>) = {} /\ NoDup(<<>>)
<1>1. DOMAIN <<r>> = {1} /\ <<r>>[1] = r
  OBVIOUS
<1>2. Ids(<<r>>) = {r.id} /\ NoDup(<<r>>)
  BY <1>1 DEF Ids, NoDup
<1>3. Ids(<<>>) = {} /\ NoDup(<<>>)
  BY DEF Ids, NoDup
<1> QED BY <1>2, <1>3

(* An assignment keeps each reference once.                                *)
KeptOnceBy(a) ==
  NoDup(a.rhs) /\ NoDup(a.lhs) /\ a.lhs # <<>> /\ Ids(a.rhs) \cap Ids(a.lhs) = {}

LEMMA KeptFront ==
  ASSUME NEW A \in Seq(Assignment), A # <<>>, KeptOnce(A)
  PROVE  /\ Front(A) \in Seq(Assignment) /\ Top(A) \in Assignment
         /\ KeptOnce(Front(A)) /\ KeptOnceBy(Top(A))
         /\ Kept(A) = Kept(Front(A)) \cup KeptBy(Top(A))
         /\ Kept(Front(A)) \cap KeptBy(Top(A)) = {}
<1>1. /\ Len(A) \in Nat \ {0} /\ DOMAIN A = 1 .. Len(A) /\ A[Len(A)] \in Assignment
      /\ Front(A) \in Seq(Assignment)
  BY TakeLast DEF Front
<1>2. DOMAIN Front(A) = 1 .. Len(A) - 1 /\ \A i \in 1 .. Len(A) - 1 : Front(A)[i] = A[i]
  BY <1>1 DEF Front
<1>3. /\ DOMAIN A = DOMAIN Front(A) \cup {Len(A)} /\ Len(A) \notin DOMAIN Front(A)
      /\ \A i \in DOMAIN Front(A) : Front(A)[i] = A[i]
  BY <1>1, <1>2
<1>4. KeptOnce(Front(A)) /\ KeptOnceBy(A[Len(A)])
  BY <1>3 DEF KeptOnce, KeptOnceBy
<1>5. Kept(A) = Kept(Front(A)) \cup KeptBy(A[Len(A)])
  BY <1>3 DEF Kept
<1>6. Kept(Front(A)) \cap KeptBy(A[Len(A)]) = {}
  <2>1. \A i \in DOMAIN Front(A) : KeptBy(Front(A)[i]) \cap KeptBy(A[Len(A)]) = {}
    BY <1>3 DEF KeptOnce
  <2> QED BY <2>1 DEF Kept
<1> QED BY <1>1, <1>4, <1>5, <1>6 DEF Top

LEMMA KeptPush ==
  ASSUME NEW A \in Seq(Assignment), KeptOnce(A), NEW a \in Assignment, KeptOnceBy(a),
         KeptBy(a) \cap Kept(A) = {}
  PROVE  /\ Append(A, a) \in Seq(Assignment) /\ KeptOnce(Append(A, a))
         /\ Kept(Append(A, a)) = Kept(A) \cup KeptBy(a)
<1>1. PICK B : B = Append(A, a)
  OBVIOUS
<1>2. /\ Len(A) \in Nat /\ DOMAIN A = 1 .. Len(A) /\ B \in Seq(Assignment)
      /\ DOMAIN B = 1 .. Len(A) + 1 /\ B[Len(A) + 1] = a
      /\ \A i \in 1 .. Len(A) : B[i] = A[i]
  BY <1>1
<1>3. /\ DOMAIN B = DOMAIN A \cup {Len(A) + 1} /\ Len(A) + 1 \notin DOMAIN A
      /\ \A i \in DOMAIN A : B[i] = A[i]
  BY <1>2
<1>4. Kept(B) = Kept(A) \cup KeptBy(a)
  BY <1>2, <1>3 DEF Kept
<1>5. \A i \in DOMAIN A : KeptBy(A[i]) \cap KeptBy(a) = {}
  BY DEF Kept
<1>6. KeptOnce(B)
  BY <1>2, <1>3, <1>5 DEF KeptOnce, KeptOnceBy
<1> QED BY <1>1, <1>2, <1>4, <1>6

LEMMA KeptReplace ==
  ASSUME NEW A \in Seq(Assignment), NEW n \in DOMAIN A, NEW b \in Assignment, KeptOnce(A),
         KeptOnceBy(b), NEW new, KeptBy(b) = KeptBy(A[n]) \cup new, new \cap Kept(A) = {},
         NEW B, DOMAIN B = DOMAIN A, B[n] = b, \A i \in DOMAIN A \ {n} : B[i] = A[i]
  PROVE  KeptOnce(B) /\ Kept(B) = Kept(A) \cup new
<1>1. Kept(B) = Kept(A) \cup new
  <2>1. \A i \in DOMAIN A : KeptBy(B[i]) = KeptBy(A[i]) \cup (IF i = n THEN new ELSE {})
    OBVIOUS
  <2>2. ASSUME NEW x \in Kept(B) PROVE x \in Kept(A) \cup new
    <3>1. PICK i \in DOMAIN A : x \in KeptBy(B[i])
      BY <2>2 DEF Kept
    <3> QED BY <3>1, <2>1 DEF Kept
  <2>3. Kept(A) \subseteq Kept(B)
    BY <2>1 DEF Kept
  <2>4. new \subseteq Kept(B)
    BY DEF Kept
  <2> QED BY <2>2, <2>3, <2>4
<1>2. \A i \in DOMAIN A : KeptOnceBy(B[i])
  BY DEF KeptOnce, KeptOnceBy
<1>3. \A i \in DOMAIN A : KeptBy(A[i]) \cap new = {}
  BY DEF Kept
<1>4. \A i, j \in DOMAIN A : i # j => KeptBy(B[i]) \cap KeptBy(B[j]) = {}
  BY <1>3 DEF KeptOnce
<1> QED BY <1>1, <1>2, <1>4 DEF KeptOnce, KeptOnceBy

LEMMA KeptAdd ==
  ASSUME NEW A \in Seq(Assignment), A # <<>>, KeptOnce(A), NEW refs \in Seq(Ref), NoDup(refs),
         Ids(refs) \cap Kept(A) = {}
  PROVE  \A B : B = [A EXCEPT ![Len(A)].rhs = @ \o refs] =>
           B \in Seq(Assignment) /\ KeptOnce(B) /\ Kept(B) = Kept(A) \cup Ids(refs)
<1>1. PICK n \in Nat \ {0} : /\ n = Len(A) /\ DOMAIN A = 1 .. n /\ n \in DOMAIN A
                             /\ \A i \in DOMAIN A : A[i] \in Assignment
  BY TakeLast
<1>2. PICK b : b = [A[n] EXCEPT !.rhs = @ \o refs]
  OBVIOUS
<1>3. A[n].rhs \in Seq(Ref) /\ A[n].lhs \in Seq(Ref)
  BY <1>1 DEF Assignment
<1>4. /\ A[n].rhs \o refs \in Seq(Ref) /\ Ids(A[n].rhs \o refs) = Ids(A[n].rhs) \cup Ids(refs)
      /\ NoDup(A[n].rhs \o refs) <=> NoDup(A[n].rhs) /\ NoDup(refs) /\ Ids(A[n].rhs) \cap Ids(refs) = {}
  BY <1>3, IdsConcat
<1>5. KeptBy(A[n]) \subseteq Kept(A) /\ KeptOnceBy(A[n])
  BY <1>1 DEF Kept, KeptOnce, KeptOnceBy
<1>6. b \in Assignment /\ b.rhs = A[n].rhs \o refs /\ b.lhs = A[n].lhs
  BY <1>1, <1>2, <1>4 DEF Assignment
<1>7. KeptOnceBy(b) /\ KeptBy(b) = KeptBy(A[n]) \cup Ids(refs)
  BY <1>4, <1>5, <1>6 DEF KeptOnceBy, KeptBy
<1>8. ASSUME NEW B, DOMAIN B = DOMAIN A, B[n] = b, \A i \in DOMAIN A \ {n} : B[i] = A[i]
      PROVE  KeptOnce(B) /\ Kept(B) = Kept(A) \cup Ids(refs)
  <2>1. PICK new : new = Ids(refs)
    OBVIOUS
  <2>2. n \in DOMAIN A /\ b \in Assignment /\ KeptOnceBy(b)
        /\ KeptBy(b) = KeptBy(A[n]) \cup new /\ new \cap Kept(A) = {}
    BY <2>1, <1>1, <1>6, <1>7
  <2>3. KeptOnce(B) /\ Kept(B) = Kept(A) \cup new
    BY <2>2, <1>8, KeptReplace
  <2> QED BY <2>1, <2>3
<1>9. ASSUME NEW B, B = [A EXCEPT ![n] = b]
      PROVE  /\ B \in Seq(Assignment) /\ DOMAIN B = DOMAIN A /\ B[n] = b
             /\ \A i \in DOMAIN A \ {n} : B[i] = A[i]
  <2>1. A \in [1 .. n -> Assignment]
    BY <1>1
  <2>2. B \in [1 .. n -> Assignment]
    BY <2>1, <1>6, <1>9
  <2>3. B \in Seq(Assignment)
    BY <2>2
  <2> QED BY <2>1, <2>2, <2>3, <1>1, <1>9
<1>10. \A B : B = [A EXCEPT ![Len(A)].rhs = @ \o refs] => B = [A EXCEPT ![n] = b]
  BY <1>1, <1>2
<1> QED BY <1>8, <1>9, <1>10

-----------------------------------------------------------------------------
(* The innermost code path goes on: references come in, are passed on or   *)
(* are collected in the current segments.                                  *)
Collects(ctx, refs, es, new) ==
  /\ UNCHANGED <<nextSegments, prevSegments, plan>>
  /\ codePathStack' = [codePathStack EXCEPT ![Len(codePathStack)] = ctx]
  /\ ctx \in PathContext /\ ctx.segments = Context.segments
  /\ KeptOnce(ctx.assignments)
  /\ refs \in Seq(Ref) /\ NoDup(refs)
  /\ references' = [s \in Segments |->
       IF s \in Context.segments THEN references[s] \o refs ELSE references[s]]
  /\ es \in Seq(Evaluated) /\ Happens(es)
  /\ events' \in Nat /\ events' >= events /\ new \subseteq events + 1 .. events'
  /\ Kept(ctx.assignments) \cup Ids(refs) = Kept(assignmentStack) \cup new
  /\ Kept(ctx.assignments) \cap Ids(refs) = {}
  /\ Ids(es) \subseteq Kept(assignmentStack) \cup new

LEMMA CollectStep ==
  ASSUME CollectInv, codePathStack # <<>>, NEW ctx, NEW refs, NEW es, NEW new,
         Collects(ctx, refs, es, new)
  PROVE  CollectInv'
<1>n. PICK n : n = Len(codePathStack)
  OBVIOUS
<1>A. PICK A : A = assignmentStack /\ A = Context.assignments
  BY DEF assignmentStack
<1>B. PICK B : B = ctx.assignments
  OBVIOUS
<1>0. /\ ctx \in PathContext /\ ctx.segments = Context.segments
      /\ codePathStack' = [codePathStack EXCEPT ![n] = ctx]
      /\ UNCHANGED <<nextSegments, prevSegments, plan>>
      /\ KeptOnce(B) /\ refs \in Seq(Ref) /\ NoDup(refs)
      /\ references' = [s \in Segments |->
           IF s \in Context.segments THEN references[s] \o refs ELSE references[s]]
      /\ es \in Seq(Evaluated) /\ Happens(es)
      /\ events' \in Nat /\ events' >= events /\ new \subseteq events + 1 .. events'
      /\ Kept(B) \cup Ids(refs) = Kept(A) \cup new /\ Kept(B) \cap Ids(refs) = {}
      /\ Ids(es) \subseteq Kept(A) \cup new
  BY <1>n, <1>A, <1>B DEF Collects
<1> USE <1>0, <1>n, <1>A, <1>B
<1>1. /\ n \in Nat \ {0} /\ codePathStack \in Seq(PathContext) /\ DOMAIN codePathStack = 1 .. n
      /\ n \in DOMAIN codePathStack /\ Context = codePathStack[n] /\ Context \in PathContext
  BY TakeLast DEF CollectInv, VisitTypeOK, Context
<1>2. /\ codePathStack' \in Seq(PathContext) /\ Len(codePathStack') = n
      /\ DOMAIN codePathStack' = DOMAIN codePathStack /\ codePathStack'[n] = ctx
      /\ \A c \in DOMAIN codePathStack \ {n} : codePathStack'[c] = codePathStack[c]
  <2>1. codePathStack \in [1 .. n -> PathContext]
    BY <1>1
  <2>2. codePathStack' \in [1 .. n -> PathContext]
    BY <2>1
  <2>3. codePathStack' \in Seq(PathContext) /\ Len(codePathStack') = n
    BY <2>2, <1>1
  <2> QED BY <2>1, <2>2, <2>3, <1>1
<1>3. /\ KeptIn(n)' = Kept(B) /\ KeptIn(n) = Kept(A)
      /\ \A c \in DOMAIN codePathStack \ {n} : KeptIn(c)' = KeptIn(c)
  BY <1>1, <1>2 DEF KeptIn
<1>4. \A s \in Segments :
        /\ s \in Context.segments =>
             /\ references'[s] \in Seq(Ref) /\ Ids(references'[s]) = Ids(references[s]) \cup Ids(refs)
             /\ NoDup(references'[s]) <=>
                  NoDup(references[s]) /\ NoDup(refs) /\ Ids(references[s]) \cap Ids(refs) = {}
        /\ s \notin Context.segments => references'[s] = references[s] /\ references[s] \in Seq(Ref)
  <2> TAKE s \in Segments
  <2>1. references[s] \in Seq(Ref)
    BY DEF CollectInv, VisitTypeOK, ReferencesOK
  <2>2. references'[s] = IF s \in Context.segments THEN references[s] \o refs ELSE references[s]
    OBVIOUS
  <2> QED BY <2>1, <2>2, IdsConcat
<1>5. \A s \in Segments :
        /\ s \in Context.segments =>
             trace'[s] \in Seq(Evaluated) /\ Ids(trace'[s]) = Ids(trace[s]) \cup Ids(es)
        /\ s \notin Context.segments => trace'[s] = trace[s] /\ trace[s] \in Seq(Evaluated)
  <2> TAKE s \in Segments
  <2>1. trace[s] \in Seq(Evaluated)
    BY DEF CollectInv, VisitTypeOK
  <2>2. trace'[s] = IF s \in Context.segments THEN trace[s] \o es ELSE trace[s]
    BY DEF Happens
  <2> QED BY <2>1, <2>2, IdsConcat
<1>6. VisitTypeOK'
  <2>1. ReferencesOK'
    BY <1>4 DEF ReferencesOK
  <2>2. trace' \in [Segments -> Seq(Evaluated)]
    BY <1>5 DEF Happens
  <2>3. GraphOK'
    BY DEF CollectInv, VisitTypeOK, GraphOK
  <2>4. \E open \in [0 .. Len(plan) -> Nat] : Brackets(plan, open, Len(codePathStack))
    BY DEF CollectInv, VisitTypeOK
  <2>5. (\E open \in [0 .. Len(plan) -> Nat] : Brackets(plan, open, Len(codePathStack)))'
    <3>1. Len(codePathStack') = Len(codePathStack) /\ plan' = plan
      BY <1>2
    <3> QED BY <2>4, <3>1 DEF Brackets
  <2>6. plan' \in Seq(PlanEvent)
    BY DEF CollectInv, VisitTypeOK
  <2> QED BY <2>1, <2>2, <2>3, <2>5, <2>6, <1>2 DEF VisitTypeOK
<1>7. /\ events \in Nat /\ Kept(A) \subseteq 1 .. events /\ new \cap (1 .. events) = {}
      /\ new \subseteq 1 .. events' /\ 1 .. events \subseteq 1 .. events'
  <2>1. events \in Nat /\ Kept(A) \subseteq 1 .. events
    BY <1>1, <1>3 DEF CollectInv, VisitTypeOK, Once
  <2> QED BY <2>1
<1>8. \A s \in Segments : Ids(references[s]) \cap (Kept(A) \cup new) = {}
  BY <1>1, <1>3, <1>7 DEF CollectInv, Once
<1>9. \A c \in DOMAIN codePathStack \ {n} : KeptIn(c) \cap (Kept(A) \cup new) = {}
  BY <1>1, <1>3, <1>7 DEF CollectInv, Once
<1>10. Once'
  <2>1. \A s \in Segments : NoDup(references'[s]) /\ Ids(references'[s]) \subseteq 1 .. events'
    <3> TAKE s \in Segments
    <3>1. NoDup(references[s]) /\ Ids(references[s]) \subseteq 1 .. events
      BY DEF CollectInv, Once
    <3>2. Ids(refs) \subseteq 1 .. events' /\ Ids(references[s]) \cap Ids(refs) = {}
      BY <1>7, <1>8
    <3>3. CASE s \in Context.segments
      BY <3>1, <3>2, <3>3, <1>4, <1>7
    <3>4. CASE s \notin Context.segments
      BY <3>1, <3>4, <1>4, <1>7
    <3> QED BY <3>3, <3>4
  <2>2. \A c \in DOMAIN codePathStack : KeptOnce(codePathStack'[c].assignments)
    BY <1>2 DEF CollectInv, Once
  <2>3. \A c \in DOMAIN codePathStack : KeptIn(c)' \subseteq 1 .. events'
    BY <1>3, <1>7 DEF CollectInv, Once
  <2>4. \A c \in DOMAIN codePathStack, s \in Segments : KeptIn(c)' \cap Ids(references'[s]) = {}
    <3> TAKE c \in DOMAIN codePathStack, s \in Segments
    <3>1. CASE c = n
      BY <3>1, <1>3, <1>4, <1>8
    <3>2. CASE c # n
      <4>1. KeptIn(c) \cap Ids(references[s]) = {}
        BY DEF CollectInv, Once
      <4> QED BY <4>1, <3>2, <1>3, <1>4, <1>9
    <3> QED BY <3>1, <3>2
  <2>5. \A b, c \in DOMAIN codePathStack : b # c => KeptIn(b)' \cap KeptIn(c)' = {}
    <3> TAKE b, c \in DOMAIN codePathStack
    <3>1. b # c => KeptIn(b) \cap KeptIn(c) = {}
      BY DEF CollectInv, Once
    <3> QED BY <3>1, <1>3, <1>9
  <2> QED BY <1>2, <2>1, <2>2, <2>3, <2>4, <2>5 DEF Once
<1>11. ASSUME NEW s \in Segments, NEW id \in Ids(trace'[s])
       PROVE  /\ IsCollected(id)' \/ \E c \in DOMAIN codePathStack : id \in KeptIn(c)'
              /\ \A c \in DOMAIN codePathStack : codePathStack'[c].segments = {} => id \notin KeptIn(c)'
  <2>1. CASE id \in Ids(trace[s])
    <3>1. /\ IsCollected(id) \/ \E c \in DOMAIN codePathStack : id \in KeptIn(c)
          /\ \A c \in DOMAIN codePathStack : codePathStack[c].segments = {} => id \notin KeptIn(c)
      BY <2>1 DEF CollectInv, EvaluatedFound
    <3>2. IsCollected(id) => IsCollected(id)'
      BY <1>4 DEF IsCollected
    <3>3. id \in 1 .. events
      BY <3>1 DEF IsCollected, CollectInv, Once
    <3>4. id \in Kept(A) => id \in Kept(B) \/ IsCollected(id)'
      <4> SUFFICES ASSUME id \in Kept(A), id \notin Kept(B) PROVE IsCollected(id)'
        OBVIOUS
      <4>1. id \in Ids(refs) /\ Context.segments # {} /\ Context.segments \subseteq Segments
        BY <3>1, <1>1, <1>3 DEF PathContext
      <4> QED BY <4>1, <1>4 DEF IsCollected
    <3>5. IsCollected(id)' \/ \E c \in DOMAIN codePathStack : id \in KeptIn(c)'
      BY <3>1, <3>2, <3>4, <1>1, <1>3
    <3>6. \A c \in DOMAIN codePathStack : codePathStack'[c].segments = {} => id \notin KeptIn(c)'
      <4> SUFFICES ASSUME NEW c \in DOMAIN codePathStack, codePathStack'[c].segments = {}
                   PROVE  id \notin KeptIn(c)'
        OBVIOUS
      <4>1. codePathStack[c].segments = {} /\ id \notin KeptIn(c)
        BY <3>1, <1>1, <1>2
      <4> QED BY <4>1, <3>3, <1>3, <1>7
    <3> QED BY <3>5, <3>6
  <2>2. CASE id \notin Ids(trace[s])
    <3>1. s \in Context.segments /\ id \in Kept(A) \cup new
      BY <2>2, <1>5, <1>11
    <3>2. IsCollected(id)' \/ id \in KeptIn(n)'
      <4>1. id \in Kept(B) \/ id \in Ids(references'[s])
        BY <3>1, <1>4
      <4> QED BY <4>1, <1>3 DEF IsCollected
    <3>3. \A c \in DOMAIN codePathStack : codePathStack'[c].segments = {} => id \notin KeptIn(c)'
      BY <3>1, <1>1, <1>2, <1>3, <1>9
    <3> QED BY <3>2, <3>3, <1>1
  <2> QED BY <2>1, <2>2
<1>12. EvaluatedFound'
  BY <1>2, <1>11 DEF EvaluatedFound
<1> QED BY <1>6, <1>10, <1>12 DEF CollectInv

(* processReference(): in the segments, or in the assignment around.       *)
LEMMA ProcessCollects ==
  ASSUME CollectInv, codePathStack # <<>>, UNCHANGED <<nextSegments, prevSegments, plan>>,
         NEW refs \in Seq(Ref), NoDup(refs), NEW stack \in Seq(Assignment), KeptOnce(stack),
         Ids(refs) \cap Kept(stack) = {}, Process(refs, stack),
         NEW es \in Seq(Evaluated), Happens(es),
         events' \in Nat, events' >= events, NEW new \in SUBSET (events + 1 .. events'),
         Kept(stack) \cup Ids(refs) = Kept(assignmentStack) \cup new,
         Ids(es) \subseteq Kept(assignmentStack) \cup new
  PROVE  CollectInv'
<1>1. PICK n : n = Len(codePathStack)
  OBVIOUS
<1>2. PICK A : A = Context.assignments
  OBVIOUS
<1>3. A = assignmentStack
  BY <1>2 DEF assignmentStack
<1>4. Context \in PathContext
  BY TakeLast DEF CollectInv, VisitTypeOK, Context
<1>5. CASE stack = <<>>
  <2>1. PICK B : B = <<>>
    OBVIOUS
  <2>2. PICK ctx : ctx = [Context EXCEPT !.assignments = B]
    OBVIOUS
  <2>3. B \in Seq(Assignment) /\ KeptOnce(B) /\ Kept(B) = {} /\ Kept(stack) = {}
    BY <2>1, <1>5 DEF KeptOnce, Kept
  <2>4. ctx \in PathContext /\ ctx.segments = Context.segments /\ B = ctx.assignments
    BY <2>2, <2>3, <1>4 DEF PathContext
  <2>5. /\ codePathStack' = [codePathStack EXCEPT ![n] = ctx]
        /\ references' = [s \in Segments |->
             IF s \in Context.segments THEN references[s] \o refs ELSE references[s]]
    BY <1>1, <1>5, <2>1, <2>2 DEF Process, SetContext
  <2>6. Kept(B) \cup Ids(refs) = Kept(A) \cup new /\ Kept(B) \cap Ids(refs) = {}
    BY <2>3, <1>3
  <2>7. Ids(es) \subseteq Kept(A) \cup new
    BY <1>3
  <2>8. Collects(ctx, refs, es, new)
    BY <1>1, <1>3, <2>3, <2>4, <2>5, <2>6, <2>7 DEF Collects
  <2> QED BY <2>8, CollectStep
<1>6. CASE stack # <<>>
  <2>1. PICK B : B = [stack EXCEPT ![Len(stack)].rhs = @ \o refs]
    OBVIOUS
  <2>2. PICK ctx : ctx = [Context EXCEPT !.assignments = B]
    OBVIOUS
  <2>3. PICK none \in Seq(Ref) : none = <<>>
    BY EmptySeq
  <2>4. B \in Seq(Assignment) /\ KeptOnce(B) /\ Kept(B) = Kept(stack) \cup Ids(refs)
    BY <2>1, <1>6, KeptAdd
  <2>5. ctx \in PathContext /\ ctx.segments = Context.segments /\ B = ctx.assignments
    BY <2>2, <2>4, <1>4 DEF PathContext
  <2>6. codePathStack' = [codePathStack EXCEPT ![n] = ctx] /\ references' = references
    BY <1>1, <1>6, <2>1, <2>2 DEF Process, SetContext
  <2>7. references' = [s \in Segments |->
          IF s \in Context.segments THEN references[s] \o none ELSE references[s]]
    <3>1. references \in [Segments -> Seq(Ref)]
      BY DEF CollectInv, VisitTypeOK, ReferencesOK
    <3>2. \A s \in Segments : references[s] \o none = references[s]
      BY <3>1, <2>3
    <3> QED BY <3>1, <3>2, <2>6
  <2>8. NoDup(none) /\ Ids(none) = {}
    BY <2>3, IdsOne
  <2>9. Kept(B) \cup Ids(none) = Kept(A) \cup new /\ Kept(B) \cap Ids(none) = {}
    BY <2>4, <2>8, <1>3
  <2>10. Ids(es) \subseteq Kept(A) \cup new
    BY <1>3
  <2>11. Collects(ctx, none, es, new)
    BY <1>1, <1>3, <2>3, <2>4, <2>5, <2>6, <2>7, <2>8, <2>9, <2>10 DEF Collects
  <2> QED BY <2>11, CollectStep
<1> QED BY <1>5, <1>6

(* What the innermost code path keeps.                                     *)
LEMMA ContextFacts ==
  ASSUME CollectInv, codePathStack # <<>>
  PROVE  /\ Context \in PathContext /\ Len(codePathStack) \in DOMAIN codePathStack
         /\ assignmentStack \in Seq(Assignment) /\ KeptOnce(assignmentStack)
         /\ events \in Nat /\ Kept(assignmentStack) \subseteq 1 .. events
<1>1. Context \in PathContext /\ Len(codePathStack) \in DOMAIN codePathStack
  BY TakeLast DEF CollectInv, VisitTypeOK, Context
<1>2. assignmentStack \in Seq(Assignment)
  BY <1>1 DEF PathContext, assignmentStack
<1>3. KeptOnce(assignmentStack) /\ Kept(assignmentStack) \subseteq 1 .. events
  BY <1>1 DEF CollectInv, Once, KeptIn, assignmentStack, Context
<1> QED BY <1>1, <1>2, <1>3 DEF CollectInv, VisitTypeOK

LEMMA CollectIdentifier ==
  ASSUME CollectInv, UNCHANGED <<nextSegments, prevSegments>>, NEW v \in Variables,
         NEW update \in BOOLEAN, Identifier(v, update)
  PROVE  CollectInv'
<1>1. codePathStack # <<>> /\ plan' = plan /\ events' = events + 1
  BY DEF Identifier, CanVisit
<1>2. /\ assignmentStack \in Seq(Assignment) /\ KeptOnce(assignmentStack)
      /\ events \in Nat /\ Kept(assignmentStack) \subseteq 1 .. events
  BY <1>1, ContextFacts
<1>3. PICK r : r = NewRef(v, TRUE, update, TRUE)
  OBVIOUS
<1>4. /\ r \in Ref /\ r.id = events + 1
      /\ ReadOf(r) \in Evaluated /\ ReadOf(r).id = events + 1
      /\ StoreOf(r) \in Evaluated /\ StoreOf(r).id = events + 1
  BY <1>2, <1>3 DEF NewRef, Ref, ReadOf, StoreOf, Evaluated
<1>5. PICK refs \in Seq(Ref) : refs = <<r>>
  <2>1. <<r>> \in Seq(Ref)
    BY <1>4
  <2> QED BY <2>1
<1>6. PICK es : es = IF update THEN <<ReadOf(r), StoreOf(r)>> ELSE <<ReadOf(r)>>
  OBVIOUS
<1>7. es \in Seq(Evaluated) /\ Ids(es) \subseteq {events + 1}
  <2>1. CASE update
    <3>1. es = <<ReadOf(r), StoreOf(r)>>
      BY <2>1, <1>6
    <3>2. es \in Seq(Evaluated) /\ DOMAIN es = {1, 2} /\ es[1] = ReadOf(r) /\ es[2] = StoreOf(r)
      BY <3>1, <1>4
    <3> QED BY <3>2, <1>4 DEF Ids
  <2>2. CASE ~ update
    <3>1. es = <<ReadOf(r)>>
      BY <2>2, <1>6
    <3> QED BY <3>1, <1>4, IdsOne
  <2> QED BY <2>1, <2>2
<1>8. Process(refs, assignmentStack) /\ Happens(es)
  BY <1>3, <1>5, <1>6 DEF Identifier
<1>9. NoDup(refs) /\ Ids(refs) = {events + 1}
  BY <1>4, <1>5, IdsOne
<1>10. PICK new \in SUBSET (events + 1 .. events') : new = {events + 1}
  <2>1. {events + 1} \in SUBSET (events + 1 .. events')
    BY <1>1, <1>2
  <2> QED BY <2>1
<1>11. /\ Ids(refs) \cap Kept(assignmentStack) = {} /\ events' \in Nat /\ events' >= events
       /\ Kept(assignmentStack) \cup Ids(refs) = Kept(assignmentStack) \cup new
       /\ Ids(es) \subseteq Kept(assignmentStack) \cup new
  BY <1>1, <1>2, <1>7, <1>9, <1>10
<1> QED BY <1>1, <1>2, <1>7, <1>8, <1>9, <1>11, ProcessCollects

LEMMA CollectEnter ==
  ASSUME CollectInv, UNCHANGED <<nextSegments, prevSegments>>, NEW v \in Variables,
         NEW compound \in BOOLEAN, NEW exempt \in BOOLEAN, EnterAssignment(v, compound, exempt)
  PROVE  CollectInv'
<1>1. codePathStack # <<>> /\ UNCHANGED <<plan, references>> /\ events' = events + 1
  BY DEF EnterAssignment, CanVisit
<1>2. /\ assignmentStack \in Seq(Assignment) /\ KeptOnce(assignmentStack)
      /\ events \in Nat /\ Kept(assignmentStack) \subseteq 1 .. events /\ Context \in PathContext
  BY <1>1, ContextFacts
<1>3. PICK r : r = NewRef(v, compound, TRUE, exempt)
  OBVIOUS
<1>4. r \in Ref /\ r.id = events + 1 /\ ReadOf(r) \in Evaluated /\ ReadOf(r).id = events + 1
  BY <1>2, <1>3 DEF NewRef, Ref, ReadOf, StoreOf, Evaluated
<1>5. PICK a : a = [lhs |-> <<r>>, rhs |-> <<>>, opened |-> Len(Context.forks)]
  OBVIOUS
<1>6. a \in Assignment /\ KeptOnceBy(a) /\ KeptBy(a) = {events + 1}
  <2>1. a.lhs = <<r>> /\ a.rhs = <<>> /\ a.opened = Len(Context.forks)
    BY <1>5
  <2>2. <<r>> \in Seq(Ref) /\ <<>> \in Seq(Ref) /\ <<r>> # <<>> /\ Len(Context.forks) \in Nat
    BY <1>2, <1>4 DEF PathContext
  <2>3. a \in Assignment
    BY <1>5, <2>2 DEF Assignment
  <2> QED BY <2>1, <2>2, <2>3, <1>4, IdsOne DEF KeptOnceBy, KeptBy
<1>7. PICK A, n : A = Context.assignments /\ n = Len(codePathStack)
  OBVIOUS
<1>8. PICK B : B = Append(A, a)
  OBVIOUS
<1>9. A \in Seq(Assignment) /\ KeptOnce(A) /\ Kept(A) \subseteq 1 .. events
  BY <1>2, <1>7 DEF assignmentStack
<1>10. B \in Seq(Assignment) /\ KeptOnce(B) /\ Kept(B) = Kept(A) \cup {events + 1}
  <2>1. KeptBy(a) \cap Kept(A) = {}
    BY <1>2, <1>6, <1>9
  <2> QED BY <2>1, <1>6, <1>8, <1>9, KeptPush
<1>11. PICK ctx : ctx = [Context EXCEPT !.assignments = B]
  OBVIOUS
<1>12. ctx \in PathContext /\ ctx.segments = Context.segments /\ B = ctx.assignments
  BY <1>2, <1>10, <1>11 DEF PathContext
<1>13. codePathStack' = [codePathStack EXCEPT ![n] = ctx]
  BY <1>3, <1>5, <1>7, <1>8, <1>11 DEF EnterAssignment, SetContext
<1>14. PICK none \in Seq(Ref) : none = <<>>
  BY EmptySeq
<1>15. references' = [s \in Segments |->
         IF s \in Context.segments THEN references[s] \o none ELSE references[s]]
  <2>1. references \in [Segments -> Seq(Ref)]
    BY DEF CollectInv, VisitTypeOK, ReferencesOK
  <2>2. \A s \in Segments : references[s] \o none = references[s]
    BY <2>1, <1>14
  <2> QED BY <2>1, <2>2, <1>1
<1>16. PICK es : es = IF compound THEN <<ReadOf(r)>> ELSE <<>>
  OBVIOUS
<1>17. es \in Seq(Evaluated) /\ Ids(es) \subseteq {events + 1} /\ Happens(es)
  <2>1. Happens(es)
    BY <1>3, <1>16 DEF EnterAssignment
  <2> QED BY <2>1, <1>4, <1>16, IdsOne
<1>18. PICK new \in SUBSET (events + 1 .. events') : new = {events + 1}
  <2>1. {events + 1} \in SUBSET (events + 1 .. events')
    BY <1>1, <1>2
  <2> QED BY <2>1
<1>19. /\ NoDup(none) /\ Kept(B) \cup Ids(none) = Kept(A) \cup new /\ Kept(B) \cap Ids(none) = {}
       /\ Ids(es) \subseteq Kept(A) \cup new /\ events' \in Nat /\ events' >= events
  <2>1. NoDup(none) /\ Ids(none) = {}
    BY <1>14, IdsOne
  <2>2. events' \in Nat /\ events' >= events
    BY <1>1, <1>2
  <2> QED BY <2>1, <2>2, <1>10, <1>17, <1>18
<1>20. A = assignmentStack
  BY <1>7 DEF assignmentStack
<1>21. Collects(ctx, none, es, new)
  BY <1>1, <1>7, <1>10, <1>12, <1>13, <1>14, <1>15, <1>17, <1>18, <1>19, <1>20 DEF Collects
<1> QED BY <1>1, <1>21, CollectStep

LEMMA CollectExit ==
  ASSUME CollectInv, UNCHANGED <<nextSegments, prevSegments>>, ExitAssignment
  PROVE  CollectInv'
<1>1. /\ codePathStack # <<>> /\ assignmentStack # <<>> /\ UNCHANGED <<plan, events>>
  BY DEF ExitAssignment
<1>2. /\ assignmentStack \in Seq(Assignment) /\ KeptOnce(assignmentStack)
      /\ events \in Nat /\ Kept(assignmentStack) \subseteq 1 .. events
  BY <1>1, ContextFacts
<1>3. PICK stack, a : stack = Front(assignmentStack) /\ a = Top(assignmentStack)
  OBVIOUS
<1>4. /\ stack \in Seq(Assignment) /\ a \in Assignment /\ KeptOnce(stack) /\ KeptOnceBy(a)
      /\ Kept(assignmentStack) = Kept(stack) \cup KeptBy(a) /\ Kept(stack) \cap KeptBy(a) = {}
  BY <1>1, <1>2, <1>3, KeptFront
<1>5. PICK refs : refs = a.rhs \o a.lhs
  OBVIOUS
<1>6. refs \in Seq(Ref) /\ NoDup(refs) /\ Ids(refs) = KeptBy(a)
  <2>1. a.rhs \in Seq(Ref) /\ a.lhs \in Seq(Ref)
    BY <1>4 DEF Assignment
  <2> QED BY <2>1, <1>4, <1>5, IdsConcat DEF KeptOnceBy, KeptBy
<1>7. PICK es : es = <<StoreOf(a.lhs[1])>>
  OBVIOUS
<1>8. es \in Seq(Evaluated) /\ Ids(es) \subseteq KeptBy(a)
  <2>1. a.lhs[1] \in Ref /\ a.lhs[1].id \in Ids(a.lhs)
    <3>1. a.lhs \in Seq(Ref) /\ a.lhs # <<>>
      BY <1>4 DEF Assignment, KeptOnceBy
    <3>2. 1 \in DOMAIN a.lhs
      BY <3>1
    <3> QED BY <3>1, <3>2 DEF Ids
  <2>2. StoreOf(a.lhs[1]) \in Evaluated /\ StoreOf(a.lhs[1]).id = a.lhs[1].id
    BY <2>1 DEF StoreOf, Ref, Evaluated
  <2> QED BY <2>1, <2>2, <1>7, IdsOne DEF KeptBy
<1>9. Process(refs, stack) /\ Happens(es)
  BY <1>3, <1>5, <1>7 DEF ExitAssignment, RhsFirst
<1>10. PICK new \in SUBSET (events + 1 .. events') : new = {}
  OBVIOUS
<1>11. /\ Ids(refs) \cap Kept(stack) = {} /\ events' \in Nat /\ events' >= events
       /\ Kept(stack) \cup Ids(refs) = Kept(assignmentStack) \cup new
       /\ Ids(es) \subseteq Kept(assignmentStack) \cup new
  BY <1>1, <1>2, <1>4, <1>6, <1>8, <1>10
<1> QED BY <1>1, <1>4, <1>6, <1>8, <1>9, <1>11, ProcessCollects

-----------------------------------------------------------------------------
(* Code path events.                                                       *)
LEMMA EventFacts ==
  ASSUME NEW e \in PlanEvent
  PROVE  /\ e.type \in SegmentType \cup {"start", "end"}
         /\ e.type = "start" => e.id \in CodePathIds /\ e.segments \in SUBSET Segments
         /\ e.type \in SegmentType => e.segments \in SUBSET Segments
<1>1. CASE \E id \in CodePathIds, S \in (SUBSET Segments) \ {{}} : e = PathStart(id, S)
  BY <1>1 DEF PathStart, SegmentType
<1>2. CASE \E type \in SegmentType, S \in SUBSET Segments : e = SegmentsStart(type, S)
  BY <1>2 DEF SegmentsStart, SegmentType
<1>3. CASE e = PathEnd
  BY <1>3 DEF PathEnd, SegmentType
<1> QED BY <1>1, <1>2, <1>3 DEF PlanEvent, SegmentType

(* The next event is taken: the others are properly nested in the code     *)
(* paths that are open then.                                               *)
LEMMA BracketsTail ==
  ASSUME NEW p \in Seq(PlanEvent), p # <<>>, NEW depth \in Nat,
         \E open \in [0 .. Len(p) -> Nat] : Brackets(p, open, depth)
  PROVE  /\ Head(p).type # "start" => depth > 0
         /\ Tail(p) \in Seq(PlanEvent) /\ Head(p) \in PlanEvent
         /\ \E open \in [0 .. Len(Tail(p)) -> Nat] :
              Brackets(Tail(p), open,
                       IF Head(p).type = "start" THEN depth + 1
                       ELSE IF Head(p).type = "end" THEN depth - 1 ELSE depth)
<1>1. /\ Len(p) \in Nat /\ Len(p) >= 1 /\ Head(p) = p[1] /\ DOMAIN p = 1 .. Len(p)
      /\ Head(p) \in PlanEvent /\ Tail(p) \in Seq(PlanEvent) /\ Len(Tail(p)) = Len(p) - 1
      /\ \A i \in 1 .. Len(p) - 1 : Tail(p)[i] = p[i + 1]
  OBVIOUS
<1>2. PICK open \in [0 .. Len(p) -> Nat] : Brackets(p, open, depth)
  OBVIOUS
<1>3. PICK q : q = Tail(p)
  OBVIOUS
<1> DEFINE n == Len(p) - 1
<1>a. n \in Nat
  BY <1>1
<1> HIDE DEF n
<1>b. n + 1 = Len(p)
  BY <1>1 DEF n
<1>4. PICK rest : rest = [i \in 0 .. n |-> open[i + 1]]
  OBVIOUS
<1>5. rest \in [0 .. n -> Nat] /\ \A i \in 0 .. n : rest[i] = open[i + 1]
  BY <1>1, <1>a, <1>b, <1>4
<1>6. /\ Len(q) = n /\ \A i \in 1 .. n : q[i] = p[i + 1]
      /\ \A i \in 1 .. n : i + 1 \in 1 .. Len(p) /\ rest[i] = open[i + 1] /\ rest[i - 1] = open[i]
      /\ \A i \in 1 .. n : (i + 1) - 1 = i
  <2>1. Len(q) = n
    BY <1>1, <1>3 DEF n
  <2>2. \A i \in 1 .. n : q[i] = p[i + 1]
    BY <1>1, <1>3 DEF n
  <2>3. \A i \in 1 .. n : /\ i \in 0 .. n /\ i - 1 \in 0 .. n /\ (i - 1) + 1 = i
                          /\ i + 1 \in 1 .. Len(p) /\ (i + 1) - 1 = i
    BY <1>a, <1>b
  <2> QED BY <2>1, <2>2, <2>3, <1>5
<1>7. /\ open[0] = depth /\ open[Len(p)] = 0
      /\ \A i \in 1 .. Len(p) :
           CASE p[i].type = "start" -> open[i] = open[i - 1] + 1
             [] p[i].type = "end"   -> open[i - 1] = open[i] + 1
             [] OTHER               -> open[i] = open[i - 1] /\ open[i] > 0
  BY <1>2 DEF Brackets
<1>8. 1 \in 1 .. Len(p) /\ open[1] \in Nat /\ 1 - 1 = 0
  BY <1>1
<1>9. /\ p[1].type = "start" => open[1] = open[0] + 1
      /\ p[1].type = "end" => open[0] = open[1] + 1
      /\ p[1].type \notin {"start", "end"} => open[1] = open[0] /\ open[1] > 0
  BY <1>7, <1>8
<1>10. /\ Head(p).type # "start" => depth > 0
       /\ open[1] = IF Head(p).type = "start" THEN depth + 1
                    ELSE IF Head(p).type = "end" THEN depth - 1 ELSE depth
  <2>1. CASE p[1].type = "start"
    BY <2>1, <1>1, <1>7, <1>8, <1>9
  <2>2. CASE p[1].type = "end"
    <3>1. depth = open[1] + 1
      BY <2>2, <1>7, <1>9
    <3>2. depth > 0 /\ open[1] = depth - 1
      BY <3>1, <1>8
    <3> QED BY <3>2, <2>2, <1>1
  <2>3. CASE p[1].type # "start" /\ p[1].type # "end"
    BY <2>3, <1>1, <1>7, <1>8, <1>9
  <2> QED BY <2>1, <2>2, <2>3
<1>11. rest[0] = open[1] /\ rest[n] = 0
  <2>1. 0 \in 0 .. n /\ n \in 0 .. n /\ 0 + 1 = 1
    BY <1>a
  <2> QED BY <2>1, <1>b, <1>5, <1>7
<1>12. \A i \in 1 .. n :
         CASE q[i].type = "start" -> rest[i] = rest[i - 1] + 1
           [] q[i].type = "end"   -> rest[i - 1] = rest[i] + 1
           [] OTHER               -> rest[i] = rest[i - 1] /\ rest[i] > 0
  <2> TAKE i \in 1 .. n
  <2>1. PICK j \in 1 .. Len(p) : j = i + 1 /\ j - 1 = i
    BY <1>6
  <2>2. q[i] = p[j] /\ rest[i] = open[j] /\ rest[i - 1] = open[j - 1]
    BY <2>1, <1>6
  <2> QED BY <2>2, <1>7
<1>13. Brackets(q, rest, open[1])
  BY <1>6, <1>11, <1>12 DEF Brackets
<1>14. \E o \in [0 .. Len(q) -> Nat] : Brackets(q, o, open[1])
  BY <1>5, <1>6, <1>13
<1> QED BY <1>1, <1>3, <1>10, <1>14

LEMMA CollectStart ==
  ASSUME CollectInv, UNCHANGED <<nextSegments, prevSegments>>, StartCodePath
  PROVE  CollectInv'
<1>1. /\ plan \in Seq(PlanEvent) /\ plan # <<>> /\ Head(plan).type = "start"
      /\ plan' = Tail(plan) /\ UNCHANGED <<references, events, trace>>
      /\ codePathStack \in Seq(PathContext) /\ Len(codePathStack) \in Nat
  BY DEF StartCodePath, CollectInv, VisitTypeOK
<1>2. PICK ctx : ctx = [id |-> Head(plan).id, assignments |-> <<>>, forks |-> <<>>,
                        segments |-> Head(plan).segments]
  OBVIOUS
<1>3. /\ Tail(plan) \in Seq(PlanEvent) /\ Head(plan) \in PlanEvent
      /\ \E open \in [0 .. Len(Tail(plan)) -> Nat] :
           Brackets(Tail(plan), open, Len(codePathStack) + 1)
  BY <1>1, BracketsTail DEF CollectInv, VisitTypeOK
<1>4. ctx \in PathContext /\ ctx.assignments = <<>>
  <2>1. Head(plan).id \in CodePathIds /\ Head(plan).segments \in SUBSET Segments
    BY <1>1, <1>3, EventFacts
  <2>2. <<>> \in Seq(Assignment) /\ <<>> \in Seq(SUBSET Segments)
    BY EmptySeq
  <2> QED BY <2>1, <2>2, <1>2 DEF PathContext
<1>5. codePathStack' = Append(codePathStack, ctx)
  BY <1>2 DEF StartCodePath
<1>6. PICK n \in Nat : n = Len(codePathStack) /\ DOMAIN codePathStack = 1 .. n
  BY <1>1
<1>7. /\ codePathStack' \in Seq(PathContext) /\ Len(codePathStack') = n + 1
      /\ DOMAIN codePathStack' = DOMAIN codePathStack \cup {n + 1}
      /\ codePathStack'[n + 1] = ctx /\ n + 1 \notin DOMAIN codePathStack
      /\ \A c \in DOMAIN codePathStack : codePathStack'[c] = codePathStack[c]
  BY <1>1, <1>4, <1>5, <1>6
<1>8. /\ KeptIn(n + 1)' = {} /\ KeptOnce(codePathStack'[n + 1].assignments)
      /\ \A c \in DOMAIN codePathStack : KeptIn(c)' = KeptIn(c)
  BY <1>4, <1>7 DEF KeptIn, Kept, KeptOnce
<1>9. VisitTypeOK'
  <2>1. (\E open \in [0 .. Len(plan) -> Nat] : Brackets(plan, open, Len(codePathStack)))'
    BY <1>1, <1>3, <1>6, <1>7 DEF Brackets
  <2>2. GraphOK' /\ ReferencesOK' /\ trace' \in [Segments -> Seq(Evaluated)] /\ events' \in Nat
    BY <1>1 DEF CollectInv, VisitTypeOK, GraphOK, ReferencesOK
  <2> QED BY <2>1, <2>2, <1>1, <1>3, <1>7 DEF VisitTypeOK
<1>10. Once'
  <2>1. \A c \in DOMAIN codePathStack' :
          /\ KeptOnce(codePathStack'[c].assignments) /\ KeptIn(c)' \subseteq 1 .. events
          /\ \A s \in Segments : KeptIn(c)' \cap Ids(references[s]) = {}
    BY <1>7, <1>8 DEF CollectInv, Once
  <2>2. \A b, c \in DOMAIN codePathStack' : b # c => KeptIn(b)' \cap KeptIn(c)' = {}
    <3> TAKE b, c \in DOMAIN codePathStack'
    <3>1. CASE b = n + 1 \/ c = n + 1
      BY <3>1, <1>8
    <3>2. CASE b # n + 1 /\ c # n + 1
      BY <3>2, <1>7, <1>8 DEF CollectInv, Once
    <3> QED BY <3>1, <3>2
  <2> QED BY <1>1, <2>1, <2>2 DEF CollectInv, Once
<1>11. EvaluatedFound'
  <2> SUFFICES ASSUME NEW s \in Segments, NEW id \in Ids(trace[s])
               PROVE  /\ IsCollected(id)' \/ \E c \in DOMAIN codePathStack' : id \in KeptIn(c)'
                      /\ \A c \in DOMAIN codePathStack' :
                           codePathStack'[c].segments = {} => id \notin KeptIn(c)'
    BY <1>1 DEF EvaluatedFound
  <2>1. /\ IsCollected(id) \/ \E c \in DOMAIN codePathStack : id \in KeptIn(c)
        /\ \A c \in DOMAIN codePathStack : codePathStack[c].segments = {} => id \notin KeptIn(c)
    BY DEF CollectInv, EvaluatedFound
  <2>2. IsCollected(id)' = IsCollected(id)
    BY <1>1 DEF IsCollected
  <2> QED BY <2>1, <2>2, <1>7, <1>8
<1> QED BY <1>9, <1>10, <1>11 DEF CollectInv

LEMMA CollectNextSegments ==
  ASSUME CollectInv, UNCHANGED <<nextSegments, prevSegments>>,
         NEW type \in SegmentType, NEW forks \in Seq(SUBSET Segments), NextSegments(type, forks),
         type = "statement" => assignmentStack = <<>>
  PROVE  CollectInv'
<1>1. /\ plan \in Seq(PlanEvent) /\ plan # <<>> /\ Head(plan).type \in SegmentType
      /\ plan' = Tail(plan) /\ UNCHANGED <<references, events, trace>>
      /\ codePathStack \in Seq(PathContext) /\ Len(codePathStack) \in Nat
  BY DEF NextSegments, CollectInv, VisitTypeOK, SegmentType
<1>2. Head(plan).type # "start" /\ Head(plan).type # "end"
  BY <1>1 DEF SegmentType
<1>3. /\ Tail(plan) \in Seq(PlanEvent) /\ Head(plan) \in PlanEvent /\ Len(codePathStack) > 0
      /\ \E open \in [0 .. Len(Tail(plan)) -> Nat] : Brackets(Tail(plan), open, Len(codePathStack))
  BY <1>1, <1>2, BracketsTail DEF CollectInv, VisitTypeOK
<1>4. codePathStack # <<>>
  BY <1>3
<1>5. /\ Context \in PathContext /\ Len(codePathStack) \in DOMAIN codePathStack
      /\ assignmentStack \in Seq(Assignment)
  BY <1>4, ContextFacts
<1>6. PICK n : n = Len(codePathStack)
  OBVIOUS
<1>7. PICK ctx : ctx = [Context EXCEPT !.segments = Head(plan).segments, !.forks = forks]
  OBVIOUS
<1>8. ctx \in PathContext /\ ctx.assignments = Context.assignments /\ ctx.segments = Head(plan).segments
  <2>1. Head(plan).segments \in SUBSET Segments
    BY <1>1, <1>3, EventFacts
  <2> QED BY <2>1, <1>1, <1>5, <1>7 DEF PathContext
<1>9. codePathStack' = [codePathStack EXCEPT ![n] = ctx]
  BY <1>6, <1>7 DEF NextSegments, SetContext
<1>10. /\ codePathStack' \in Seq(PathContext) /\ Len(codePathStack') = n
       /\ DOMAIN codePathStack' = DOMAIN codePathStack /\ codePathStack'[n] = ctx
       /\ \A c \in DOMAIN codePathStack \ {n} : codePathStack'[c] = codePathStack[c]
  <2>1. codePathStack \in [1 .. n -> PathContext] /\ n \in Nat /\ n \in DOMAIN codePathStack
    BY <1>1, <1>5, <1>6
  <2>2. codePathStack' \in [1 .. n -> PathContext]
    BY <2>1, <1>8, <1>9
  <2>3. codePathStack' \in Seq(PathContext) /\ Len(codePathStack') = n
    BY <2>1, <2>2
  <2> QED BY <2>1, <2>2, <2>3, <1>9
<1>11. \A c \in DOMAIN codePathStack :
         codePathStack'[c].assignments = codePathStack[c].assignments /\ KeptIn(c)' = KeptIn(c)
  <2>1. Context = codePathStack[n]
    BY <1>6 DEF Context
  <2> QED BY <2>1, <1>8, <1>10 DEF KeptIn
<1>12. VisitTypeOK'
  <2>1. (\E open \in [0 .. Len(plan) -> Nat] : Brackets(plan, open, Len(codePathStack)))'
    BY <1>1, <1>3, <1>6, <1>10, ZenonT(40) DEF Brackets
  <2>2. GraphOK' /\ ReferencesOK' /\ trace' \in [Segments -> Seq(Evaluated)] /\ events' \in Nat
    BY <1>1 DEF CollectInv, VisitTypeOK, GraphOK, ReferencesOK
  <2> QED BY <2>1, <2>2, <1>1, <1>3, <1>10 DEF VisitTypeOK
<1>13. Once'
  BY <1>1, <1>10, <1>11 DEF CollectInv, Once
<1>14. KeptIn(n) # {} => (ctx.segments = {} <=> codePathStack[n].segments = {})
  <2> SUFFICES ASSUME KeptIn(n) # {} PROVE ctx.segments = {} <=> codePathStack[n].segments = {}
    OBVIOUS
  <2>1. codePathStack[n] = Context /\ KeptIn(n) = Kept(assignmentStack)
    BY <1>6 DEF Context, KeptIn, assignmentStack
  <2>2. PICK i \in DOMAIN assignmentStack : KeptBy(assignmentStack[i]) # {}
    BY <2>1 DEF Kept
  <2>3. Head(plan).segments = {} <=> Context.segments = {}
    BY <2>2, EmptySeq DEF NextSegments
  <2> QED BY <2>1, <2>3, <1>8
<1>15. EvaluatedFound'
  <2> SUFFICES ASSUME NEW s \in Segments, NEW id \in Ids(trace[s])
               PROVE  /\ IsCollected(id)' \/ \E c \in DOMAIN codePathStack' : id \in KeptIn(c)'
                      /\ \A c \in DOMAIN codePathStack' :
                           codePathStack'[c].segments = {} => id \notin KeptIn(c)'
    BY <1>1 DEF EvaluatedFound
  <2>1. /\ IsCollected(id) \/ \E c \in DOMAIN codePathStack : id \in KeptIn(c)
        /\ \A c \in DOMAIN codePathStack : codePathStack[c].segments = {} => id \notin KeptIn(c)
    BY DEF CollectInv, EvaluatedFound
  <2>2. IsCollected(id)' = IsCollected(id)
    BY <1>1 DEF IsCollected
  <2>3. \A c \in DOMAIN codePathStack : codePathStack'[c].segments = {} => id \notin KeptIn(c)
    BY <2>1, <1>10, <1>14
  <2> QED BY <2>1, <2>2, <2>3, <1>10, <1>11
<1> QED BY <1>12, <1>13, <1>15 DEF CollectInv

(* The actions for new segments are cases of NextSegments.                 *)
ForksThen(type) ==
  CASE type = "fork"  -> Append(Context.forks, {})
    [] type = "other" -> Append(Front(Context.forks), Top(Context.forks) \cup Context.segments)
    [] type = "join"  -> Front(Context.forks)
    [] type = "on"    -> Context.forks
    [] OTHER          -> <<>>

LEMMA SegmentsTaken ==
  ASSUME CollectInv, Fork \/ OtherBranch \/ JoinBranches \/ GoesOn \/ NextStatement
  PROVE  \E type \in SegmentType :
           /\ NextSegments(type, ForksThen(type)) /\ ForksThen(type) \in Seq(SUBSET Segments)
           /\ codePathStack # <<>>
           /\ type = "statement" => assignmentStack = <<>> /\ Context.forks = <<>>
           /\ type \in {"other", "join"} => LeavesBranch
           /\ type \in {"fork", "join", "on"} => InExpression
           /\ type = "join" => LeadTo(Top(Context.forks), Head(plan).segments)
<1> DEFINE Event(type) ==
             /\ NextSegments(type, ForksThen(type))
             /\ type = "statement" => assignmentStack = <<>> /\ Context.forks = <<>>
             /\ type \in {"other", "join"} => LeavesBranch
             /\ type \in {"fork", "join", "on"} => InExpression
             /\ type = "join" => LeadTo(Top(Context.forks), Head(plan).segments)
<1>1. PICK type \in SegmentType : Event(type)
  <2>1. Fork => Event("fork")
    BY DEF Fork, ForksThen
  <2>2. OtherBranch => Event("other")
    BY DEF OtherBranch, ForksThen
  <2>3. JoinBranches => Event("join")
    <3>1. ForksThen("join") = Front(Context.forks)
      BY DEF ForksThen
    <3> QED BY <3>1, Zenon DEF JoinBranches
  <2>4. GoesOn => Event("on")
    BY DEF GoesOn, ForksThen
  <2>5. NextStatement => Event("statement")
    BY DEF NextStatement, ForksThen
  <2> QED BY <2>1, <2>2, <2>3, <2>4, <2>5 DEF SegmentType
<1>2. /\ plan \in Seq(PlanEvent) /\ plan # <<>> /\ Head(plan).type = type
      /\ codePathStack \in Seq(PathContext)
  BY <1>1 DEF NextSegments, CollectInv, VisitTypeOK
<1>3. codePathStack # <<>>
  <2>1. Head(plan).type # "start" /\ Len(codePathStack) \in Nat
    BY <1>2 DEF SegmentType
  <2>2. Len(codePathStack) > 0
    BY <1>2, <2>1, BracketsTail DEF CollectInv, VisitTypeOK
  <2> QED BY <2>2
<1>4. Context \in PathContext
  BY <1>3, ContextFacts
<1>5. ForksThen(type) \in Seq(SUBSET Segments)
  <2>1. Context.forks \in Seq(SUBSET Segments) /\ Context.segments \in SUBSET Segments
    BY <1>4 DEF PathContext
  <2>2. CASE type = "fork"
    BY <2>1, <2>2 DEF ForksThen
  <2>3. CASE type \in {"other", "join"}
    <3>1. Context.forks # <<>>
      BY <1>1, <2>3 DEF LeavesBranch
    <3>2. Front(Context.forks) \in Seq(SUBSET Segments) /\ Top(Context.forks) \in SUBSET Segments
      BY <2>1, <3>1 DEF Front, Top
    <3> QED BY <2>1, <2>3, <3>2 DEF ForksThen
  <2>4. CASE type \in {"on", "statement"}
    BY <2>1, <2>4, EmptySeq DEF ForksThen
  <2> QED BY <2>2, <2>3, <2>4 DEF SegmentType
<1> QED BY <1>1, <1>3, <1>5

LEMMA CollectEnd ==
  ASSUME CollectInv, UNCHANGED <<nextSegments, prevSegments>>, EndCodePath
  PROVE  CollectInv'
<1>1. /\ plan \in Seq(PlanEvent) /\ plan # <<>> /\ Head(plan).type = "end"
      /\ plan' = Tail(plan) /\ UNCHANGED <<references, events, trace>>
      /\ codePathStack \in Seq(PathContext) /\ Len(codePathStack) \in Nat
      /\ assignmentStack = <<>> /\ codePathStack' = Front(codePathStack)
  BY DEF EndCodePath, CollectInv, VisitTypeOK
<1>2. /\ Tail(plan) \in Seq(PlanEvent) /\ Len(codePathStack) > 0
      /\ \E open \in [0 .. Len(Tail(plan)) -> Nat] :
           Brackets(Tail(plan), open, Len(codePathStack) - 1)
  BY <1>1, BracketsTail DEF CollectInv, VisitTypeOK
<1>3. codePathStack # <<>>
  BY <1>2
<1>4. PICK n \in Nat \ {0} : n = Len(codePathStack) /\ DOMAIN codePathStack = 1 .. n
  BY <1>1, <1>2
<1>5. KeptIn(n) = {}
  BY <1>1, <1>4 DEF KeptIn, Kept, assignmentStack, Context
<1>6. /\ codePathStack' \in Seq(PathContext) /\ Len(codePathStack') = n - 1
      /\ DOMAIN codePathStack' = 1 .. n - 1
      /\ \A c \in 1 .. n - 1 : codePathStack'[c] = codePathStack[c]
  BY <1>1, <1>4 DEF Front
<1>7. /\ DOMAIN codePathStack = DOMAIN codePathStack' \cup {n}
      /\ \A c \in DOMAIN codePathStack' : codePathStack'[c] = codePathStack[c]
  BY <1>4, <1>6
<1>8. \A c \in DOMAIN codePathStack' : KeptIn(c)' = KeptIn(c)
  BY <1>7 DEF KeptIn
<1>9. VisitTypeOK'
  <2>1. (\E open \in [0 .. Len(plan) -> Nat] : Brackets(plan, open, Len(codePathStack)))'
    BY <1>1, <1>2, <1>4, <1>6 DEF Brackets
  <2>2. GraphOK' /\ ReferencesOK' /\ trace' \in [Segments -> Seq(Evaluated)] /\ events' \in Nat
    BY <1>1 DEF CollectInv, VisitTypeOK, GraphOK, ReferencesOK
  <2> QED BY <2>1, <2>2, <1>1, <1>2, <1>6 DEF VisitTypeOK
<1>10. Once'
  BY <1>1, <1>7, <1>8 DEF CollectInv, Once
<1>11. EvaluatedFound'
  <2> SUFFICES ASSUME NEW s \in Segments, NEW id \in Ids(trace[s])
               PROVE  /\ IsCollected(id)' \/ \E c \in DOMAIN codePathStack' : id \in KeptIn(c)'
                      /\ \A c \in DOMAIN codePathStack' :
                           codePathStack'[c].segments = {} => id \notin KeptIn(c)'
    BY <1>1 DEF EvaluatedFound
  <2>1. /\ IsCollected(id) \/ \E c \in DOMAIN codePathStack : id \in KeptIn(c)
        /\ \A c \in DOMAIN codePathStack : codePathStack[c].segments = {} => id \notin KeptIn(c)
    BY DEF CollectInv, EvaluatedFound
  <2>2. IsCollected(id)' = IsCollected(id)
    BY <1>1 DEF IsCollected
  <2> QED BY <2>1, <2>2, <1>5, <1>7, <1>8
<1> QED BY <1>9, <1>10, <1>11 DEF CollectInv

-----------------------------------------------------------------------------
LEMMA CollectInit == DSInit => CollectInv
<1> SUFFICES ASSUME DSInit PROVE CollectInv
  OBVIOUS
<1>1. /\ GraphOK /\ plan \in Seq(PlanEvent) /\ events = 0 /\ codePathStack = <<>>
      /\ references = [s \in Segments |-> <<>>] /\ trace = [s \in Segments |-> <<>>]
  BY DEF DSInit, VisitInit, PlanOK
<1>2. /\ codePathStack \in Seq(PathContext) /\ Len(codePathStack) = 0 /\ DOMAIN codePathStack = {}
      /\ <<>> \in Seq(Ref) /\ <<>> \in Seq(Evaluated)
  BY <1>1, EmptySeq
<1>3. \E open \in [0 .. Len(plan) -> Nat] : Brackets(plan, open, Len(codePathStack))
  <2>1. PICK open \in [0 .. Len(plan) -> 0 .. Len(plan)] : Brackets(plan, open, 0)
    BY DEF DSInit, PlanOK
  <2>2. 0 .. Len(plan) \subseteq Nat
    BY <1>1
  <2>3. open \in [0 .. Len(plan) -> Nat]
    BY <2>1, <2>2
  <2> QED BY <2>1, <2>3, <1>2
<1>4. VisitTypeOK
  BY <1>1, <1>2, <1>3 DEF VisitTypeOK, ReferencesOK
<1>5. \A s \in Segments : /\ NoDup(references[s]) /\ Ids(references[s]) = {} /\ Ids(trace[s]) = {}
  BY <1>1, IdsOne
<1> QED BY <1>2, <1>4, <1>5 DEF CollectInv, Once, EvaluatedFound

LEMMA CollectSame ==
  ASSUME CollectInv,
         UNCHANGED <<nextSegments, prevSegments, references, plan, codePathStack, events, trace>>
  PROVE  CollectInv'
<1>1. VisitTypeOK'
  BY DEF CollectInv, VisitTypeOK, GraphOK, ReferencesOK, Brackets
<1>2. Once'
  BY DEF CollectInv, Once, KeptIn
<1>3. EvaluatedFound'
  BY DEF CollectInv, EvaluatedFound, KeptIn, IsCollected
<1> QED BY <1>1, <1>2, <1>3 DEF CollectInv

LEMMA CollectHolds == DSSpec => []CollectInv
<1>1. CollectInv /\ [DSNext]_dsVars => CollectInv'
  <2> SUFFICES ASSUME CollectInv, [DSNext]_dsVars PROVE CollectInv'
    OBVIOUS
  <2>1. CASE UNCHANGED <<nextSegments, prevSegments, references, plan, codePathStack, events, trace>>
    BY <2>1, CollectSame
  <2>2. CASE DSNext /\ Visit
    <3>1. UNCHANGED <<nextSegments, prevSegments>>
      BY <2>2 DEF DSNext
    <3>2. CASE StartCodePath \/ EndCodePath \/ ExitAssignment
      BY <3>1, <3>2, CollectStart, CollectEnd, CollectExit
    <3>5. CASE Fork \/ OtherBranch \/ JoinBranches \/ GoesOn \/ NextStatement
      BY <3>1, <3>5, SegmentsTaken, CollectNextSegments
    <3>3. CASE \E v \in Variables, update \in BOOLEAN : Identifier(v, update)
      BY <3>1, <3>3, CollectIdentifier
    <3>4. CASE \E v \in Variables, compound, exempt \in BOOLEAN : EnterAssignment(v, compound, exempt)
      BY <3>1, <3>4, CollectEnter
    <3> QED BY <2>2, <3>2, <3>3, <3>4, <3>5, Zenon DEF Visit
  <2> QED BY <2>1, <2>2 DEF DSNext, dsVars, visitVars
<1> QED BY <1>1, CollectInit, PTL DEF DSSpec

(* When a file was visited, every read and every store that is evaluated   *)
(* in it has its reference in a segment, and no segment has one twice,     *)
(* however assignments, branches and functions are nested in the file.     *)
THEOREM ReferencesAreCollected == DSSpec => []StoresCollected
<1>1. CollectInv => StoresCollected
  <2> SUFFICES ASSUME CollectInv, Visited, NEW s \in Segments
               PROVE  /\ \A e \in Elements(trace[s]) :
                           \E t \in Segments : \E r \in Elements(references[t]) : r.id = e.id
                      /\ \A j, k \in DOMAIN references[s] :
                           references[s][j].id = references[s][k].id => j = k
    BY DEF StoresCollected
  <2>1. DOMAIN codePathStack = {}
    <3>1. plan = <<>> /\ Len(plan) = 0 /\ codePathStack \in Seq(PathContext)
      BY DEF Visited, CollectInv, VisitTypeOK
    <3>2. PICK open : Brackets(plan, open, Len(codePathStack))
      BY DEF CollectInv, VisitTypeOK
    <3>3. Len(codePathStack) = 0
      BY <3>1, <3>2 DEF Brackets
    <3> QED BY <3>1, <3>3
  <2>2. ASSUME NEW e \in Elements(trace[s])
        PROVE  \E t \in Segments : \E r \in Elements(references[t]) : r.id = e.id
    <3>1. e.id \in Ids(trace[s])
      BY DEF Elements, Ids
    <3>2. PICK t \in Segments : e.id \in Ids(references[t])
      BY <3>1, <2>1 DEF CollectInv, EvaluatedFound, IsCollected
    <3> QED BY <3>2 DEF Ids, Elements
  <2>3. NoDup(references[s])
    BY DEF CollectInv, Once
  <2> QED BY <2>2, <2>3 DEF NoDup
<1> QED BY <1>1, CollectHolds, PTL

-----------------------------------------------------------------------------
(* NoFalseAlarm.                                                           *)

(* In one segment, what is evaluated and the collected references agree on *)
(* the order of stores to v and of reads around them.  A read may have its *)
(* reference elsewhere: the current segment changed before ESLint left the *)
(* assignment; then no store to v follows it in the segment.               *)
Order(T, R, v) ==
  /\ \A k \in DOMAIN T : T[k].var = v /\ T[k].store => T[k].id \in Ids(R)
  /\ \A m \in DOMAIN R : R[m].var = v /\ R[m].write =>
       \E k \in DOMAIN T : T[k].store /\ T[k].id = R[m].id
  /\ \A j, k \in DOMAIN T, m, n \in DOMAIN R :
       /\ j < k /\ T[j].var = v /\ T[k].var = v
       /\ T[j].id = R[m].id /\ T[k].id = R[n].id
       => (T[j].store => m < n) /\ (T[k].store => m <= n)
  /\ \A j, k \in DOMAIN T :
       j < k /\ T[j].var = v /\ T[k].var = v /\ T[k].store => T[j].id \in Ids(R)

LEMMA ConcatIndex ==
  ASSUME NEW S, NEW s \in Seq(S), NEW t \in Seq(S), NEW c, c = s \o t
  PROVE  /\ Len(s) \in Nat /\ Len(t) \in Nat /\ Len(c) = Len(s) + Len(t)
         /\ DOMAIN s = 1 .. Len(s) /\ DOMAIN t = 1 .. Len(t) /\ DOMAIN c = 1 .. Len(c)
         /\ \A i \in DOMAIN s : i \in DOMAIN c /\ c[i] = s[i]
         /\ \A i \in DOMAIN t : Len(s) + i \in DOMAIN c /\ c[Len(s) + i] = t[i]
         /\ \A i \in DOMAIN c : \/ i \in DOMAIN s /\ c[i] = s[i]
                                \/ i - Len(s) \in DOMAIN t /\ c[i] = t[i - Len(s)] /\ i > Len(s)
<1>1. /\ Len(s) \in Nat /\ Len(t) \in Nat
      /\ DOMAIN s = 1 .. Len(s) /\ DOMAIN t = 1 .. Len(t)
      /\ DOMAIN c = 1 .. Len(s) + Len(t) /\ Len(c) = Len(s) + Len(t)
  OBVIOUS
<1>2. \A i \in 1 .. Len(s) : c[i] = s[i]
  BY <1>1
<1>3. \A i \in 1 .. Len(t) : c[Len(s) + i] = t[i]
  BY <1>1
<1>4. \A i \in DOMAIN c : \/ i \in DOMAIN s
                          \/ i - Len(s) \in DOMAIN t /\ i = Len(s) + (i - Len(s)) /\ i > Len(s)
  BY <1>1
<1>5. \A i \in DOMAIN s : i \in DOMAIN c /\ c[i] = s[i]
  BY <1>1, <1>2
<1>6. \A i \in DOMAIN t : Len(s) + i \in DOMAIN c /\ c[Len(s) + i] = t[i]
  BY <1>1, <1>3
<1>7. ASSUME NEW i \in DOMAIN c
      PROVE  \/ i \in DOMAIN s /\ c[i] = s[i]
             \/ i - Len(s) \in DOMAIN t /\ c[i] = t[i - Len(s)] /\ i > Len(s)
  BY <1>4, <1>5, <1>6
<1> QED BY <1>1, <1>5, <1>6, <1>7

(* References are collected and more is evaluated.                         *)
LEMMA OrderAppend ==
  ASSUME NEW E, NEW T \in Seq(E), NEW es \in Seq(E), NEW S, NEW R \in Seq(S),
         NEW refs \in Seq(S), NEW v, Order(T, R, v), NoDup(R \o refs),
         \A k \in DOMAIN es : es[k].var = v /\ es[k].store =>
           /\ refs # <<>> /\ es[k].id = refs[Len(refs)].id
           /\ \A j \in DOMAIN T : T[j].var = v => T[j].id \in Ids(R \o refs)
           /\ \A j \in DOMAIN es : es[j].var = v => es[j].id \in Ids(R \o refs),
         \A m \in DOMAIN refs : refs[m].var = v /\ refs[m].write =>
           \E k \in DOMAIN es : es[k].store /\ es[k].id = refs[m].id,
         \A k \in DOMAIN es : es[k].store => k = Len(es),
         \A k \in DOMAIN es : es[k].var = v /\ ~ es[k].store => es[k].id \notin Ids(R)
  PROVE  Order(T \o es, R \o refs, v)
<1>1. PICK U, Q : U = T \o es /\ Q = R \o refs
  OBVIOUS
<1>2. /\ Len(T) \in Nat /\ Len(es) \in Nat /\ Len(U) = Len(T) + Len(es)
      /\ DOMAIN T = 1 .. Len(T) /\ DOMAIN es = 1 .. Len(es) /\ DOMAIN U = 1 .. Len(U)
      /\ \A i \in DOMAIN T : i \in DOMAIN U /\ U[i] = T[i]
      /\ \A i \in DOMAIN es : Len(T) + i \in DOMAIN U /\ U[Len(T) + i] = es[i]
      /\ \A i \in DOMAIN U : \/ i \in DOMAIN T /\ U[i] = T[i]
                             \/ i - Len(T) \in DOMAIN es /\ U[i] = es[i - Len(T)] /\ i > Len(T)
  BY <1>1, ConcatIndex
<1>3. /\ Len(R) \in Nat /\ Len(refs) \in Nat /\ Len(Q) = Len(R) + Len(refs)
      /\ DOMAIN R = 1 .. Len(R) /\ DOMAIN refs = 1 .. Len(refs) /\ DOMAIN Q = 1 .. Len(Q)
      /\ \A i \in DOMAIN R : i \in DOMAIN Q /\ Q[i] = R[i]
      /\ \A i \in DOMAIN refs : Len(R) + i \in DOMAIN Q /\ Q[Len(R) + i] = refs[i]
      /\ \A i \in DOMAIN Q : \/ i \in DOMAIN R /\ Q[i] = R[i]
                             \/ i - Len(R) \in DOMAIN refs /\ Q[i] = refs[i - Len(R)] /\ i > Len(R)
  BY <1>1, ConcatIndex
<1>4. Ids(R) \subseteq Ids(Q) /\ \A m \in DOMAIN Q : Q[m].id \in Ids(R) => m \in DOMAIN R
  <2>1. Ids(R) \subseteq Ids(Q)
    BY <1>3 DEF Ids
  <2>2. ASSUME NEW m \in DOMAIN Q, Q[m].id \in Ids(R) PROVE m \in DOMAIN R
    <3>1. PICK i \in DOMAIN R : R[i].id = Q[m].id
      BY <2>2 DEF Ids
    <3>2. i = m
      BY <3>1, <1>1, <1>3 DEF NoDup
    <3> QED BY <3>1, <3>2
  <2> QED BY <2>1, <2>2
<1>5. ASSUME NEW k \in DOMAIN es, es[k].var = v, es[k].store
      PROVE  /\ es[k].id \in Ids(Q)
             /\ \A m \in DOMAIN Q : Q[m].id = es[k].id => m = Len(Q) /\ m > Len(R)
             /\ \A j \in DOMAIN U : U[j].var = v => U[j].id \in Ids(Q)
  <2>1. refs # <<>> /\ es[k].id = refs[Len(refs)].id
    BY <1>5
  <2>2. Len(refs) \in DOMAIN refs /\ Len(refs) > 0
    BY <2>1, <1>3
  <2>3. Len(Q) \in DOMAIN Q /\ Q[Len(Q)].id = es[k].id /\ Len(Q) > Len(R)
    BY <2>1, <2>2, <1>3
  <2>4. \A m \in DOMAIN Q : Q[m].id = es[k].id => m = Len(Q)
    BY <2>3, <1>1 DEF NoDup
  <2>5. \A j \in DOMAIN U : U[j].var = v => U[j].id \in Ids(Q)
    BY <1>1, <1>2, <1>5
  <2> QED BY <2>3, <2>4, <2>5 DEF Ids
<1>6. ASSUME NEW k \in DOMAIN U, U[k].var = v, U[k].store PROVE U[k].id \in Ids(Q)
  <2>1. CASE k \in DOMAIN T
    BY <2>1, <1>2, <1>4, <1>6 DEF Order
  <2>2. CASE k \notin DOMAIN T
    BY <2>2, <1>2, <1>5, <1>6
  <2> QED BY <2>1, <2>2
<1>7. ASSUME NEW m \in DOMAIN Q, Q[m].var = v, Q[m].write
      PROVE  \E k \in DOMAIN U : U[k].store /\ U[k].id = Q[m].id
  <2>1. CASE m \in DOMAIN R
    <3>1. PICK k \in DOMAIN T : T[k].store /\ T[k].id = Q[m].id
      BY <2>1, <1>3, <1>7 DEF Order
    <3> QED BY <3>1, <1>2
  <2>2. CASE m \notin DOMAIN R
    <3>1. m - Len(R) \in DOMAIN refs /\ Q[m] = refs[m - Len(R)]
      BY <2>2, <1>3
    <3>2. PICK k \in DOMAIN es : es[k].store /\ es[k].id = Q[m].id
      BY <3>1, <1>7
    <3> QED BY <3>2, <1>2
  <2> QED BY <2>1, <2>2
<1>8. ASSUME NEW j \in DOMAIN U, NEW k \in DOMAIN U, NEW m \in DOMAIN Q, NEW n \in DOMAIN Q,
             j < k, U[j].var = v, U[k].var = v, U[j].id = Q[m].id, U[k].id = Q[n].id
      PROVE  (U[j].store => m < n) /\ (U[k].store => m <= n)
  <2>1. CASE k \in DOMAIN T
    <3>1. j \in DOMAIN T /\ U[j] = T[j] /\ U[k] = T[k]
      BY <2>1, <1>2, <1>8
    <3>2. U[j].store => m \in DOMAIN R
      BY <3>1, <1>4, <1>8 DEF Order
    <3>3. U[k].store => m \in DOMAIN R /\ n \in DOMAIN R
      BY <2>1, <3>1, <1>4, <1>8 DEF Order
    <3>4. CASE n \in DOMAIN R
      <4>1. CASE m \in DOMAIN R
        <5>1. T[j].id = R[m].id /\ T[k].id = R[n].id
          BY <3>1, <3>4, <4>1, <1>3, <1>8
        <5>2. (T[j].store => m < n) /\ (T[k].store => m <= n)
          BY <2>1, <3>1, <3>4, <4>1, <5>1, <1>8 DEF Order
        <5> QED BY <5>2, <3>1
      <4>2. CASE m \notin DOMAIN R
        BY <4>2, <3>2, <3>3
      <4> QED BY <4>1, <4>2
    <3>5. CASE n \notin DOMAIN R
      <4>1. n > Len(R)
        BY <3>5, <1>3
      <4> QED BY <3>2, <3>3, <3>5, <4>1, <1>3
    <3> QED BY <3>4, <3>5
  <2>2. CASE k \notin DOMAIN T
    <3>1. k - Len(T) \in DOMAIN es /\ U[k] = es[k - Len(T)]
      BY <2>2, <1>2
    <3>2. U[k].store => n = Len(Q) /\ n > Len(R)
      BY <3>1, <1>5, <1>8
    <3>3. U[k].store => m <= n
      BY <3>2, <1>3
    <3>4. ASSUME U[j].store PROVE m < n
      <4>1. CASE j \in DOMAIN T
        <5>1. m \in DOMAIN R
          BY <3>4, <4>1, <1>2, <1>4, <1>8 DEF Order
        <5>2. n \notin DOMAIN R
          <6>1. CASE U[k].store
            BY <3>2, <6>1, <1>3
          <6>2. CASE ~ U[k].store
            <7>1. es[k - Len(T)].id \notin Ids(R)
              BY <3>1, <6>2, <1>8
            <7> QED BY <7>1, <3>1, <1>3, <1>8 DEF Ids
          <6> QED BY <6>1, <6>2
        <5> QED BY <5>1, <5>2, <1>3
      <4>2. CASE j \notin DOMAIN T
        <5>1. j - Len(T) \in DOMAIN es /\ U[j] = es[j - Len(T)]
          BY <4>2, <1>2
        <5>2. j - Len(T) = Len(es)
          BY <5>1, <3>4
        <5> QED BY <5>2, <3>1, <1>2, <1>8
      <4> QED BY <4>1, <4>2
    <3> QED BY <3>3, <3>4
  <2> QED BY <2>1, <2>2
<1>9. ASSUME NEW j \in DOMAIN U, NEW k \in DOMAIN U, j < k, U[j].var = v, U[k].var = v, U[k].store
      PROVE  U[j].id \in Ids(Q)
  <2>1. CASE k \in DOMAIN T
    <3>1. j \in DOMAIN T /\ U[j] = T[j] /\ U[k] = T[k]
      BY <2>1, <1>2, <1>9
    <3> QED BY <2>1, <3>1, <1>4, <1>9 DEF Order
  <2>2. CASE k \notin DOMAIN T
    BY <2>2, <1>2, <1>5, <1>9
  <2> QED BY <2>1, <2>2
<1>10. Order(U, Q, v)
  BY <1>6, <1>7, <1>8, <1>9, Zenon DEF Order
<1> QED BY <1>1, <1>10

-----------------------------------------------------------------------------
(* The references an assignment stack keeps, and all references there are. *)
KeptRefs(A) == UNION {Elements(A[i].rhs) \cup Elements(A[i].lhs) : i \in DOMAIN A}

IsRef(r) ==
  \/ \E s \in Segments : r \in Elements(references[s])
  \/ \E c \in DOMAIN codePathStack : r \in KeptRefs(codePathStack[c].assignments)

Main(s) == codePathOf[s] = codePathOf[1]

(* The variables that the rule is right about: used in one code path only, *)
(* and not stored to inside another assignment.                            *)
Good(v) == v \notin nested /\ variableUsages[v] = {codePathOf[1]}

Agrees(e, r) == e.var = r.var /\ (e.store => r.write) /\ (~ e.store => r.read)

RefsAgree ==
  /\ \A r, q : IsRef(r) /\ IsRef(q) /\ r.id = q.id => r = q
  /\ \A r : IsRef(r) => r.id \in 1 .. events
  /\ \A s \in Segments : \A k \in DOMAIN trace[s] :
       /\ trace[s][k].id \in 1 .. events
       /\ \A r : IsRef(r) /\ r.id = trace[s][k].id => Agrees(trace[s][k], r)
       /\ ~ trace[s][k].store => trace[s][k].var \in readVariables

(* Only the assignment itself stores to a variable that is not nested.     *)
StackOK(A, V) ==
  \A i \in DOMAIN A :
    /\ A[i].lhs = <<A[i].lhs[1]>> /\ A[i].lhs[1].write
    /\ i > 1 => A[i].lhs[1].var \in V
    /\ \A r \in Elements(A[i].rhs) : r.write => r.var \in V

NestedOK == \A c \in DOMAIN codePathStack : StackOK(codePathStack[c].assignments, nested)

UsagesOK ==
  /\ variableUsages \in [Variables -> SUBSET CodePathIds]
  /\ \A v \in Variables : IsFiniteSet(variableUsages[v]) /\ codePathOf[1] \in variableUsages[v]

(* Segments still to come are empty and those of an open code path are its *)
(* own; the program is the outermost code path.                            *)
InFuture(s) == \E i \in DOMAIN plan : s \in plan[i].segments

PathsOK ==
  /\ codePathOf \in [Segments -> CodePathIds]
  /\ \A i, j \in DOMAIN plan : i # j => plan[i].segments \cap plan[j].segments = {}
  /\ \A i \in DOMAIN plan : plan[i].type = "start" =>
       /\ \A s \in plan[i].segments : codePathOf[s] = plan[i].id
       /\ plan[i].id = codePathOf[1] => i = 1 /\ codePathStack = <<>>
  /\ \A c \in DOMAIN codePathStack :
       /\ codePathStack[c].id = codePathOf[1] => c = 1
       /\ \A s \in codePathStack[c].segments :
            codePathOf[s] = codePathStack[c].id /\ ~ InFuture(s)
  /\ \A s \in Segments : InFuture(s) => trace[s] = <<>> /\ references[s] = <<>>

(* Only the program uses a good variable.                                  *)
MainOnly ==
  \A v \in Variables : Good(v) =>
    /\ \A s \in Segments : ~ Main(s) =>
         /\ \A e \in Elements(trace[s]) : e.var # v
         /\ \A r \in Elements(references[s]) : r.var # v
    /\ \A c \in DOMAIN codePathStack : codePathStack[c].id # codePathOf[1] =>
         \A r \in KeptRefs(codePathStack[c].assignments) : r.var # v

Ordered ==
  \A v \in Variables : Good(v) =>
    \A s \in Segments : Order(trace[s], references[s], v)

(* A read whose reference its segment does not have is on the way to it.   *)
(* While an assignment keeps the reference, a way from the segment leads   *)
(* through segments without references to the current ones or to the end   *)
(* of a branch before them.                                                *)
IsOpen(t) == InFuture(t) \/ \E c \in DOMAIN codePathStack : t \in codePathStack[c].segments

Back(Y) ==
  \A u \in Segments : \A t \in Elements(nextSegments[u]) :
    t \in Y /\ Main(t) /\ ~ InFuture(t) /\ references[t] = <<>> => u \in Y

Ahead(ctx) ==
  ctx.segments
  \cup UNION {ctx.forks[d] : d \in ctx.assignments[1].opened + 1 .. Len(ctx.forks)}

Reaches(s, ctx) == \A Y \in SUBSET Segments : Ahead(ctx) \subseteq Y /\ Back(Y) => s \in Y

(* Afterwards the segment leads to one that reads v, again through         *)
(* segments without references: v is live at its end.                      *)
Closed(v, Y) ==
  \A u \in Segments : \A t \in Elements(nextSegments[u]) :
    v \in gen(t) \/ (t \in Y /\ ~ IsOpen(t) /\ references[t] = <<>>) => u \in Y

Later(v, s) == \A Y \in SUBSET Segments : Closed(v, Y) => s \in Y

OnTheWay(id, s) ==
  \E c \in DOMAIN codePathStack :
    /\ \E r \in KeptRefs(codePathStack[c].assignments) : r.id = id
    /\ Reaches(s, codePathStack[c])

Carried ==
  \A v \in Variables : Good(v) =>
    \A s \in Segments : \A e \in Elements(trace[s]) :
      e.var = v /\ e.id \notin Ids(references[s]) =>
        OnTheWay(e.id, s) \/ (Later(v, s) /\ ~ IsOpen(s))

VisitInv ==
  /\ RefsAgree /\ NestedOK /\ UsagesOK /\ PathsOK /\ MainOnly /\ Ordered /\ Carried

-----------------------------------------------------------------------------
(* The innermost code path goes on, as in Collects: what the fresh       *)
(* references, the ones that are collected and what is evaluated have to   *)
(* do with each other.                                                     *)
GoesWith(ctx, refs, es, fresh) ==
  /\ UNCHANGED <<nextSegments, prevSegments, codePathOf, plan>>
  /\ codePathStack' = [codePathStack EXCEPT ![Len(codePathStack)] = ctx]
  /\ ctx.id = Context.id /\ ctx.forks = Context.forks /\ ctx.segments = Context.segments
  /\ refs \in Seq(Ref) /\ es \in Seq(Evaluated) /\ Happens(es)
  /\ references' = [s \in Segments |->
       IF s \in Context.segments THEN references[s] \o refs ELSE references[s]]
  /\ KeptRefs(ctx.assignments) \cup Elements(refs) = KeptRefs(assignmentStack) \cup fresh
  /\ \A r, q \in fresh : r = q
  /\ \A r \in fresh : r.id = events + 1 /\ r.id \in 1 .. events' /\ Context.id \in variableUsages'[r.var]
  /\ refs # <<>> => /\ ctx.assignments = <<>>
                    /\ assignmentStack # <<>> => assignmentStack[1].opened = Len(Context.forks)
  /\ ctx.assignments # <<>> /\ assignmentStack # <<>> =>
       ctx.assignments[1].opened = assignmentStack[1].opened
  /\ \A k \in DOMAIN es :
       /\ \E r \in KeptRefs(assignmentStack) \cup fresh : es[k].id = r.id /\ Agrees(es[k], r)
       /\ ~ es[k].store => es[k].var \in readVariables' /\ es[k].id = events + 1
       /\ es[k].store => /\ k = Len(es)
                         /\ \/ es[k].var \in nested'
                            \/ refs # <<>> /\ refs[Len(refs)].id = es[k].id
  /\ \A m \in DOMAIN refs : refs[m].write =>
       \/ refs[m].var \in nested'
       \/ \E k \in DOMAIN es : es[k].store /\ es[k].id = refs[m].id
  /\ events' \in Nat /\ events' >= events
  /\ nested \subseteq nested' /\ readVariables \subseteq readVariables'
  /\ variableUsages' \in [Variables -> SUBSET CodePathIds]
  /\ \A v \in Variables : IsFiniteSet(variableUsages'[v])
                          /\ variableUsages[v] \subseteq variableUsages'[v]

(* The code path stack after such a step.                                  *)
LEMMA TopReplaced ==
  ASSUME CollectInv, codePathStack # <<>>, NEW ctx,
         codePathStack' = [codePathStack EXCEPT ![Len(codePathStack)] = ctx]
  PROVE  /\ Len(codePathStack) \in DOMAIN codePathStack /\ Context = codePathStack[Len(codePathStack)]
         /\ DOMAIN codePathStack = 1 .. Len(codePathStack)
         /\ DOMAIN codePathStack' = DOMAIN codePathStack /\ Len(codePathStack') = Len(codePathStack)
         /\ codePathStack'[Len(codePathStack)] = ctx
         /\ \A c \in DOMAIN codePathStack : c # Len(codePathStack) => codePathStack'[c] = codePathStack[c]
<1>1. codePathStack \in Seq(PathContext)
  BY DEF CollectInv, VisitTypeOK
<1>2. PICK n : n = Len(codePathStack)
  OBVIOUS
<1>3. n \in Nat \ {0} /\ DOMAIN codePathStack = 1 .. n /\ n \in DOMAIN codePathStack
  BY <1>1, <1>2, TakeLast
<1>4. /\ DOMAIN codePathStack' = DOMAIN codePathStack /\ codePathStack'[n] = ctx
      /\ \A c \in DOMAIN codePathStack : c # n => codePathStack'[c] = codePathStack[c]
  BY <1>1, <1>2, <1>3
<1>5. Len(codePathStack') = n
  BY <1>1, <1>2
<1> QED BY <1>2, <1>3, <1>4, <1>5 DEF Context

LEMMA SegmentsAfter ==
  ASSUME CollectInv, NEW ctx, NEW refs, NEW es, NEW fresh, GoesWith(ctx, refs, es, fresh),
         NEW s \in Segments
  PROVE  /\ references[s] \in Seq(Ref) /\ trace[s] \in Seq(Evaluated)
         /\ s \in Context.segments => /\ references'[s] = references[s] \o refs
                                      /\ trace'[s] = trace[s] \o es
         /\ s \notin Context.segments => references'[s] = references[s] /\ trace'[s] = trace[s]
         /\ Elements(references[s]) \subseteq Elements(references'[s])
         /\ Elements(trace[s]) \subseteq Elements(trace'[s])
         /\ Elements(references'[s]) \subseteq Elements(references[s]) \cup Elements(refs)
         /\ Elements(trace'[s]) \subseteq Elements(trace[s]) \cup Elements(es)
         /\ s \in Context.segments => /\ Elements(refs) \subseteq Elements(references'[s])
                                      /\ Elements(es) \subseteq Elements(trace'[s])
<1>1. references[s] \in Seq(Ref) /\ trace[s] \in Seq(Evaluated)
  BY DEF CollectInv, VisitTypeOK, ReferencesOK
<1>2. /\ s \in Context.segments => /\ references'[s] = references[s] \o refs
                                   /\ trace'[s] = trace[s] \o es
      /\ s \notin Context.segments => references'[s] = references[s] /\ trace'[s] = trace[s]
  BY DEF GoesWith, Happens
<1>3. refs \in Seq(Ref) /\ es \in Seq(Evaluated)
  BY DEF GoesWith
<1>4. Elements(references[s] \o refs) = Elements(references[s]) \cup Elements(refs)
  BY <1>1, <1>3, PushAll
<1>5. Elements(trace[s] \o es) = Elements(trace[s]) \cup Elements(es)
  BY <1>1, <1>3, PushAll
<1> QED BY <1>1, <1>2, <1>4, <1>5

LEMMA GoodBefore ==
  ASSUME UsagesOK, NEW ctx, NEW refs, NEW es, NEW fresh, GoesWith(ctx, refs, es, fresh),
         NEW v \in Variables, Good(v)'
  PROVE  Good(v)
<1>1. /\ v \notin nested' /\ nested \subseteq nested' /\ codePathOf' = codePathOf
      /\ variableUsages'[v] = {codePathOf[1]} /\ variableUsages[v] \subseteq variableUsages'[v]
      /\ codePathOf[1] \in variableUsages[v]
  BY DEF GoesWith, UsagesOK, Good
<1> QED BY <1>1 DEF Good

LEMMA RefsAfter ==
  ASSUME CollectInv, codePathStack # <<>>, NEW ctx, NEW refs, NEW es, NEW fresh,
         GoesWith(ctx, refs, es, fresh)
  PROVE  /\ \A r : IsRef(r)' => IsRef(r) \/ r \in fresh
         /\ \A r \in KeptRefs(assignmentStack) : IsRef(r)
<1>1. PICK n : n = Len(codePathStack)
  OBVIOUS
<1>2. /\ n \in DOMAIN codePathStack /\ Context = codePathStack[n]
      /\ DOMAIN codePathStack' = DOMAIN codePathStack /\ codePathStack'[n] = ctx
      /\ \A c \in DOMAIN codePathStack : c # n => codePathStack'[c] = codePathStack[c]
  BY <1>1, TopReplaced DEF GoesWith
<1>3. KeptRefs(ctx.assignments) \cup Elements(refs) = KeptRefs(assignmentStack) \cup fresh
  BY DEF GoesWith
<1>4. \A r \in KeptRefs(assignmentStack) : IsRef(r)
  BY <1>2 DEF IsRef, assignmentStack
<1>5. ASSUME NEW r, IsRef(r)' PROVE IsRef(r) \/ r \in fresh
  <2>1. CASE \E s \in Segments : r \in Elements(references'[s])
    <3>1. PICK s \in Segments : r \in Elements(references'[s])
      BY <2>1
    <3>2. r \in Elements(references[s]) \/ r \in Elements(refs)
      BY <3>1, SegmentsAfter
    <3> QED BY <3>2, <1>3, <1>4 DEF IsRef
  <2>2. CASE \E c \in DOMAIN codePathStack : r \in KeptRefs(codePathStack'[c].assignments)
    <3>1. PICK c \in DOMAIN codePathStack : r \in KeptRefs(codePathStack'[c].assignments)
      BY <2>2
    <3>2. CASE c = n
      BY <3>1, <3>2, <1>2, <1>3, <1>4
    <3>3. CASE c # n
      BY <3>1, <3>3, <1>2 DEF IsRef
    <3> QED BY <3>2, <3>3
  <2> QED BY <1>5, <1>2, <2>1, <2>2 DEF IsRef
<1> QED BY <1>4, <1>5

LEMMA AgreeStep ==
  ASSUME CollectInv, codePathStack # <<>>, RefsAgree, NEW ctx, NEW refs, NEW es, NEW fresh,
         GoesWith(ctx, refs, es, fresh)
  PROVE  RefsAgree'
<1>1. /\ \A r : IsRef(r)' => IsRef(r) \/ r \in fresh
      /\ \A r \in KeptRefs(assignmentStack) : IsRef(r)
  BY RefsAfter
<1>2. /\ \A r, q \in fresh : r = q
      /\ \A r \in fresh : r.id = events + 1 /\ r.id \in 1 .. events'
      /\ events' \in Nat /\ events' >= events /\ events \in Nat /\ readVariables \subseteq readVariables'
  BY DEF GoesWith, CollectInv, VisitTypeOK
<1>3. /\ \A r, q : IsRef(r) /\ IsRef(q) /\ r.id = q.id => r = q
      /\ \A r : IsRef(r) => r.id \in 1 .. events
  BY DEF RefsAgree
<1>4. \A r, q : IsRef(r)' /\ IsRef(q)' /\ r.id = q.id => r = q
  <2> SUFFICES ASSUME NEW r, NEW q, IsRef(r)', IsRef(q)', r.id = q.id PROVE r = q
    OBVIOUS
  <2>1. (IsRef(r) \/ r \in fresh) /\ (IsRef(q) \/ q \in fresh)
    BY <1>1
  <2> QED BY <2>1, <1>2, <1>3
<1>5. events' \in Nat /\ 1 .. events \subseteq 1 .. events'
  BY <1>2
<1>6. \A r : IsRef(r)' => r.id \in 1 .. events'
  BY <1>1, <1>2, <1>3, <1>5
<1>7. ASSUME NEW s \in Segments, NEW e \in Elements(trace'[s])
      PROVE  /\ e.id \in 1 .. events'
             /\ \A r : IsRef(r)' /\ r.id = e.id => Agrees(e, r)
             /\ ~ e.store => e.var \in readVariables'
  <2>1. CASE e \in Elements(trace[s])
    <3>1. /\ e.id \in 1 .. events /\ \A r : IsRef(r) /\ r.id = e.id => Agrees(e, r)
          /\ ~ e.store => e.var \in readVariables
      BY <2>1 DEF RefsAgree, Elements
    <3> QED BY <3>1, <1>1, <1>2, <1>5
  <2>2. CASE e \in Elements(es)
    <3>1. /\ \E r \in KeptRefs(assignmentStack) \cup fresh : e.id = r.id /\ Agrees(e, r)
          /\ ~ e.store => e.var \in readVariables'
      <4>1. PICK k \in DOMAIN es : e = es[k]
        BY <2>2 DEF Elements
      <4> QED BY <4>1 DEF GoesWith
    <3>2. PICK r \in KeptRefs(assignmentStack) \cup fresh : e.id = r.id /\ Agrees(e, r)
      BY <3>1
    <3>3. \A q : IsRef(q)' /\ q.id = e.id => q = r
      <4> SUFFICES ASSUME NEW q, IsRef(q)', q.id = e.id PROVE q = r
        OBVIOUS
      <4>1. (IsRef(q) \/ q \in fresh) /\ (IsRef(r) \/ r \in fresh) /\ q.id = r.id
        BY <1>1, <3>2
      <4> QED BY <4>1, <1>2, <1>3
    <3>4. e.id \in 1 .. events'
      BY <3>2, <1>1, <1>2, <1>3, <1>5
    <3> QED BY <3>1, <3>2, <3>3, <3>4
  <2> QED BY <2>1, <2>2, SegmentsAfter
<1>8. \A s \in Segments : \A k \in DOMAIN trace'[s] : trace'[s][k] \in Elements(trace'[s])
  BY DEF Elements
<1> QED BY <1>4, <1>6, <1>7, <1>8 DEF RefsAgree

LEMMA PathsStep ==
  ASSUME CollectInv, codePathStack # <<>>, PathsOK, UsagesOK, NEW ctx, NEW refs, NEW es, NEW fresh,
         GoesWith(ctx, refs, es, fresh)
  PROVE  PathsOK' /\ UsagesOK'
<1>1. PICK n : n = Len(codePathStack)
  OBVIOUS
<1>2. /\ n \in DOMAIN codePathStack /\ Context = codePathStack[n]
      /\ DOMAIN codePathStack' = DOMAIN codePathStack /\ codePathStack'[n] = ctx
      /\ \A c \in DOMAIN codePathStack : c # n => codePathStack'[c] = codePathStack[c]
  BY <1>1, TopReplaced DEF GoesWith
<1>3. UNCHANGED <<codePathOf, plan>> /\ ctx.id = Context.id /\ ctx.segments = Context.segments
  BY DEF GoesWith
<1>4. \A c \in DOMAIN codePathStack : /\ codePathStack'[c].id = codePathStack[c].id
                                      /\ codePathStack'[c].segments = codePathStack[c].segments
  BY <1>2, <1>3
<1>5. \A s \in Segments : InFuture(s)' <=> InFuture(s)
  BY <1>3 DEF InFuture
<1>6. \A s \in Segments : InFuture(s) => s \notin Context.segments
  BY <1>2 DEF PathsOK
<1>7. \A s \in Segments : InFuture(s) => trace'[s] = <<>> /\ references'[s] = <<>>
  BY <1>6, SegmentsAfter DEF PathsOK
<1>8. \A c \in DOMAIN codePathStack' :
        /\ codePathStack'[c].id = codePathOf'[1] => c = 1
        /\ \A s \in codePathStack'[c].segments :
             codePathOf'[s] = codePathStack'[c].id /\ ~ InFuture(s)'
  <2> TAKE c \in DOMAIN codePathStack'
  <2>1. /\ codePathStack[c].id = codePathOf[1] => c = 1
        /\ \A s \in codePathStack[c].segments : codePathOf[s] = codePathStack[c].id /\ ~ InFuture(s)
    BY <1>2 DEF PathsOK
  <2>2. \A s : InFuture(s)' <=> InFuture(s)
    BY <1>3 DEF InFuture
  <2> QED BY <2>1, <2>2, <1>2, <1>3, <1>4
<1>9. \A i \in DOMAIN plan' : plan'[i].type = "start" =>
        /\ \A s \in plan'[i].segments : codePathOf'[s] = plan'[i].id
        /\ plan'[i].id = codePathOf'[1] => i = 1 /\ codePathStack' = <<>>
  BY <1>3 DEF PathsOK
<1>10. PathsOK'
  BY <1>3, <1>5, <1>7, <1>8, <1>9 DEF PathsOK
<1>11. UsagesOK'
  BY <1>3 DEF UsagesOK, GoesWith
<1> QED BY <1>10, <1>11

LEMMA MainStep ==
  ASSUME CollectInv, codePathStack # <<>>, PathsOK, UsagesOK, MainOnly,
         NEW ctx, NEW refs, NEW es, NEW fresh, GoesWith(ctx, refs, es, fresh)
  PROVE  MainOnly'
<1>1. PICK n : n = Len(codePathStack)
  OBVIOUS
<1>2. /\ n \in DOMAIN codePathStack /\ Context = codePathStack[n]
      /\ DOMAIN codePathStack' = DOMAIN codePathStack /\ codePathStack'[n] = ctx
      /\ \A c \in DOMAIN codePathStack : c # n => codePathStack'[c] = codePathStack[c]
  BY <1>1, TopReplaced DEF GoesWith
<1>3. codePathOf' = codePathOf /\ ctx.id = Context.id /\ ctx.segments = Context.segments
      /\ KeptRefs(ctx.assignments) \cup Elements(refs) = KeptRefs(assignmentStack) \cup fresh
  BY DEF GoesWith
<1> SUFFICES ASSUME NEW v \in Variables, Good(v)'
             PROVE  /\ \A s \in Segments : ~ Main(s) =>
                         /\ \A e \in Elements(trace'[s]) : e.var # v
                         /\ \A r \in Elements(references'[s]) : r.var # v
                    /\ \A c \in DOMAIN codePathStack : codePathStack'[c].id # codePathOf[1] =>
                         \A r \in KeptRefs(codePathStack'[c].assignments) : r.var # v
  BY <1>2, <1>3 DEF MainOnly, Main
<1>4. Good(v)
  BY GoodBefore
<1>5. ASSUME Context.id # codePathOf[1]
      PROVE  \A r \in KeptRefs(assignmentStack) \cup fresh : r.var # v
  <2>1. \A r \in KeptRefs(assignmentStack) : r.var # v
    BY <1>2, <1>4, <1>5 DEF MainOnly, assignmentStack
  <2>2. ASSUME NEW r \in fresh PROVE r.var # v
    <3>1. Context.id \in variableUsages'[r.var]
      BY DEF GoesWith
    <3>2. variableUsages'[v] = {codePathOf[1]}
      BY <1>3 DEF Good
    <3> QED BY <3>1, <3>2, <1>5
  <2> QED BY <2>1, <2>2
<1>6. ASSUME NEW s \in Segments, ~ Main(s)
      PROVE  /\ \A e \in Elements(trace'[s]) : e.var # v
             /\ \A r \in Elements(references'[s]) : r.var # v
  <2>1. /\ \A e \in Elements(trace[s]) : e.var # v
        /\ \A r \in Elements(references[s]) : r.var # v
    BY <1>4, <1>6 DEF MainOnly
  <2>2. CASE s \in Context.segments
    <3>1. Context.id # codePathOf[1]
      BY <2>2, <1>2, <1>6 DEF PathsOK, Main
    <3>2. \A e \in Elements(es) : e.var # v
      <4> SUFFICES ASSUME NEW k \in DOMAIN es PROVE es[k].var # v
        BY DEF Elements
      <4>1. PICK r \in KeptRefs(assignmentStack) \cup fresh : Agrees(es[k], r)
        BY DEF GoesWith
      <4> QED BY <4>1, <3>1, <1>5 DEF Agrees
    <3>3. \A r \in Elements(refs) : r.var # v
      BY <3>1, <1>3, <1>5
    <3> QED BY <2>1, <3>2, <3>3, SegmentsAfter
  <2>3. CASE s \notin Context.segments
    BY <2>1, <2>3, SegmentsAfter
  <2> QED BY <2>2, <2>3
<1>7. ASSUME NEW c \in DOMAIN codePathStack, codePathStack'[c].id # codePathOf[1]
      PROVE  \A r \in KeptRefs(codePathStack'[c].assignments) : r.var # v
  <2>1. CASE c = n
    BY <2>1, <1>2, <1>3, <1>5, <1>7
  <2>2. CASE c # n
    BY <2>2, <1>2, <1>4, <1>7 DEF MainOnly
  <2> QED BY <2>1, <2>2
<1> QED BY <1>6, <1>7

(* A read of a good variable that is on the way is kept in the program.    *)
LEMMA WayInProgram ==
  ASSUME RefsAgree, PathsOK, MainOnly, NEW v \in Variables, Good(v), NEW s \in Segments,
         NEW e \in Elements(trace[s]), e.var = v, OnTheWay(e.id, s)
  PROVE  /\ Main(s) /\ 1 \in DOMAIN codePathStack /\ codePathStack[1].id = codePathOf[1]
         /\ Reaches(s, codePathStack[1])
         /\ \E r \in KeptRefs(codePathStack[1].assignments) : r.id = e.id /\ Agrees(e, r)
<1>1. Main(s)
  BY DEF MainOnly
<1>2. PICK c \in DOMAIN codePathStack :
        /\ \E r \in KeptRefs(codePathStack[c].assignments) : r.id = e.id
        /\ Reaches(s, codePathStack[c])
  BY DEF OnTheWay
<1>3. PICK r \in KeptRefs(codePathStack[c].assignments) : r.id = e.id
  BY <1>2
<1>4. IsRef(r)
  BY <1>3 DEF IsRef
<1>5. Agrees(e, r)
  BY <1>3, <1>4 DEF RefsAgree, Elements
<1>6. codePathStack[c].id = codePathOf[1]
  BY <1>3, <1>5 DEF MainOnly, Agrees
<1>7. c = 1
  BY <1>6 DEF PathsOK
<1> QED BY <1>1, <1>2, <1>3, <1>5, <1>6, <1>7

LEMMA NothingKept == KeptRefs(<<>>) = {} /\ Elements(<<>>) = {}
BY DEF KeptRefs, Elements

(* In an open segment of the program nothing is on the way elsewhere.      *)
LEMMA WayHere ==
  ASSUME CollectInv, codePathStack # <<>>, RefsAgree, PathsOK, MainOnly, Carried,
         NEW v \in Variables, Good(v), NEW s \in Segments, s \in Context.segments,
         NEW e \in Elements(trace[s]), e.var = v, e.id \notin Ids(references[s])
  PROVE  \E r \in KeptRefs(assignmentStack) : r.id = e.id
<1>1. PICK n : n = Len(codePathStack)
  OBVIOUS
<1>2. n \in DOMAIN codePathStack /\ Context = codePathStack[n]
  BY <1>1, TakeLast DEF CollectInv, VisitTypeOK, Context
<1>3. IsOpen(s)
  BY <1>2 DEF IsOpen
<1>4. OnTheWay(e.id, s)
  BY <1>3 DEF Carried
<1>5. Main(s) /\ \E r \in KeptRefs(codePathStack[1].assignments) : r.id = e.id
  BY <1>4, WayInProgram
<1>6. n = 1
  BY <1>2, <1>5 DEF PathsOK, Main
<1> QED BY <1>2, <1>5, <1>6 DEF assignmentStack

LEMMA OrderedStep ==
  ASSUME CollectInv, CollectInv', codePathStack # <<>>, RefsAgree, PathsOK, UsagesOK, MainOnly,
         Ordered, Carried,
         NEW ctx, NEW refs, NEW es, NEW fresh, GoesWith(ctx, refs, es, fresh)
  PROVE  Ordered'
<1> SUFFICES ASSUME NEW v \in Variables, Good(v)', NEW s \in Segments
             PROVE  Order(trace'[s], references'[s], v)
  BY DEF Ordered
<1>1. Good(v) /\ v \notin nested'
  BY GoodBefore DEF Good
<1>2. Order(trace[s], references[s], v)
  BY <1>1 DEF Ordered
<1>3. CASE s \notin Context.segments
  BY <1>2, <1>3, SegmentsAfter
<1>4. CASE s \in Context.segments
  <2>1. PICK T, R : T = trace[s] /\ R = references[s]
    OBVIOUS
  <2>2. /\ trace'[s] = T \o es /\ references'[s] = R \o refs
        /\ T \in Seq(Evaluated) /\ R \in Seq(Ref) /\ es \in Seq(Evaluated) /\ refs \in Seq(Ref)
    <3>1. es \in Seq(Evaluated) /\ refs \in Seq(Ref)
      BY DEF GoesWith
    <3> QED BY <3>1, <1>4, <2>1, SegmentsAfter
  <2>3. NoDup(R \o refs)
    BY <2>2 DEF CollectInv, Once
  <2>4. Ids(R \o refs) = Ids(R) \cup Ids(refs) /\ Ids(R) \subseteq 1 .. events /\ events \in Nat
    BY <2>1, <2>2, IdsConcat DEF CollectInv, Once, VisitTypeOK
  <2>5. ASSUME NEW k \in DOMAIN es, es[k].var = v, es[k].store
        PROVE  /\ refs # <<>> /\ es[k].id = refs[Len(refs)].id
               /\ \A j \in DOMAIN T : T[j].var = v => T[j].id \in Ids(R \o refs)
               /\ \A j \in DOMAIN es : es[j].var = v => es[j].id \in Ids(R \o refs)
    <3>1. refs # <<>> /\ refs[Len(refs)].id = es[k].id
      BY <2>5, <1>1 DEF GoesWith
    <3>2. Elements(refs) = KeptRefs(assignmentStack) \cup fresh
      BY <3>1, NothingKept DEF GoesWith
    <3>3. \A r \in Elements(refs) : r.id \in Ids(refs)
      BY DEF Elements, Ids
    <3>4. ASSUME NEW j \in DOMAIN T, T[j].var = v PROVE T[j].id \in Ids(R \o refs)
      <4>1. T[j] \in Elements(trace[s])
        BY <2>1, <3>4 DEF Elements
      <4>2. T[j].id \in Ids(R) \/ \E r \in KeptRefs(assignmentStack) : r.id = T[j].id
        BY <4>1, <3>4, <1>1, <1>4, <2>1, WayHere
      <4> QED BY <4>2, <3>2, <3>3, <2>4
    <3>5. ASSUME NEW j \in DOMAIN es PROVE es[j].id \in Ids(R \o refs)
      <4>1. PICK r \in KeptRefs(assignmentStack) \cup fresh : es[j].id = r.id
        BY <3>5 DEF GoesWith
      <4> QED BY <4>1, <3>2, <3>3, <2>4
    <3> QED BY <3>1, <3>4, <3>5
  <2>6. ASSUME NEW m \in DOMAIN refs, refs[m].var = v, refs[m].write
        PROVE  \E k \in DOMAIN es : es[k].store /\ es[k].id = refs[m].id
    BY <2>6, <1>1 DEF GoesWith
  <2>7. \A k \in DOMAIN es : es[k].store => k = Len(es)
    BY DEF GoesWith
  <2>8. \A k \in DOMAIN es : es[k].var = v /\ ~ es[k].store => es[k].id \notin Ids(R)
    <3>1. \A k \in DOMAIN es : ~ es[k].store => es[k].id = events + 1
      BY DEF GoesWith
    <3> QED BY <3>1, <2>4
  <2>9. Order(T \o es, R \o refs, v)
    BY <1>2, <2>1, <2>2, <2>3, <2>5, <2>6, <2>7, <2>8, OrderAppend
  <2> QED BY <2>2, <2>9
<1> QED BY <1>3, <1>4

LEMMA CarriedStep ==
  ASSUME CollectInv, codePathStack # <<>>, RefsAgree, PathsOK, UsagesOK, MainOnly,
         Ordered, Carried,
         NEW ctx, NEW refs, NEW es, NEW fresh, GoesWith(ctx, refs, es, fresh)
  PROVE  Carried'
<1>1. PICK n : n = Len(codePathStack)
  OBVIOUS
<1>2. /\ n \in DOMAIN codePathStack /\ Context = codePathStack[n]
      /\ DOMAIN codePathStack = 1 .. n
      /\ DOMAIN codePathStack' = DOMAIN codePathStack /\ codePathStack'[n] = ctx
      /\ \A c \in DOMAIN codePathStack : c # n => codePathStack'[c] = codePathStack[c]
  BY <1>1, TopReplaced DEF GoesWith
<1>3. /\ UNCHANGED <<codePathOf, plan, nextSegments>> /\ ctx.id = Context.id
      /\ ctx.segments = Context.segments /\ ctx.forks = Context.forks
      /\ KeptRefs(ctx.assignments) \cup Elements(refs) = KeptRefs(assignmentStack) \cup fresh
      /\ refs # <<>> => ctx.assignments = <<>>
      /\ refs \in Seq(Ref)
  BY DEF GoesWith
<1>4. \A t : (InFuture(t)' <=> InFuture(t)) /\ (IsOpen(t)' <=> IsOpen(t)) /\ (Main(t)' <=> Main(t))
  <2>1. \A c \in DOMAIN codePathStack : codePathStack'[c].segments = codePathStack[c].segments
    BY <1>2, <1>3
  <2> QED BY <2>1, <1>2, <1>3 DEF InFuture, IsOpen, Main
<1>5. \A t \in Segments : t \notin Context.segments => references'[t] = references[t]
  BY SegmentsAfter
<1>6. \A u \in Segments : Elements(nextSegments[u]) \subseteq Segments
  BY DEF CollectInv, VisitTypeOK, GraphOK, Elements
<1>7. Context.segments \subseteq Segments
  BY ContextFacts DEF PathContext
<1> SUFFICES ASSUME NEW v \in Variables, Good(v)', NEW s \in Segments, NEW e \in Elements(trace'[s]),
                    e.var = v, e.id \notin Ids(references'[s])
             PROVE  OnTheWay(e.id, s)' \/ (Later(v, s)' /\ ~ IsOpen(s)')
  BY DEF Carried
<1>8. Good(v)
  BY GoodBefore
<1>9. \A r \in Elements(refs) : s \in Context.segments => r.id \in Ids(references'[s])
  <2>1. \A r \in Elements(references'[s]) : r.id \in Ids(references'[s])
    BY DEF Elements, Ids
  <2> QED BY <2>1, SegmentsAfter
<1>10. CASE e \notin Elements(trace[s])
  <2>1. e \in Elements(es) /\ s \in Context.segments
    BY <1>10, SegmentsAfter
  <2>2. PICK r \in KeptRefs(assignmentStack) \cup fresh : r.id = e.id
    BY <2>1 DEF GoesWith, Elements
  <2>3. r \in KeptRefs(ctx.assignments)
    BY <2>1, <2>2, <1>3, <1>9
  <2>4. Reaches(s, ctx)'
    BY <2>1, <1>3 DEF Reaches, Ahead
  <2> QED BY <2>2, <2>3, <2>4, <1>2 DEF OnTheWay
<1>11. CASE e \in Elements(trace[s])
  <2>1. e.id \notin Ids(references[s])
    <3>1. Elements(references[s]) \subseteq Elements(references'[s])
      BY SegmentsAfter
    <3> SUFFICES ASSUME e.id \in Ids(references[s]) PROVE e.id \in Ids(references'[s])
      OBVIOUS
    <3>2. PICK i \in DOMAIN references[s] : references[s][i].id = e.id
      BY DEF Ids
    <3>3. references[s][i] \in Elements(references'[s])
      BY <3>1, <3>2 DEF Elements
    <3>4. PICK j \in DOMAIN references'[s] : references'[s][j] = references[s][i]
      BY <3>3 DEF Elements
    <3> QED BY <3>2, <3>4 DEF Ids
  <2>2. CASE Later(v, s) /\ ~ IsOpen(s)
    <3>1. ASSUME NEW Y \in SUBSET Segments, Closed(v, Y)' PROVE Closed(v, Y)
      <4> SUFFICES ASSUME NEW u \in Segments, NEW t \in Elements(nextSegments[u]),
                          v \in gen(t) \/ (t \in Y /\ ~ IsOpen(t) /\ references[t] = <<>>)
                   PROVE  u \in Y
        BY DEF Closed
      <4>1. t \in Segments
        BY <1>6
      <4>2. CASE v \in gen(t)
        <5>1. Elements(references[t]) \subseteq Elements(references'[t])
          BY <4>1, SegmentsAfter
        <5>2. v \in gen(t)'
          BY <4>2, <5>1 DEF gen
        <5> QED BY <5>2, <3>1, <1>3 DEF Closed
      <4>3. CASE t \in Y /\ ~ IsOpen(t) /\ references[t] = <<>>
        <5>1. t \notin Context.segments
          BY <4>3, <1>2 DEF IsOpen
        <5>2. t \in Y /\ ~ IsOpen(t)' /\ references'[t] = <<>>
          BY <4>1, <4>3, <5>1, <1>4, <1>5
        <5> QED BY <5>2, <3>1, <1>3 DEF Closed
      <4> QED BY <4>2, <4>3
    <3>2. Later(v, s)'
      BY <2>2, <3>1 DEF Later
    <3> QED BY <3>2, <2>2, <1>4
  <2>3. CASE OnTheWay(e.id, s)
    <3>1. /\ Main(s) /\ 1 \in DOMAIN codePathStack /\ codePathStack[1].id = codePathOf[1]
          /\ Reaches(s, codePathStack[1])
          /\ \E r \in KeptRefs(codePathStack[1].assignments) : r.id = e.id /\ Agrees(e, r)
      BY <2>3, <1>8, <1>11, WayInProgram
    <3>2. CASE n # 1
      <4>1. \A t \in Context.segments : ~ Main(t)
        BY <3>2, <1>2 DEF PathsOK, Main
      <4>2. \A Y \in SUBSET Segments : Back(Y)' => Back(Y)
        BY <4>1, <1>3, <1>4, <1>5, <1>6 DEF Back
      <4>3. Reaches(s, codePathStack[1])'
        BY <3>1, <3>2, <4>2, <1>2 DEF Reaches, Ahead
      <4> QED BY <3>1, <3>2, <4>3, <1>2 DEF OnTheWay
    <3>3. CASE n = 1
      <4>1. PICK r \in KeptRefs(assignmentStack) : r.id = e.id /\ Agrees(e, r)
        BY <3>1, <3>3, <1>2 DEF assignmentStack
      <4>2. assignmentStack # <<>>
        BY <4>1, NothingKept
      <4>3. CASE r \in KeptRefs(ctx.assignments)
        <5>1. ctx.assignments # <<>> /\ refs = <<>>
          BY <4>3, <1>3, NothingKept
        <5>2. Ahead(ctx) = Ahead(Context)
          BY <4>2, <5>1, <1>3 DEF GoesWith, Ahead, assignmentStack
        <5>3. \A t \in Segments : references'[t] = references[t]
          <6> TAKE t \in Segments
          <6>1. references[t] \in Seq(Ref)
            BY SegmentsAfter
          <6>2. references[t] \o <<>> = references[t]
            BY <6>1
          <6>3. \/ references'[t] = references[t] \o refs
                \/ references'[t] = references[t]
            BY SegmentsAfter
          <6> QED BY <6>2, <6>3, <5>1
        <5>4. \A Y \in SUBSET Segments : Back(Y)' => Back(Y)
          BY <5>3, <1>3, <1>4, <1>6 DEF Back
        <5>5. Reaches(s, ctx)'
          BY <3>1, <3>3, <5>2, <5>4, <1>2, <1>3 DEF Reaches, Ahead
        <5> QED BY <4>1, <4>3, <5>5, <1>2 DEF OnTheWay
      <4>4. CASE r \notin KeptRefs(ctx.assignments)
        <5>1. r \in Elements(refs) /\ refs # <<>> /\ s \notin Context.segments
          BY <4>1, <4>4, <1>3, <1>9, NothingKept
        <5>2. Ahead(Context) = Context.segments
          <6>1. assignmentStack[1].opened = Len(Context.forks)
            BY <5>1, <4>2 DEF GoesWith
          <6>2. Len(Context.forks) \in Nat
            BY <1>2 DEF CollectInv, VisitTypeOK, PathContext
          <6>3. Len(Context.forks) + 1 .. Len(Context.forks) = {}
            BY <6>2
          <6> QED BY <6>1, <6>3 DEF Ahead, assignmentStack
        <5>3. \A t \in Segments : Main(t) /\ IsOpen(t) => t \in Context.segments \/ InFuture(t)
          BY <3>3, <1>2 DEF IsOpen
        <5>4. ~ IsOpen(s)'
          <6>1. trace[s] # <<>>
            BY <1>11, NothingKept
          <6> QED BY <6>1, <5>1, <5>3, <3>1, <1>4 DEF PathsOK
        <5>5. v \in Variables /\ e.id \notin Ids(references[s]) /\ ~ e.store
          BY <2>1, <1>8, <1>11 DEF Ordered, Order, Elements
        <5>6. r.read /\ r.var = v
          BY <4>1, <5>5 DEF Agrees
        <5>7. \A t \in Context.segments : v \in gen(t)'
          <6> TAKE t \in Context.segments
          <6>1. r \in Elements(references'[t])
            BY <5>1, <1>7, SegmentsAfter
          <6> QED BY <6>1, <5>6 DEF gen
        <5>8. Later(v, s)'
          <6> SUFFICES ASSUME NEW Y \in SUBSET Segments, Closed(v, Y)' PROVE s \in Y
            BY DEF Later
          <6>1. PICK X \in SUBSET Segments : X = Y \cup Context.segments
            BY <1>7
          <6>2. Back(X)
            <7> SUFFICES ASSUME NEW u \in Segments, NEW t \in Elements(nextSegments[u]), t \in X,
                                Main(t), ~ InFuture(t), references[t] = <<>>
                         PROVE  u \in X
              BY DEF Back
            <7>1. CASE t \in Context.segments
              BY <7>1, <5>7, <6>1, <1>3 DEF Closed
            <7>2. CASE t \notin Context.segments
              <8>1. t \in Y /\ references'[t] = <<>> /\ ~ IsOpen(t)'
                BY <7>2, <6>1, <5>3, <1>4, <1>5
              <8> QED BY <8>1, <6>1, <1>3 DEF Closed
            <7> QED BY <7>1, <7>2
          <6>3. s \in X
            BY <6>1, <6>2, <5>2, <3>1, <3>3, <1>2 DEF Reaches
          <6> QED BY <6>1, <6>3, <5>1
        <5> QED BY <5>4, <5>8
      <4> QED BY <4>3, <4>4
    <3> QED BY <3>2, <3>3
  <2> QED BY <2>1, <2>2, <2>3, <1>8, <1>11 DEF Carried
<1> QED BY <1>10, <1>11

-----------------------------------------------------------------------------
(* Assignment stacks: pushed to, popped, and references added on top.      *)
LEMMA StackAdd ==
  ASSUME NEW A \in Seq(Assignment), A # <<>>, NEW refs \in Seq(Ref)
  PROVE  \A B : B = [A EXCEPT ![Len(A)].rhs = @ \o refs] =>
           /\ KeptRefs(B) = KeptRefs(A) \cup Elements(refs)
           /\ B # <<>> /\ B[1].opened = A[1].opened
           /\ \A V : StackOK(A, V) /\ (\A r \in Elements(refs) : r.write => r.var \in V)
                     => StackOK(B, V)
<1> SUFFICES ASSUME NEW B, B = [A EXCEPT ![Len(A)].rhs = @ \o refs]
             PROVE  /\ KeptRefs(B) = KeptRefs(A) \cup Elements(refs)
                    /\ B # <<>> /\ B[1].opened = A[1].opened
                    /\ \A V : StackOK(A, V) /\ (\A r \in Elements(refs) : r.write => r.var \in V)
                              => StackOK(B, V)
  OBVIOUS
<1>1. PICK n \in Nat \ {0} : /\ n = Len(A) /\ DOMAIN A = 1 .. n /\ n \in DOMAIN A
                             /\ \A i \in DOMAIN A : A[i] \in Assignment
  BY TakeLast
<1>2. PICK b : b = [A[n] EXCEPT !.rhs = @ \o refs]
  OBVIOUS
<1>3. /\ b.rhs = A[n].rhs \o refs /\ b.lhs = A[n].lhs /\ b.opened = A[n].opened
      /\ A[n].rhs \in Seq(Ref)
  BY <1>1, <1>2 DEF Assignment
<1>4. Elements(b.rhs) = Elements(A[n].rhs) \cup Elements(refs)
  BY <1>3, PushAll
<1>5. DOMAIN B = DOMAIN A /\ B[n] = b /\ \A i \in DOMAIN A : i # n => B[i] = A[i]
  BY <1>1, <1>2
<1>6. KeptRefs(B) = KeptRefs(A) \cup Elements(refs)
  <2>1. ASSUME NEW x \in KeptRefs(B) PROVE x \in KeptRefs(A) \cup Elements(refs)
    <3>1. PICK i \in DOMAIN A : x \in Elements(B[i].rhs) \cup Elements(B[i].lhs)
      BY <1>5, <2>1 DEF KeptRefs
    <3>2. x \in Elements(A[i].rhs) \cup Elements(A[i].lhs) \cup Elements(refs)
      BY <3>1, <1>3, <1>4, <1>5
    <3> QED BY <3>2 DEF KeptRefs
  <2>2. ASSUME NEW x \in KeptRefs(A) PROVE x \in KeptRefs(B)
    <3>1. PICK i \in DOMAIN A : x \in Elements(A[i].rhs) \cup Elements(A[i].lhs)
      BY <2>2 DEF KeptRefs
    <3>2. x \in Elements(B[i].rhs) \cup Elements(B[i].lhs)
      BY <3>1, <1>3, <1>4, <1>5
    <3> QED BY <3>2, <1>5 DEF KeptRefs
  <2>3. ASSUME NEW x \in Elements(refs) PROVE x \in KeptRefs(B)
    <3>1. x \in Elements(B[n].rhs)
      BY <2>3, <1>4, <1>5
    <3> QED BY <3>1, <1>1, <1>5 DEF KeptRefs
  <2> QED BY <2>1, <2>2, <2>3
<1>7. B # <<>> /\ B[1].opened = A[1].opened
  <2>1. 1 \in DOMAIN A /\ DOMAIN B # {}
    BY <1>1, <1>5
  <2> QED BY <2>1, <1>3, <1>5
<1>8. ASSUME NEW V, StackOK(A, V), \A r \in Elements(refs) : r.write => r.var \in V
      PROVE  StackOK(B, V)
  <2> SUFFICES ASSUME NEW i \in DOMAIN A
               PROVE  /\ B[i].lhs = <<B[i].lhs[1]>> /\ B[i].lhs[1].write
                      /\ i > 1 => B[i].lhs[1].var \in V
                      /\ \A r \in Elements(B[i].rhs) : r.write => r.var \in V
    BY <1>5 DEF StackOK
  <2>1. /\ A[i].lhs = <<A[i].lhs[1]>> /\ A[i].lhs[1].write
        /\ i > 1 => A[i].lhs[1].var \in V
        /\ \A r \in Elements(A[i].rhs) : r.write => r.var \in V
    BY <1>8 DEF StackOK
  <2>2. B[i].lhs = A[i].lhs /\ Elements(B[i].rhs) \subseteq Elements(A[i].rhs) \cup Elements(refs)
    BY <1>3, <1>4, <1>5
  <2> QED BY <2>1, <2>2, <1>8
<1> QED BY <1>6, <1>7, <1>8

LEMMA StackPop ==
  ASSUME NEW A \in Seq(Assignment), A # <<>>
  PROVE  /\ Front(A) \in Seq(Assignment) /\ Top(A) \in Assignment
         /\ KeptRefs(A) = KeptRefs(Front(A)) \cup Elements(Top(A).rhs) \cup Elements(Top(A).lhs)
         /\ Front(A) # <<>> => Front(A)[1].opened = A[1].opened
         /\ Front(A) = <<>> => Top(A) = A[1]
         /\ \A V : StackOK(A, V) =>
              /\ StackOK(Front(A), V)
              /\ Top(A).lhs = <<Top(A).lhs[1]>> /\ Top(A).lhs[1].write
              /\ Front(A) # <<>> => Top(A).lhs[1].var \in V
              /\ \A r \in Elements(Top(A).rhs) : r.write => r.var \in V
<1>1. /\ Len(A) \in Nat \ {0} /\ DOMAIN A = 1 .. Len(A) /\ A[Len(A)] \in Assignment
      /\ Front(A) \in Seq(Assignment)
  BY TakeLast DEF Front
<1>2. /\ DOMAIN Front(A) = 1 .. Len(A) - 1 /\ \A i \in 1 .. Len(A) - 1 : Front(A)[i] = A[i]
      /\ Len(Front(A)) = Len(A) - 1
  BY <1>1 DEF Front
<1>3. /\ DOMAIN A = DOMAIN Front(A) \cup {Len(A)}
      /\ \A i \in DOMAIN Front(A) : Front(A)[i] = A[i]
  BY <1>1, <1>2
<1>4. KeptRefs(A) = KeptRefs(Front(A)) \cup Elements(A[Len(A)].rhs) \cup Elements(A[Len(A)].lhs)
  <2>1. \A i \in DOMAIN Front(A) : i \in DOMAIN A /\ Front(A)[i] = A[i]
    BY <1>3
  <2>2. KeptRefs(Front(A)) \subseteq KeptRefs(A)
    BY <2>1 DEF KeptRefs
  <2>3. Elements(A[Len(A)].rhs) \cup Elements(A[Len(A)].lhs) \subseteq KeptRefs(A)
    BY <1>3 DEF KeptRefs
  <2>4. ASSUME NEW x \in KeptRefs(A), x \notin Elements(A[Len(A)].rhs) \cup Elements(A[Len(A)].lhs)
        PROVE  x \in KeptRefs(Front(A))
    <3>1. PICK i \in DOMAIN A : x \in Elements(A[i].rhs) \cup Elements(A[i].lhs)
      BY <2>4 DEF KeptRefs
    <3>2. i \in DOMAIN Front(A)
      BY <3>1, <2>4, <1>3
    <3> QED BY <3>1, <3>2, <2>1 DEF KeptRefs
  <2> QED BY <2>2, <2>3, <2>4
<1>5. Front(A) # <<>> => Len(A) > 1 /\ 1 \in DOMAIN Front(A)
  BY <1>1, <1>2
<1>6. ASSUME Front(A) = <<>> PROVE Len(A) = 1
  <2>1. DOMAIN Front(A) = {}
    BY <1>6
  <2>2. Len(A) > 1 => 1 \in 1 .. Len(A) - 1
    BY <1>1
  <2>3. ~ (Len(A) > 1)
    BY <2>1, <2>2, <1>2, Zenon
  <2> QED BY <2>3, <1>1
<1>7. ASSUME NEW V, StackOK(A, V)
      PROVE  /\ StackOK(Front(A), V)
             /\ Top(A).lhs = <<Top(A).lhs[1]>> /\ Top(A).lhs[1].write
             /\ Front(A) # <<>> => Top(A).lhs[1].var \in V
             /\ \A r \in Elements(Top(A).rhs) : r.write => r.var \in V
  <2>1. StackOK(Front(A), V)
    BY <1>3, <1>7 DEF StackOK
  <2>2. Len(A) \in DOMAIN A
    BY <1>1
  <2> QED BY <2>1, <2>2, <1>5, <1>7 DEF StackOK, Top
<1> QED BY <1>1, <1>3, <1>4, <1>5, <1>6, <1>7 DEF Top

LEMMA StackPush ==
  ASSUME NEW A \in Seq(Assignment), NEW a \in Assignment, NEW r, a.lhs = <<r>>, a.rhs = <<>>
  PROVE  /\ KeptRefs(Append(A, a)) = KeptRefs(A) \cup {r}
         /\ Append(A, a) # <<>>
         /\ A # <<>> => Append(A, a)[1].opened = A[1].opened
         /\ \A V : StackOK(A, V) /\ r.write /\ (A # <<>> => r.var \in V) => StackOK(Append(A, a), V)
<1>1. PICK B : B = Append(A, a)
  OBVIOUS
<1>2. /\ Len(A) \in Nat /\ DOMAIN A = 1 .. Len(A) /\ DOMAIN B = 1 .. Len(A) + 1
      /\ B[Len(A) + 1] = a /\ \A i \in 1 .. Len(A) : B[i] = A[i]
  BY <1>1
<1>3. /\ DOMAIN B = DOMAIN A \cup {Len(A) + 1} /\ \A i \in DOMAIN A : B[i] = A[i]
      /\ A # <<>> => 1 \in DOMAIN A
  BY <1>2
<1>4. Elements(a.rhs) = {} /\ Elements(a.lhs) = {r} /\ a.lhs[1] = r
  BY DEF Elements
<1>5. KeptRefs(B) = KeptRefs(A) \cup {r}
  BY <1>2, <1>3, <1>4 DEF KeptRefs
<1>6. B # <<>> /\ (A # <<>> => B[1].opened = A[1].opened)
  <2>1. DOMAIN B # {}
    BY <1>2
  <2> QED BY <2>1, <1>3
<1>7. ASSUME NEW V, StackOK(A, V), r.write, A # <<>> => r.var \in V
      PROVE  StackOK(B, V)
  <2>1. Len(A) + 1 > 1 => A # <<>>
    BY <1>2
  <2> QED BY <1>2, <1>3, <1>4, <1>7, <2>1 DEF StackOK
<1> QED BY <1>1, <1>5, <1>6, <1>7

(* processReference(): the references refs go to the assignment around, or *)
(* are all collected if there is none.                                     *)
Processed(refs, stack, ctx, got) ==
  /\ codePathStack' = [codePathStack EXCEPT ![Len(codePathStack)] = ctx]
  /\ ctx.id = Context.id /\ ctx.forks = Context.forks /\ ctx.segments = Context.segments
  /\ got \in Seq(Ref)
  /\ references' = [s \in Segments |->
       IF s \in Context.segments THEN references[s] \o got ELSE references[s]]
  /\ KeptRefs(ctx.assignments) \cup Elements(got) = KeptRefs(stack) \cup Elements(refs)
  /\ stack = <<>> => got = refs /\ ctx.assignments = <<>>
  /\ stack # <<>> => /\ got = <<>> /\ ctx.assignments # <<>>
                     /\ ctx.assignments[1].opened = stack[1].opened
  /\ \A V : StackOK(stack, V) /\ (stack # <<>> => \A r \in Elements(refs) : r.write => r.var \in V)
            => StackOK(ctx.assignments, V)

LEMMA ProcessFacts ==
  ASSUME CollectInv, codePathStack # <<>>, NEW refs \in Seq(Ref), NEW stack \in Seq(Assignment),
         Process(refs, stack)
  PROVE  \E ctx, got : Processed(refs, stack, ctx, got)
<1>1. PICK n : n = Len(codePathStack)
  OBVIOUS
<1>2. Context \in PathContext /\ references \in [Segments -> Seq(Ref)]
  BY ContextFacts DEF CollectInv, VisitTypeOK, ReferencesOK
<1>3. ASSUME NEW B, NEW ctx, ctx = [Context EXCEPT !.assignments = B]
      PROVE  /\ ctx.id = Context.id /\ ctx.forks = Context.forks /\ ctx.segments = Context.segments
             /\ ctx.assignments = B
  BY <1>2, <1>3 DEF PathContext
<1>4. CASE stack = <<>>
  <2>1. PICK ctx : ctx = [Context EXCEPT !.assignments = <<>>]
    OBVIOUS
  <2>2. /\ ctx.id = Context.id /\ ctx.forks = Context.forks /\ ctx.segments = Context.segments
        /\ ctx.assignments = <<>>
    BY <2>1, <1>3
  <2>3. /\ codePathStack' = [codePathStack EXCEPT ![Len(codePathStack)] = ctx]
        /\ references' = [s \in Segments |->
             IF s \in Context.segments THEN references[s] \o refs ELSE references[s]]
    BY <2>1, <1>4 DEF Process, SetContext
  <2>4. Processed(refs, stack, ctx, refs)
    BY <2>2, <2>3, <1>4 DEF Processed
  <2> QED BY <2>4
<1>5. CASE stack # <<>>
  <2>1. PICK B : B = [stack EXCEPT ![Len(stack)].rhs = @ \o refs]
    OBVIOUS
  <2>2. PICK ctx : ctx = [Context EXCEPT !.assignments = B]
    OBVIOUS
  <2>3. /\ ctx.id = Context.id /\ ctx.forks = Context.forks /\ ctx.segments = Context.segments
        /\ ctx.assignments = B
    BY <2>2, <1>3
  <2>4. codePathStack' = [codePathStack EXCEPT ![Len(codePathStack)] = ctx] /\ references' = references
    BY <2>1, <2>2, <1>5 DEF Process, SetContext
  <2>5. PICK none \in Seq(Ref) : none = <<>>
    BY EmptySeq
  <2>6. references' = [s \in Segments |->
          IF s \in Context.segments THEN references[s] \o none ELSE references[s]]
    <3>1. \A s \in Segments : references[s] \o none = references[s]
      BY <2>5, <1>2
    <3> QED BY <3>1, <2>4, <1>2
  <2>7. /\ KeptRefs(B) = KeptRefs(stack) \cup Elements(refs)
        /\ B # <<>> /\ B[1].opened = stack[1].opened
        /\ \A V : StackOK(stack, V) /\ (\A r \in Elements(refs) : r.write => r.var \in V)
                  => StackOK(B, V)
    <3>1. \A C : C = [stack EXCEPT ![Len(stack)].rhs = @ \o refs] =>
            /\ KeptRefs(C) = KeptRefs(stack) \cup Elements(refs)
            /\ C # <<>> /\ C[1].opened = stack[1].opened
            /\ \A V : StackOK(stack, V) /\ (\A r \in Elements(refs) : r.write => r.var \in V)
                      => StackOK(C, V)
      BY <1>5, StackAdd
    <3> QED BY <3>1, <2>1, Zenon
  <2>8. Elements(none) = {}
    BY <2>5, NothingKept
  <2>9. Processed(refs, stack, ctx, none)
    BY <2>3, <2>4, <2>5, <2>6, <2>7, <2>8, <1>5 DEF Processed
  <2> QED BY <2>9
<1> QED BY <1>4, <1>5

(* A step of the innermost code path keeps the invariant of the visit.     *)
LEMMA TopStep ==
  ASSUME CollectInv, CollectInv', codePathStack # <<>>, VisitInv,
         NEW ctx, NEW refs, NEW es, NEW fresh, GoesWith(ctx, refs, es, fresh),
         StackOK(ctx.assignments, nested')
  PROVE  VisitInv'
<1>1. NestedOK'
  <2>1. PICK n : n = Len(codePathStack)
    OBVIOUS
  <2>2. /\ DOMAIN codePathStack' = DOMAIN codePathStack /\ codePathStack'[n] = ctx
        /\ \A c \in DOMAIN codePathStack : c # n => codePathStack'[c] = codePathStack[c]
    BY <2>1, TopReplaced DEF GoesWith
  <2>3. nested \subseteq nested'
    BY DEF GoesWith
  <2>4. \A A : StackOK(A, nested) => StackOK(A, nested')
    BY <2>3 DEF StackOK
  <2> QED BY <2>2, <2>4 DEF VisitInv, NestedOK
<1> QED
  BY <1>1, AgreeStep, PathsStep, MainStep, OrderedStep, CarriedStep DEF VisitInv

(* updateReadVariables() and updateVariableUsages().                       *)
LEMMA UsedFacts ==
  ASSUME CollectInv, codePathStack # <<>>, UsagesOK, NEW r, r.var \in Variables, Used(r)
  PROVE  /\ readVariables \subseteq readVariables' /\ (r.read => r.var \in readVariables')
         /\ variableUsages' \in [Variables -> SUBSET CodePathIds]
         /\ \A v \in Variables : IsFiniteSet(variableUsages'[v])
                                 /\ variableUsages[v] \subseteq variableUsages'[v]
         /\ Context.id \in variableUsages'[r.var]
<1>1. Context.id \in CodePathIds
  BY ContextFacts DEF PathContext
<1>2. /\ variableUsages \in [Variables -> SUBSET CodePathIds]
      /\ \A v \in Variables : IsFiniteSet(variableUsages[v])
  BY DEF UsagesOK
<1>3. IsFiniteSet(variableUsages[r.var] \cup {Context.id})
  BY <1>2, FS_AddElement
<1>4. variableUsages' = [variableUsages EXCEPT ![r.var] = @ \cup {Context.id}]
  BY DEF Used
<1>5. /\ variableUsages'[r.var] = variableUsages[r.var] \cup {Context.id}
      /\ \A v \in Variables : v # r.var => variableUsages'[v] = variableUsages[v]
  BY <1>2, <1>4
<1>6. variableUsages' \in [Variables -> SUBSET CodePathIds]
  BY <1>1, <1>2, <1>4
<1>7. \A v \in Variables : IsFiniteSet(variableUsages'[v])
                           /\ variableUsages[v] \subseteq variableUsages'[v]
  BY <1>2, <1>3, <1>5
<1>8. readVariables \subseteq readVariables' /\ (r.read => r.var \in readVariables')
  BY DEF Used
<1> QED BY <1>5, <1>6, <1>7, <1>8

LEMMA VisitIdentifier ==
  ASSUME CollectInv, CollectInv', VisitInv, UNCHANGED <<nextSegments, prevSegments, codePathOf>>,
         NEW v \in Variables, NEW update \in BOOLEAN, Identifier(v, update)
  PROVE  VisitInv'
<1>1. codePathStack # <<>> /\ plan' = plan /\ events' = events + 1
  BY DEF Identifier, CanVisit
<1>2. assignmentStack \in Seq(Assignment) /\ events \in Nat
  BY <1>1, ContextFacts
<1>3. PICK r : r = NewRef(v, TRUE, update, TRUE)
  OBVIOUS
<1>4. /\ r \in Ref /\ r.id = events + 1 /\ r.var = v /\ r.read /\ (r.write <=> update)
      /\ ReadOf(r) \in Evaluated /\ ReadOf(r).id = events + 1 /\ ReadOf(r).var = v
      /\ ~ ReadOf(r).store
      /\ StoreOf(r) \in Evaluated /\ StoreOf(r).id = events + 1 /\ StoreOf(r).var = v
      /\ StoreOf(r).store
  BY <1>2, <1>3 DEF NewRef, Ref, ReadOf, StoreOf, Evaluated
<1>5. <<r>> \in Seq(Ref) /\ Elements(<<r>>) = {r}
  BY <1>4 DEF Elements
<1>6. /\ Process(<<r>>, assignmentStack) /\ Used(r)
      /\ nested' = IF update /\ assignmentStack # <<>> THEN nested \cup {v} ELSE nested
      /\ Happens(IF update THEN <<ReadOf(r), StoreOf(r)>> ELSE <<ReadOf(r)>>)
  BY <1>3 DEF Identifier
<1>7. PICK es : es = IF update THEN <<ReadOf(r), StoreOf(r)>> ELSE <<ReadOf(r)>>
  OBVIOUS
<1>8. /\ es \in Seq(Evaluated) /\ Happens(es) /\ 1 \in DOMAIN es /\ es[1] = ReadOf(r)
      /\ \A k \in DOMAIN es : k = 1 \/ (k = Len(es) /\ es[k] = StoreOf(r) /\ update)
      /\ update => \E k \in DOMAIN es : es[k] = StoreOf(r)
  <2>1. CASE update
    <3>1. es = <<ReadOf(r), StoreOf(r)>>
      BY <2>1, <1>7
    <3>2. es \in Seq(Evaluated) /\ DOMAIN es = {1, 2} /\ es[1] = ReadOf(r) /\ es[2] = StoreOf(r)
          /\ Len(es) = 2
      BY <3>1, <1>4
    <3> QED BY <3>2, <2>1, <1>6, <1>7
  <2>2. CASE ~ update
    <3>1. es = <<ReadOf(r)>>
      BY <2>2, <1>7
    <3>2. es \in Seq(Evaluated) /\ DOMAIN es = {1} /\ es[1] = ReadOf(r)
      BY <3>1, <1>4
    <3> QED BY <3>2, <2>2, <1>6, <1>7
  <2> QED BY <2>1, <2>2
<1>9. PICK ctx, got : Processed(<<r>>, assignmentStack, ctx, got)
  BY <1>1, <1>2, <1>5, <1>6, ProcessFacts
<1>10. /\ readVariables \subseteq readVariables' /\ v \in readVariables'
       /\ variableUsages' \in [Variables -> SUBSET CodePathIds]
       /\ \A w \in Variables : IsFiniteSet(variableUsages'[w])
                               /\ variableUsages[w] \subseteq variableUsages'[w]
       /\ Context.id \in variableUsages'[v]
  BY <1>1, <1>4, <1>6, UsedFacts DEF VisitInv
<1>11. PICK fresh : fresh = {r}
  OBVIOUS
<1>12. /\ nested \subseteq nested' /\ events' \in Nat /\ events' >= events
       /\ events + 1 \in 1 .. events'
  BY <1>1, <1>2, <1>6
<1>13. /\ got # <<>> => got = <<r>> /\ assignmentStack = <<>> /\ ctx.assignments = <<>>
       /\ assignmentStack = <<>> => got = <<r>>
       /\ KeptRefs(ctx.assignments) \cup Elements(got) = KeptRefs(assignmentStack) \cup fresh
       /\ ctx.assignments # <<>> /\ assignmentStack # <<>> =>
            ctx.assignments[1].opened = assignmentStack[1].opened
  BY <1>5, <1>9, <1>11 DEF Processed
<1>14. \A k \in DOMAIN es :
         /\ \E q \in KeptRefs(assignmentStack) \cup fresh : es[k].id = q.id /\ Agrees(es[k], q)
         /\ ~ es[k].store => es[k].var \in readVariables' /\ es[k].id = events + 1
         /\ es[k].store => /\ k = Len(es)
                           /\ \/ es[k].var \in nested'
                              \/ got # <<>> /\ got[Len(got)].id = es[k].id
  <2> TAKE k \in DOMAIN es
  <2>1. es[k].id = r.id /\ Agrees(es[k], r)
    BY <1>4, <1>8 DEF Agrees
  <2>2. ~ es[k].store => es[k].var \in readVariables' /\ es[k].id = events + 1
    BY <1>4, <1>8, <1>10
  <2>3. ASSUME es[k].store
        PROVE  k = Len(es) /\ (es[k].var \in nested' \/ (got # <<>> /\ got[Len(got)].id = es[k].id))
    <3>1. k = Len(es) /\ es[k] = StoreOf(r) /\ update
      BY <2>3, <1>4, <1>8
    <3>2. CASE assignmentStack = <<>>
      <4>1. got = <<r>>
        BY <3>2, <1>13
      <4>2. got # <<>> /\ got[Len(got)] = r
        BY <4>1
      <4> QED BY <4>2, <3>1, <1>4
    <3>3. CASE assignmentStack # <<>>
      BY <3>1, <3>3, <1>4, <1>6
    <3> QED BY <3>1, <3>2, <3>3
  <2> QED BY <2>1, <2>2, <2>3, <1>11
<1>15. \A m \in DOMAIN got : got[m].write =>
         \/ got[m].var \in nested'
         \/ \E k \in DOMAIN es : es[k].store /\ es[k].id = got[m].id
  <2> SUFFICES ASSUME NEW m \in DOMAIN got, got[m].write
               PROVE  \E k \in DOMAIN es : es[k].store /\ es[k].id = got[m].id
    OBVIOUS
  <2>1. got # <<>>
    OBVIOUS
  <2>2. got[m] = r
    BY <2>1, <1>13
  <2> QED BY <2>2, <1>4, <1>8
<1>16. GoesWith(ctx, got, es, fresh)
  <2>1. \A q, w \in fresh : q = w
    BY <1>11
  <2>2. \A q \in fresh : q.id = events + 1 /\ q.id \in 1 .. events' /\ Context.id \in variableUsages'[q.var]
    BY <1>4, <1>10, <1>11, <1>12
  <2> QED BY <2>1, <2>2, <1>1, <1>8, <1>9, <1>10, <1>12, <1>13, <1>14, <1>15, Zenon DEF GoesWith, Processed
<1>17. StackOK(ctx.assignments, nested')
  <2>1. StackOK(assignmentStack, nested)
    BY <1>1, ContextFacts DEF VisitInv, NestedOK, assignmentStack, Context
  <2>2. StackOK(assignmentStack, nested')
    BY <2>1, <1>12 DEF StackOK
  <2>3. assignmentStack # <<>> => \A q \in Elements(<<r>>) : q.write => q.var \in nested'
    BY <1>4, <1>5, <1>6
  <2> QED BY <2>2, <2>3, <1>9 DEF Processed
<1> QED BY <1>1, <1>16, <1>17, TopStep

LEMMA VisitEnter ==
  ASSUME CollectInv, CollectInv', VisitInv, UNCHANGED <<nextSegments, prevSegments, codePathOf>>,
         NEW v \in Variables, NEW compound \in BOOLEAN, NEW exempt \in BOOLEAN,
         EnterAssignment(v, compound, exempt)
  PROVE  VisitInv'
<1>1. codePathStack # <<>> /\ UNCHANGED <<plan, references>> /\ events' = events + 1
  BY DEF EnterAssignment, CanVisit
<1>2. assignmentStack \in Seq(Assignment) /\ events \in Nat /\ Context \in PathContext
  BY <1>1, ContextFacts
<1>3. PICK r : r = NewRef(v, compound, TRUE, exempt)
  OBVIOUS
<1>4. /\ r \in Ref /\ r.id = events + 1 /\ r.var = v /\ (r.read <=> compound) /\ r.write
      /\ ReadOf(r) \in Evaluated /\ ReadOf(r).id = events + 1 /\ ReadOf(r).var = v
      /\ ~ ReadOf(r).store
  BY <1>2, <1>3 DEF NewRef, Ref, ReadOf, Evaluated
<1>5. PICK a : a = [lhs |-> <<r>>, rhs |-> <<>>, opened |-> Len(Context.forks)]
  OBVIOUS
<1>6. a \in Assignment /\ a.lhs = <<r>> /\ a.rhs = <<>>
  <2>1. <<r>> \in Seq(Ref) /\ <<>> \in Seq(Ref) /\ Len(Context.forks) \in Nat
    BY <1>2, <1>4 DEF PathContext
  <2> QED BY <1>5, <2>1 DEF Assignment
<1>7. PICK B : B = Append(assignmentStack, a)
  OBVIOUS
<1>8. PICK ctx : ctx = [Context EXCEPT !.assignments = B]
  OBVIOUS
<1>9. /\ ctx.id = Context.id /\ ctx.forks = Context.forks /\ ctx.segments = Context.segments
      /\ ctx.assignments = B
  BY <1>2, <1>8 DEF PathContext
<1>10. codePathStack' = [codePathStack EXCEPT ![Len(codePathStack)] = ctx]
  BY <1>3, <1>5, <1>7, <1>8 DEF EnterAssignment, SetContext, assignmentStack
<1>11. PICK none \in Seq(Ref) : none = <<>>
  BY EmptySeq
<1>12. references' = [s \in Segments |->
         IF s \in Context.segments THEN references[s] \o none ELSE references[s]]
  <2>1. references \in [Segments -> Seq(Ref)]
    BY DEF CollectInv, VisitTypeOK, ReferencesOK
  <2>2. \A s \in Segments : references[s] \o none = references[s]
    BY <2>1, <1>11
  <2> QED BY <2>1, <2>2, <1>1
<1>13. /\ KeptRefs(B) = KeptRefs(assignmentStack) \cup {r}
       /\ B # <<>> /\ (assignmentStack # <<>> => B[1].opened = assignmentStack[1].opened)
       /\ \A V : StackOK(assignmentStack, V) /\ r.write /\ (assignmentStack # <<>> => r.var \in V)
                 => StackOK(B, V)
  BY <1>2, <1>6, <1>7, StackPush
<1>14. PICK es : es = IF compound THEN <<ReadOf(r)>> ELSE <<>>
  OBVIOUS
<1>15. Happens(es) /\ Used(r) /\ nested' = IF assignmentStack # <<>> THEN nested \cup {v} ELSE nested
  BY <1>3, <1>14 DEF EnterAssignment
<1>16. es \in Seq(Evaluated) /\ \A k \in DOMAIN es : es[k] = ReadOf(r) /\ compound
  <2>1. CASE compound
    <3>1. es = <<ReadOf(r)>>
      BY <2>1, <1>14
    <3>2. es \in Seq(Evaluated) /\ DOMAIN es = {1} /\ es[1] = ReadOf(r)
      BY <3>1, <1>4
    <3> QED BY <3>2, <2>1
  <2>2. CASE ~ compound
    BY <2>2, <1>14, EmptySeq
  <2> QED BY <2>1, <2>2
<1>17. /\ readVariables \subseteq readVariables' /\ (r.read => r.var \in readVariables')
       /\ variableUsages' \in [Variables -> SUBSET CodePathIds]
       /\ \A w \in Variables : IsFiniteSet(variableUsages'[w])
                               /\ variableUsages[w] \subseteq variableUsages'[w]
       /\ Context.id \in variableUsages'[r.var]
  BY <1>1, <1>4, <1>15, UsedFacts DEF VisitInv
<1>18. PICK fresh : fresh = {r}
  OBVIOUS
<1>19. /\ nested \subseteq nested' /\ events' \in Nat /\ events' >= events
       /\ events + 1 \in 1 .. events'
  BY <1>1, <1>2, <1>15
<1>20. \A k \in DOMAIN es :
         /\ \E q \in KeptRefs(assignmentStack) \cup fresh : es[k].id = q.id /\ Agrees(es[k], q)
         /\ ~ es[k].store => es[k].var \in readVariables' /\ es[k].id = events + 1
         /\ ~ es[k].store
  <2> TAKE k \in DOMAIN es
  <2>1. es[k].id = r.id /\ Agrees(es[k], r) /\ ~ es[k].store
    BY <1>4, <1>16 DEF Agrees
  <2>2. es[k].var \in readVariables' /\ es[k].id = events + 1
    BY <1>4, <1>16, <1>17
  <2> QED BY <2>1, <2>2, <1>18
<1>21. GoesWith(ctx, none, es, fresh)
  <2>1. \A q, w \in fresh : q = w
    BY <1>18
  <2>2. \A q \in fresh : q.id = events + 1 /\ q.id \in 1 .. events' /\ Context.id \in variableUsages'[q.var]
    BY <1>4, <1>17, <1>18, <1>19
  <2>3. KeptRefs(ctx.assignments) \cup Elements(none) = KeptRefs(assignmentStack) \cup fresh
    BY <1>9, <1>11, <1>13, <1>18, NothingKept
  <2>4. \A m \in DOMAIN none : FALSE
    BY <1>11
  <2>5. assignmentStack # <<>> => ctx.assignments[1].opened = assignmentStack[1].opened
    BY <1>9, <1>13
  <2> QED
    BY <2>1, <2>2, <2>3, <2>4, <2>5, <1>1, <1>9, <1>10, <1>11, <1>12, <1>15, <1>16, <1>17, <1>19,
       <1>20, Zenon
    DEF GoesWith
<1>22. StackOK(ctx.assignments, nested')
  <2>1. StackOK(assignmentStack, nested)
    BY <1>1, ContextFacts DEF VisitInv, NestedOK, assignmentStack, Context
  <2>2. StackOK(assignmentStack, nested')
    BY <2>1, <1>19 DEF StackOK
  <2> QED BY <2>2, <1>4, <1>9, <1>13, <1>15
<1> QED BY <1>1, <1>21, <1>22, TopStep

LEMMA VisitExit ==
  ASSUME CollectInv, CollectInv', VisitInv, UNCHANGED <<nextSegments, prevSegments, codePathOf>>,
         ExitAssignment
  PROVE  VisitInv'
<1>1. /\ codePathStack # <<>> /\ assignmentStack # <<>>
      /\ Top(assignmentStack).opened = Len(Context.forks)
      /\ UNCHANGED <<plan, readVariables, variableUsages, events, nested>>
  BY DEF ExitAssignment
<1>2. assignmentStack \in Seq(Assignment) /\ events \in Nat
  BY <1>1, ContextFacts
<1>3. PICK stack, a : stack = Front(assignmentStack) /\ a = Top(assignmentStack)
  OBVIOUS
<1>4. StackOK(assignmentStack, nested)
  BY <1>1, ContextFacts DEF VisitInv, NestedOK, assignmentStack, Context
<1>5. /\ stack \in Seq(Assignment) /\ a \in Assignment
      /\ KeptRefs(assignmentStack) = KeptRefs(stack) \cup Elements(a.rhs) \cup Elements(a.lhs)
      /\ stack # <<>> => stack[1].opened = assignmentStack[1].opened
      /\ stack = <<>> => a = assignmentStack[1]
      /\ StackOK(stack, nested)
      /\ a.lhs = <<a.lhs[1]>> /\ a.lhs[1].write
      /\ stack # <<>> => a.lhs[1].var \in nested
      /\ \A r \in Elements(a.rhs) : r.write => r.var \in nested
  BY <1>1, <1>2, <1>3, <1>4, StackPop
<1>6. PICK r : r = a.lhs[1]
  OBVIOUS
<1>7. PICK refs : refs = a.rhs \o a.lhs
  OBVIOUS
<1>8. /\ a.rhs \in Seq(Ref) /\ a.lhs \in Seq(Ref) /\ a.lhs = <<r>> /\ Elements(a.lhs) = {r}
      /\ r \in Ref /\ r.write
  <2>1. a.rhs \in Seq(Ref) /\ a.lhs \in Seq(Ref) /\ a.lhs = <<r>> /\ r.write
    BY <1>5, <1>6 DEF Assignment
  <2>2. DOMAIN a.lhs = {1} /\ a.lhs[1] = r
    BY <2>1
  <2> QED BY <2>1, <2>2 DEF Elements
<1>9. /\ refs \in Seq(Ref) /\ Elements(refs) = Elements(a.rhs) \cup {r}
      /\ refs # <<>> /\ refs[Len(refs)] = r
  <2>1. refs \in Seq(Ref) /\ Elements(refs) = Elements(a.rhs) \cup {r}
    <3>1. refs \in Seq(Ref) /\ Elements(refs) = Elements(a.rhs) \cup Elements(a.lhs)
      <4>1. a.rhs \in Seq(Ref) /\ a.lhs \in Seq(Ref)
        BY <1>8
      <4> QED BY <4>1, <1>7, PushAll
    <3> QED BY <3>1, <1>8
  <2>2. /\ Len(a.rhs) \in Nat /\ Len(a.lhs) = 1 /\ Len(refs) = Len(a.rhs) + 1
        /\ refs[Len(a.rhs) + 1] = r
    BY <1>7, <1>8
  <2> QED BY <2>1, <2>2
<1>10. Process(refs, stack) /\ Happens(<<StoreOf(r)>>)
  BY <1>3, <1>6, <1>7 DEF ExitAssignment, RhsFirst
<1>11. PICK ctx, got : Processed(refs, stack, ctx, got)
  BY <1>1, <1>5, <1>9, <1>10, ProcessFacts
<1>12. PICK es, fresh : es = <<StoreOf(r)>> /\ fresh = {}
  OBVIOUS
<1>13. /\ es \in Seq(Evaluated) /\ DOMAIN es = {1} /\ es[1] = StoreOf(r) /\ Len(es) = 1
       /\ StoreOf(r).id = r.id /\ StoreOf(r).var = r.var /\ StoreOf(r).store
  <2>1. StoreOf(r) \in Evaluated /\ StoreOf(r).id = r.id /\ StoreOf(r).var = r.var /\ StoreOf(r).store
    BY <1>8 DEF StoreOf, Ref, Evaluated
  <2> QED BY <2>1, <1>12
<1>14. /\ got # <<>> => got = refs /\ stack = <<>> /\ ctx.assignments = <<>>
       /\ stack = <<>> => got = refs
       /\ KeptRefs(ctx.assignments) \cup Elements(got) = KeptRefs(assignmentStack) \cup fresh
       /\ ctx.assignments # <<>> => ctx.assignments[1].opened = assignmentStack[1].opened
  <2>1. KeptRefs(stack) \cup Elements(refs) = KeptRefs(assignmentStack)
    BY <1>5, <1>8, <1>9
  <2> QED BY <2>1, <1>5, <1>11, <1>12 DEF Processed
<1>15. /\ got # <<>> => ctx.assignments = <<>> /\ assignmentStack[1].opened = Len(Context.forks)
  BY <1>1, <1>3, <1>5, <1>14
<1>16. \A k \in DOMAIN es :
         /\ \E q \in KeptRefs(assignmentStack) \cup fresh : es[k].id = q.id /\ Agrees(es[k], q)
         /\ es[k].store
         /\ es[k].store => /\ k = Len(es)
                           /\ \/ es[k].var \in nested'
                              \/ got # <<>> /\ got[Len(got)].id = es[k].id
  <2> TAKE k \in DOMAIN es
  <2>1. k = 1 /\ es[k] = StoreOf(r) /\ es[k].store /\ k = Len(es)
    BY <1>13
  <2>2. r \in KeptRefs(assignmentStack) /\ es[k].id = r.id /\ Agrees(es[k], r)
    BY <2>1, <1>5, <1>8, <1>13 DEF Agrees
  <2>3. es[k].var \in nested' \/ (got # <<>> /\ got[Len(got)].id = es[k].id)
    <3>1. CASE stack = <<>>
      BY <3>1, <2>2, <1>9, <1>14
    <3>2. CASE stack # <<>>
      BY <3>2, <2>2, <1>1, <1>5, <1>6 DEF Agrees
    <3> QED BY <3>1, <3>2
  <2> QED BY <2>1, <2>2, <2>3
<1>17. \A m \in DOMAIN got : got[m].write =>
         \/ got[m].var \in nested'
         \/ \E k \in DOMAIN es : es[k].store /\ es[k].id = got[m].id
  <2> TAKE m \in DOMAIN got
  <2>1. got # <<>>
    OBVIOUS
  <2>2. got[m] \in Elements(a.rhs) \cup {r}
    <3>1. got[m] \in Elements(got)
      BY DEF Elements
    <3> QED BY <3>1, <2>1, <1>9, <1>14
  <2>3. CASE got[m] = r
    BY <2>3, <1>13
  <2>4. CASE got[m] \in Elements(a.rhs)
    BY <2>4, <1>1, <1>5
  <2> QED BY <2>2, <2>3, <2>4
<1>18. GoesWith(ctx, got, es, fresh)
  <2>1. \A q \in fresh : FALSE
    BY <1>12
  <2>2. events' \in Nat /\ events' >= events
    BY <1>1, <1>2
  <2>3. nested \subseteq nested' /\ readVariables \subseteq readVariables'
    BY <1>1
  <2>4. /\ variableUsages' \in [Variables -> SUBSET CodePathIds]
        /\ \A w \in Variables : IsFiniteSet(variableUsages'[w])
                                /\ variableUsages[w] \subseteq variableUsages'[w]
    BY <1>1 DEF VisitInv, UsagesOK
  <2>5. Happens(es)
    BY <1>10, <1>12
  <2> QED
    BY <2>1, <2>2, <2>3, <2>4, <2>5, <1>1, <1>11, <1>13, <1>14, <1>15, <1>16, <1>17, Zenon
    DEF GoesWith, Processed
<1>19. StackOK(ctx.assignments, nested')
  <2>1. stack # <<>> => \A q \in Elements(refs) : q.write => q.var \in nested
    BY <1>5, <1>6, <1>9
  <2> QED BY <2>1, <1>1, <1>5, <1>11 DEF Processed
<1> QED BY <1>1, <1>18, <1>19, TopStep

-----------------------------------------------------------------------------
(* A code path event: no reference moves and nothing is evaluated.         *)
LEMMA EventStep ==
  ASSUME CollectInv, VisitInv, PathsOK',
         UNCHANGED <<nextSegments, codePathOf, references, readVariables, variableUsages, events,
                     trace, nested>>,
         \A c \in DOMAIN codePathStack' :
           \/ /\ c \in DOMAIN codePathStack /\ codePathStack'[c].id = codePathStack[c].id
              /\ codePathStack'[c].assignments = codePathStack[c].assignments
           \/ codePathStack'[c].assignments = <<>>,
         \A c \in DOMAIN codePathStack : codePathStack[c].assignments # <<>> =>
           /\ c \in DOMAIN codePathStack'
           /\ codePathStack'[c].assignments = codePathStack[c].assignments,
         \A t : IsOpen(t)' => IsOpen(t),
         \A c \in DOMAIN codePathStack, s \in Segments :
           /\ codePathStack[c].id = codePathOf[1] /\ codePathStack[c].assignments # <<>>
           /\ Reaches(s, codePathStack[c])
           => Reaches(s, codePathStack[c])'
  PROVE  VisitInv'
<1>1. \A r : IsRef(r)' => IsRef(r)
  <2> SUFFICES ASSUME NEW r, NEW c \in DOMAIN codePathStack',
                      r \in KeptRefs(codePathStack'[c].assignments)
               PROVE  IsRef(r)
    BY DEF IsRef
  <2>1. codePathStack'[c].assignments # <<>>
    BY NothingKept
  <2> QED BY <2>1 DEF IsRef
<1>2. RefsAgree'
  BY <1>1 DEF VisitInv, RefsAgree
<1>3. NestedOK'
  <2>1. StackOK(<<>>, nested)
    BY DEF StackOK
  <2> QED BY <2>1 DEF VisitInv, NestedOK
<1>4. UsagesOK'
  BY DEF VisitInv, UsagesOK
<1>5. \A v \in Variables : Good(v)' <=> Good(v)
  BY DEF Good
<1>6. MainOnly'
  <2> SUFFICES ASSUME NEW v \in Variables, Good(v)
               PROVE  /\ \A s \in Segments : ~ Main(s) =>
                           /\ \A e \in Elements(trace[s]) : e.var # v
                           /\ \A r \in Elements(references[s]) : r.var # v
                      /\ \A c \in DOMAIN codePathStack' : codePathStack'[c].id # codePathOf[1] =>
                           \A r \in KeptRefs(codePathStack'[c].assignments) : r.var # v
    BY <1>5 DEF MainOnly, Main
  <2>1. \A s \in Segments : ~ Main(s) => /\ \A e \in Elements(trace[s]) : e.var # v
                                         /\ \A r \in Elements(references[s]) : r.var # v
    BY DEF VisitInv, MainOnly
  <2>2. ASSUME NEW c \in DOMAIN codePathStack', codePathStack'[c].id # codePathOf[1],
               NEW r \in KeptRefs(codePathStack'[c].assignments)
        PROVE  r.var # v
    <3>1. codePathStack'[c].assignments # <<>>
      BY <2>2, NothingKept
    <3> QED BY <3>1, <2>2 DEF VisitInv, MainOnly
  <2> QED BY <2>1, <2>2
<1>7. Ordered'
  BY <1>5 DEF VisitInv, Ordered
<1>8. Carried'
  <2> SUFFICES ASSUME NEW v \in Variables, Good(v), NEW s \in Segments, NEW e \in Elements(trace[s]),
                      e.var = v, e.id \notin Ids(references[s])
               PROVE  OnTheWay(e.id, s)' \/ (Later(v, s)' /\ ~ IsOpen(s)')
    BY <1>5 DEF Carried
  <2>1. CASE OnTheWay(e.id, s)
    <3>1. /\ 1 \in DOMAIN codePathStack /\ codePathStack[1].id = codePathOf[1]
          /\ Reaches(s, codePathStack[1])
          /\ \E r \in KeptRefs(codePathStack[1].assignments) : r.id = e.id
      BY <2>1, WayInProgram DEF VisitInv
    <3>2. codePathStack[1].assignments # <<>>
      BY <3>1, NothingKept
    <3> QED BY <3>1, <3>2 DEF OnTheWay
  <2>2. CASE Later(v, s) /\ ~ IsOpen(s)
    <3>1. \A t : gen(t)' = gen(t)
      BY DEF gen
    <3>2. \A Y \in SUBSET Segments : Closed(v, Y)' => Closed(v, Y)
      BY <3>1 DEF Closed
    <3>3. Later(v, s)'
      BY <2>2, <3>2 DEF Later
    <3> QED BY <3>3, <2>2
  <2> QED BY <2>1, <2>2 DEF VisitInv, Carried
<1> QED BY <1>2, <1>3, <1>4, <1>6, <1>7, <1>8 DEF VisitInv

(* The next event is taken.                                                *)
LEMMA EventTaken ==
  ASSUME CollectInv, PathsOK, plan # <<>>, plan' = Tail(plan),
         UNCHANGED <<codePathOf, trace, references>>
  PROVE  /\ Head(plan) = plan[1] /\ 1 \in DOMAIN plan
         /\ \A s : InFuture(s)' => InFuture(s) /\ s \notin Head(plan).segments
         /\ \A s : s \in Head(plan).segments => InFuture(s)
         /\ \A i, j \in DOMAIN plan' : i # j => plan'[i].segments \cap plan'[j].segments = {}
         /\ \A i \in DOMAIN plan' : plan'[i].type = "start" =>
              /\ \A s \in plan'[i].segments : codePathOf[s] = plan'[i].id
              /\ plan'[i].id # codePathOf[1]
         /\ \A s \in Segments : InFuture(s)' => trace'[s] = <<>> /\ references'[s] = <<>>
<1>1. plan \in Seq(PlanEvent)
  BY DEF CollectInv, VisitTypeOK
<1>2. /\ Head(plan) = plan[1] /\ 1 \in DOMAIN plan
      /\ \A i \in DOMAIN plan' : i + 1 \in DOMAIN plan /\ i + 1 # 1 /\ plan'[i] = plan[i + 1]
      /\ \A i, j \in DOMAIN plan' : i # j => i + 1 # j + 1
  BY <1>1
<1>3. /\ \A i, j \in DOMAIN plan : i # j => plan[i].segments \cap plan[j].segments = {}
      /\ \A i \in DOMAIN plan : plan[i].type = "start" =>
           /\ \A s \in plan[i].segments : codePathOf[s] = plan[i].id
           /\ plan[i].id = codePathOf[1] => i = 1 /\ codePathStack = <<>>
      /\ \A s \in Segments : InFuture(s) => trace[s] = <<>> /\ references[s] = <<>>
  BY DEF PathsOK
<1>4. ASSUME NEW s, InFuture(s)' PROVE InFuture(s) /\ s \notin Head(plan).segments
  <2>1. PICK i \in DOMAIN plan' : s \in plan'[i].segments
    BY <1>4 DEF InFuture
  <2>2. s \in plan[i + 1].segments /\ i + 1 \in DOMAIN plan /\ i + 1 # 1
    BY <2>1, <1>2
  <2>3. s \notin plan[1].segments
    BY <2>2, <1>2, <1>3
  <2> QED BY <2>2, <2>3, <1>2 DEF InFuture
<1>5. \A s : s \in Head(plan).segments => InFuture(s)
  BY <1>2 DEF InFuture
<1>6. \A i, j \in DOMAIN plan' : i # j => plan'[i].segments \cap plan'[j].segments = {}
  BY <1>2, <1>3
<1>7. \A i \in DOMAIN plan' : plan'[i].type = "start" =>
        /\ \A s \in plan'[i].segments : codePathOf[s] = plan'[i].id
        /\ plan'[i].id # codePathOf[1]
  BY <1>2, <1>3
<1>8. \A s \in Segments : InFuture(s)' => trace'[s] = <<>> /\ references'[s] = <<>>
  BY <1>3, <1>4
<1> QED BY <1>2, <1>4, <1>5, <1>6, <1>7, <1>8

(* Segments that are not to come any more do not end the way back.         *)
LEMMA BackEarlier ==
  ASSUME UNCHANGED <<nextSegments, codePathOf, references>>, \A t : InFuture(t)' => InFuture(t),
         NEW Y, Back(Y)'
  PROVE  Back(Y)
BY DEF Back, Main

LEMMA VisitStart ==
  ASSUME CollectInv, CollectInv', VisitInv, UNCHANGED <<nextSegments, prevSegments, codePathOf>>,
         StartCodePath
  PROVE  VisitInv'
<1>1. /\ plan # <<>> /\ Head(plan).type = "start" /\ plan' = Tail(plan)
      /\ UNCHANGED <<references, readVariables, variableUsages, events, trace, nested>>
      /\ codePathStack \in Seq(PathContext)
  BY DEF StartCodePath, CollectInv, VisitTypeOK
<1>2. PICK ctx : ctx = [id |-> Head(plan).id, assignments |-> <<>>, forks |-> <<>>,
                        segments |-> Head(plan).segments]
  OBVIOUS
<1>3. ctx.id = Head(plan).id /\ ctx.assignments = <<>> /\ ctx.segments = Head(plan).segments
  BY <1>2
<1>4. PICK n \in Nat : n = Len(codePathStack) /\ DOMAIN codePathStack = 1 .. n
  BY <1>1
<1>5. /\ DOMAIN codePathStack' = DOMAIN codePathStack \cup {n + 1}
      /\ codePathStack'[n + 1] = ctx
      /\ \A c \in DOMAIN codePathStack : codePathStack'[c] = codePathStack[c]
  <2>1. codePathStack' = Append(codePathStack, ctx)
    BY <1>2 DEF StartCodePath
  <2> QED BY <2>1, <1>1, <1>4
<1>6. PathsOK
  BY DEF VisitInv
<1>7. /\ Head(plan) = plan[1] /\ 1 \in DOMAIN plan
      /\ \A s : InFuture(s)' => InFuture(s) /\ s \notin Head(plan).segments
      /\ \A s : s \in Head(plan).segments => InFuture(s)
      /\ \A i, j \in DOMAIN plan' : i # j => plan'[i].segments \cap plan'[j].segments = {}
      /\ \A i \in DOMAIN plan' : plan'[i].type = "start" =>
           /\ \A s \in plan'[i].segments : codePathOf[s] = plan'[i].id
           /\ plan'[i].id # codePathOf[1]
      /\ \A s \in Segments : InFuture(s)' => trace'[s] = <<>> /\ references'[s] = <<>>
  BY <1>1, <1>6, EventTaken
<1>8. \A c \in DOMAIN codePathStack' :
        /\ codePathStack'[c].id = codePathOf[1] => c = 1
        /\ \A s \in codePathStack'[c].segments :
             codePathOf[s] = codePathStack'[c].id /\ ~ InFuture(s)'
  <2> TAKE c \in DOMAIN codePathStack'
  <2>1. CASE c \in DOMAIN codePathStack
    BY <2>1, <1>5, <1>6, <1>7 DEF PathsOK
  <2>2. CASE c = n + 1
    <3>1. /\ \A s \in Head(plan).segments : codePathOf[s] = Head(plan).id
          /\ Head(plan).id = codePathOf[1] => codePathStack = <<>>
      BY <1>1, <1>6, <1>7 DEF PathsOK
    <3>2. codePathStack = <<>> => n = 0
      BY <1>4
    <3> QED BY <2>2, <3>1, <3>2, <1>3, <1>5, <1>7
  <2> QED BY <2>1, <2>2, <1>5
<1>9. PathsOK'
  BY <1>6, <1>7, <1>8 DEF PathsOK
<1>10. \A t : IsOpen(t)' => IsOpen(t)
  BY <1>3, <1>5, <1>7 DEF IsOpen
<1>11. \A c \in DOMAIN codePathStack, s \in Segments :
         Reaches(s, codePathStack[c]) => Reaches(s, codePathStack[c])'
  <2>1. \A Y \in SUBSET Segments : Back(Y)' => Back(Y)
    BY <1>1, <1>7, BackEarlier
  <2> QED BY <2>1, <1>5 DEF Reaches, Ahead
<1>12. \A c \in DOMAIN codePathStack' :
         \/ /\ c \in DOMAIN codePathStack /\ codePathStack'[c].id = codePathStack[c].id
            /\ codePathStack'[c].assignments = codePathStack[c].assignments
         \/ codePathStack'[c].assignments = <<>>
  BY <1>3, <1>5
<1>13. \A c \in DOMAIN codePathStack : codePathStack[c].assignments # <<>> =>
         /\ c \in DOMAIN codePathStack'
         /\ codePathStack'[c].assignments = codePathStack[c].assignments
  BY <1>5
<1> QED BY <1>1, <1>9, <1>10, <1>11, <1>12, <1>13, EventStep

LEMMA VisitEnd ==
  ASSUME CollectInv, CollectInv', VisitInv, UNCHANGED <<nextSegments, prevSegments, codePathOf>>,
         EndCodePath
  PROVE  VisitInv'
<1>1. /\ plan # <<>> /\ plan' = Tail(plan) /\ Head(plan).type = "end"
      /\ UNCHANGED <<references, readVariables, variableUsages, events, trace, nested>>
      /\ codePathStack \in Seq(PathContext) /\ Len(codePathStack) \in Nat
      /\ assignmentStack = <<>> /\ codePathStack' = Front(codePathStack)
  BY DEF EndCodePath, CollectInv, VisitTypeOK
<1>2. Len(codePathStack) > 0
  BY <1>1, BracketsTail DEF CollectInv, VisitTypeOK
<1>3. PICK n \in Nat \ {0} : n = Len(codePathStack) /\ DOMAIN codePathStack = 1 .. n
  BY <1>1, <1>2
<1>4. DOMAIN codePathStack' = 1 .. n - 1 /\ \A c \in 1 .. n - 1 : codePathStack'[c] = codePathStack[c]
  BY <1>1, <1>3 DEF Front
<1>5. /\ DOMAIN codePathStack = DOMAIN codePathStack' \cup {n}
      /\ \A c \in DOMAIN codePathStack' : c \in DOMAIN codePathStack /\ codePathStack'[c] = codePathStack[c]
      /\ codePathStack[n].assignments = <<>>
  BY <1>1, <1>3, <1>4 DEF assignmentStack, Context
<1>6. PathsOK
  BY DEF VisitInv
<1>7. /\ \A s : InFuture(s)' => InFuture(s)
      /\ \A i, j \in DOMAIN plan' : i # j => plan'[i].segments \cap plan'[j].segments = {}
      /\ \A i \in DOMAIN plan' : plan'[i].type = "start" =>
           /\ \A s \in plan'[i].segments : codePathOf[s] = plan'[i].id
           /\ plan'[i].id # codePathOf[1]
      /\ \A s \in Segments : InFuture(s)' => trace'[s] = <<>> /\ references'[s] = <<>>
  BY <1>1, <1>6, EventTaken
<1>8. \A c \in DOMAIN codePathStack' :
        /\ codePathStack'[c].id = codePathOf[1] => c = 1
        /\ \A s \in codePathStack'[c].segments :
             codePathOf[s] = codePathStack'[c].id /\ ~ InFuture(s)'
  BY <1>5, <1>6, <1>7 DEF PathsOK
<1>9. PathsOK'
  BY <1>6, <1>7, <1>8 DEF PathsOK
<1>10. \A t : IsOpen(t)' => IsOpen(t)
  BY <1>5, <1>7 DEF IsOpen
<1>11. \A c \in DOMAIN codePathStack' : codePathStack'[c].id = codePathStack[c].id
                                        /\ codePathStack'[c].assignments = codePathStack[c].assignments
  BY <1>5
<1>12. \A c \in DOMAIN codePathStack : codePathStack[c].assignments # <<>> => c \in DOMAIN codePathStack'
  BY <1>5
<1>13. \A c \in DOMAIN codePathStack, s \in Segments :
         /\ codePathStack[c].id = codePathOf[1] /\ codePathStack[c].assignments # <<>>
         /\ Reaches(s, codePathStack[c])
         => Reaches(s, codePathStack[c])'
  <2>1. \A Y \in SUBSET Segments : Back(Y)' => Back(Y)
    BY <1>1, <1>7, BackEarlier
  <2>2. \A c \in DOMAIN codePathStack, s \in Segments :
          c \in DOMAIN codePathStack' /\ Reaches(s, codePathStack[c]) => Reaches(s, codePathStack[c])'
    BY <2>1, <1>5 DEF Reaches, Ahead
  <2> QED BY <2>2, <1>12
<1> QED BY <1>1, <1>5, <1>9, <1>10, <1>11, <1>12, <1>13, EventStep

(* The current segments of a code path change.  What was on the way to     *)
(* them is on the way to the new ones.                                     *)
LEMMA AheadKept ==
  ASSUME CollectInv, VisitInv, codePathStack # <<>>, plan # <<>>, plan' = Tail(plan),
         UNCHANGED <<nextSegments, codePathOf, references, trace>>,
         NEW type \in SegmentType, Context.id = codePathOf[1], assignmentStack # <<>>,
         type # "statement", Head(plan).segments \subseteq Segments,
         \A s \in Head(plan).segments : codePathOf[s] = Context.id,
         type \in {"other", "join"} => LeavesBranch,
         type \in {"fork", "join", "on"} => InExpression,
         type = "join" => LeadTo(Top(Context.forks), Head(plan).segments),
         NEW ctx, ctx.assignments = assignmentStack, ctx.segments = Head(plan).segments,
         ctx.forks = ForksThen(type),
         NEW Y \in SUBSET Segments, Ahead(ctx) \subseteq Y, Back(Y)'
  PROVE  Ahead(Context) \subseteq Y
<1>1. PICK H : H = Head(plan).segments
  OBVIOUS
<1>2. /\ \A s : InFuture(s)' => s \notin H
      /\ \A s \in H : InFuture(s)
  BY <1>1, EventTaken DEF VisitInv
<1>3. \A s \in H : references[s] = <<>>
  BY <1>1, <1>2 DEF VisitInv, PathsOK
<1>4. H \subseteq Y /\ \A s \in H : Main(s) /\ ~ InFuture(s)'
  BY <1>1, <1>2 DEF Ahead, Main
<1>5. ASSUME NEW S \in SUBSET Segments, LeadTo(S, H) PROVE S \subseteq Y
  BY <1>3, <1>4, <1>5 DEF LeadTo, Back, Main
<1>6. PICK f, o, d : f = Context.forks /\ o = assignmentStack[1].opened /\ d = Len(f)
  OBVIOUS
<1>7. Context \in PathContext /\ assignmentStack \in Seq(Assignment)
  BY ContextFacts
<1>8. /\ f \in Seq(SUBSET Segments) /\ d \in Nat /\ DOMAIN f = 1 .. d
      /\ Context.segments \in SUBSET Segments /\ o \in Nat /\ 1 \in DOMAIN assignmentStack
  <2>1. 1 \in DOMAIN assignmentStack /\ assignmentStack[1] \in Assignment
    BY <1>7
  <2>2. f \in Seq(SUBSET Segments) /\ Context.segments \in SUBSET Segments
    BY <1>6, <1>7 DEF PathContext
  <2>3. o \in Nat
    BY <2>1, <1>6 DEF Assignment
  <2> QED BY <2>1, <2>2, <2>3, <1>6
<1>9. Ahead(Context) = Context.segments \cup UNION {f[i] : i \in o + 1 .. d}
  BY <1>6 DEF Ahead, assignmentStack
<1>10. \A i \in o + 1 .. Len(ctx.forks) : ctx.forks[i] \subseteq Y
  BY <1>6 DEF Ahead
<1>11. CASE type \in {"fork", "on"}
  <2>1. Context.segments \subseteq Y
    BY <1>1, <1>5, <1>8, <1>11 DEF InExpression
  <2>2. \A i \in 1 .. d : i \in 1 .. Len(ctx.forks) /\ ctx.forks[i] = f[i]
    <3>1. ctx.forks = f \/ ctx.forks = Append(f, {})
      BY <1>6, <1>11 DEF ForksThen
    <3> QED BY <3>1, <1>8
  <2>3. \A i \in o + 1 .. d : f[i] \subseteq Y
    BY <2>2, <1>8, <1>10
  <2> QED BY <2>1, <2>3, <1>9
<1>12. CASE type \in {"other", "join"}
  <2>1. f # <<>> /\ o < d
    BY <1>6, <1>8, <1>12 DEF LeavesBranch
  <2>2. /\ Front(f) \in Seq(SUBSET Segments) /\ Len(Front(f)) = d - 1
        /\ \A i \in 1 .. d - 1 : Front(f)[i] = f[i]
        /\ d - 1 \in Nat /\ d \in 1 .. d
    BY <2>1, <1>6, <1>8 DEF Front
  <2>3. Top(f) = f[d] /\ f[d] \in SUBSET Segments
    BY <2>2, <1>6, <1>8 DEF Top
  <2>4. CASE type = "other"
    <3>1. PICK g : g = Top(f) \cup Context.segments
      OBVIOUS
    <3>2. ctx.forks = Append(Front(f), g)
      BY <2>4, <3>1, <1>6 DEF ForksThen
    <3>3. /\ Len(ctx.forks) = d /\ ctx.forks[d] = g
          /\ \A i \in 1 .. d - 1 : ctx.forks[i] = f[i]
      BY <3>2, <2>2
    <3>4. g \subseteq Y
      BY <3>3, <2>1, <1>8, <1>10
    <3>5. \A i \in o + 1 .. d : f[i] \subseteq Y
      <4> TAKE i \in o + 1 .. d
      <4>1. CASE i = d
        BY <4>1, <3>1, <3>4, <2>3
      <4>2. CASE i # d
        BY <4>2, <3>3, <1>8, <1>10
      <4> QED BY <4>1, <4>2
    <3> QED BY <3>1, <3>4, <3>5, <1>9
  <2>5. CASE type = "join"
    <3>1. Context.segments \subseteq Y
      BY <1>1, <1>5, <1>8, <2>5 DEF InExpression
    <3>2. f[d] \subseteq Y
      BY <2>3, <2>5, <1>1, <1>5, <1>6
    <3>3. ctx.forks = Front(f)
      BY <2>5, <1>6 DEF ForksThen
    <3>4. \A i \in o + 1 .. d : f[i] \subseteq Y
      <4> TAKE i \in o + 1 .. d
      <4>1. CASE i = d
        BY <4>1, <3>2
      <4>2. CASE i # d
        BY <4>2, <3>3, <2>2, <1>8, <1>10
      <4> QED BY <4>1, <4>2
    <3> QED BY <3>1, <3>4, <1>9
  <2> QED BY <2>4, <2>5, <1>12
<1> QED BY <1>11, <1>12 DEF SegmentType

LEMMA VisitNextSegments ==
  ASSUME CollectInv, CollectInv', VisitInv, UNCHANGED <<nextSegments, prevSegments, codePathOf>>,
         Fork \/ OtherBranch \/ JoinBranches \/ GoesOn \/ NextStatement
  PROVE  VisitInv'
<1>1. PICK type \in SegmentType :
        /\ NextSegments(type, ForksThen(type)) /\ ForksThen(type) \in Seq(SUBSET Segments)
        /\ codePathStack # <<>>
        /\ type = "statement" => assignmentStack = <<>> /\ Context.forks = <<>>
        /\ type \in {"other", "join"} => LeavesBranch
        /\ type \in {"fork", "join", "on"} => InExpression
        /\ type = "join" => LeadTo(Top(Context.forks), Head(plan).segments)
  BY SegmentsTaken
<1>2. /\ plan # <<>> /\ plan' = Tail(plan) /\ Head(plan).type = type
      /\ \A s \in Head(plan).segments : codePathOf[s] = Context.id
      /\ UNCHANGED <<references, readVariables, variableUsages, events, trace, nested>>
  BY <1>1 DEF NextSegments
<1>3. PICK ctx : ctx = [Context EXCEPT !.segments = Head(plan).segments, !.forks = ForksThen(type)]
  OBVIOUS
<1>4. /\ ctx.id = Context.id /\ ctx.assignments = assignmentStack
      /\ ctx.segments = Head(plan).segments /\ ctx.forks = ForksThen(type)
  <2>1. Context \in PathContext
    BY <1>1, ContextFacts
  <2> QED BY <2>1, <1>3 DEF PathContext, assignmentStack
<1>5. codePathStack' = [codePathStack EXCEPT ![Len(codePathStack)] = ctx]
  BY <1>1, <1>3 DEF NextSegments, SetContext
<1>6. PICK n : n = Len(codePathStack)
  OBVIOUS
<1>7. /\ n \in DOMAIN codePathStack /\ Context = codePathStack[n]
      /\ DOMAIN codePathStack' = DOMAIN codePathStack /\ codePathStack'[n] = ctx
      /\ \A c \in DOMAIN codePathStack : c # n => codePathStack'[c] = codePathStack[c]
  BY <1>1, <1>5, <1>6, TopReplaced
<1>8. PathsOK
  BY DEF VisitInv
<1>9. /\ \A s : InFuture(s)' => InFuture(s) /\ s \notin Head(plan).segments
      /\ \A s : s \in Head(plan).segments => InFuture(s)
      /\ \A i, j \in DOMAIN plan' : i # j => plan'[i].segments \cap plan'[j].segments = {}
      /\ \A i \in DOMAIN plan' : plan'[i].type = "start" =>
           /\ \A s \in plan'[i].segments : codePathOf[s] = plan'[i].id
           /\ plan'[i].id # codePathOf[1]
      /\ \A s \in Segments : InFuture(s)' => trace'[s] = <<>> /\ references'[s] = <<>>
  BY <1>2, <1>8, EventTaken
<1>10. \A c \in DOMAIN codePathStack' :
         /\ codePathStack'[c].id = codePathOf[1] => c = 1
         /\ \A s \in codePathStack'[c].segments :
              codePathOf[s] = codePathStack'[c].id /\ ~ InFuture(s)'
  <2> TAKE c \in DOMAIN codePathStack'
  <2>1. CASE c = n
    BY <2>1, <1>2, <1>4, <1>7, <1>8, <1>9 DEF PathsOK
  <2>2. CASE c # n
    BY <2>2, <1>7, <1>8, <1>9 DEF PathsOK
  <2> QED BY <2>1, <2>2
<1>11. PathsOK'
  BY <1>8, <1>9, <1>10 DEF PathsOK
<1>12. \A t : IsOpen(t)' => IsOpen(t)
  <2> SUFFICES ASSUME NEW t, IsOpen(t)' PROVE IsOpen(t)
    OBVIOUS
  <2>1. CASE InFuture(t)'
    BY <2>1, <1>9 DEF IsOpen
  <2>2. CASE \E c \in DOMAIN codePathStack : t \in codePathStack'[c].segments
    <3>1. PICK c \in DOMAIN codePathStack : t \in codePathStack'[c].segments
      BY <2>2
    <3>2. CASE c = n
      BY <3>1, <3>2, <1>4, <1>7, <1>9 DEF IsOpen
    <3>3. CASE c # n
      BY <3>1, <3>3, <1>7 DEF IsOpen
    <3> QED BY <3>2, <3>3
  <2> QED BY <2>1, <2>2, <1>7 DEF IsOpen
<1>13. \A c \in DOMAIN codePathStack : codePathStack'[c].id = codePathStack[c].id
                                       /\ codePathStack'[c].assignments = codePathStack[c].assignments
  BY <1>4, <1>7 DEF assignmentStack
<1>14. ASSUME NEW c \in DOMAIN codePathStack, NEW s \in Segments, codePathStack[c].id = codePathOf[1],
              codePathStack[c].assignments # <<>>, Reaches(s, codePathStack[c])
       PROVE  Reaches(s, codePathStack[c])'
  <2>1. \A Y \in SUBSET Segments : Back(Y)' => Back(Y)
    BY <1>2, <1>9, BackEarlier
  <2>2. CASE c = n
    <3> SUFFICES ASSUME NEW Y \in SUBSET Segments, Ahead(ctx) \subseteq Y, Back(Y)' PROVE s \in Y
      BY <2>2, <1>7 DEF Reaches, Ahead
    <3>1. Context.id = codePathOf[1] /\ assignmentStack # <<>>
      BY <2>2, <1>7, <1>14 DEF assignmentStack
    <3>2. type # "statement"
      BY <3>1, <1>1
    <3>3. Head(plan).segments \subseteq Segments
      <4>1. Head(plan) \in PlanEvent
        BY <1>2 DEF CollectInv, VisitTypeOK
      <4> QED BY <4>1, <1>2, EventFacts
    <3>4. Ahead(Context) \subseteq Y
      BY <3>1, <3>2, <3>3, <1>1, <1>2, <1>4, AheadKept
    <3> QED BY <3>4, <2>1, <2>2, <1>7, <1>14 DEF Reaches
  <2>3. CASE c # n
    BY <2>1, <2>3, <1>7, <1>14 DEF Reaches, Ahead
  <2> QED BY <2>2, <2>3
<1> QED BY <1>2, <1>7, <1>11, <1>12, <1>13, <1>14, EventStep

-----------------------------------------------------------------------------
LEMMA VisitStarts == DSInit => VisitInv
<1> SUFFICES ASSUME DSInit PROVE VisitInv
  OBVIOUS
<1>1. /\ codePathStack = <<>> /\ events = 0 /\ readVariables = {} /\ nested = {}
      /\ references = [s \in Segments |-> <<>>] /\ trace = [s \in Segments |-> <<>>]
      /\ variableUsages = [v \in Variables |-> {codePathOf[1]}]
      /\ codePathOf \in [Segments -> CodePathIds]
  BY DEF DSInit, VisitInit, PlanOK
<1>2. DOMAIN codePathStack = {} /\ \A s \in Segments : Elements(references[s]) = {} /\ DOMAIN trace[s] = {}
  BY <1>1, NothingKept
<1>3. \A r : ~ IsRef(r)
  BY <1>2 DEF IsRef
<1>4. RefsAgree
  BY <1>2, <1>3 DEF RefsAgree
<1>5. NestedOK
  BY <1>2 DEF NestedOK
<1>6. UsagesOK
  <2>1. 1 \in Segments
    BY SegmentsAssumption DEF Segments
  <2>2. codePathOf[1] \in CodePathIds /\ IsFiniteSet({codePathOf[1]})
    BY <1>1, <2>1, FS_Singleton
  <2> QED BY <2>2, <1>1 DEF UsagesOK
<1>7. PathsOK
  <2>1. /\ \A i, j \in DOMAIN plan : i # j => plan[i].segments \cap plan[j].segments = {}
        /\ \A i \in DOMAIN plan : plan[i].type = "start" =>
             /\ \A s \in plan[i].segments : codePathOf[s] = plan[i].id
             /\ plan[i].id = codePathOf[1] <=> i = 1
    BY DEF DSInit, PlanOK
  <2> QED BY <2>1, <1>1, <1>2 DEF PathsOK
<1>8. \A s \in Segments : Elements(trace[s]) = {} /\ DOMAIN references[s] = {}
  BY <1>1, NothingKept
<1>9. MainOnly
  BY <1>2, <1>8 DEF MainOnly
<1>10. Ordered
  BY <1>2, <1>8 DEF Ordered, Order
<1>11. Carried
  BY <1>8 DEF Carried
<1> QED BY <1>4, <1>5, <1>6, <1>7, <1>9, <1>10, <1>11 DEF VisitInv

LEMMA VisitSame ==
  ASSUME VisitInv,
         UNCHANGED <<nextSegments, codePathOf, references, plan, codePathStack, readVariables,
                     variableUsages, events, trace, nested>>
  PROVE  VisitInv'
<1>1. /\ \A r : IsRef(r)' <=> IsRef(r)
      /\ \A v : Good(v)' <=> Good(v)
      /\ \A t : (InFuture(t)' <=> InFuture(t)) /\ (Main(t)' <=> Main(t)) /\ (IsOpen(t)' <=> IsOpen(t))
      /\ \A t : gen(t)' = gen(t)
  BY DEF IsRef, Good, InFuture, Main, IsOpen, gen
<1>2. RefsAgree'
  BY <1>1 DEF VisitInv, RefsAgree
<1>3. NestedOK' /\ UsagesOK'
  BY DEF VisitInv, NestedOK, UsagesOK
<1>4. PathsOK'
  BY <1>1 DEF VisitInv, PathsOK
<1>5. MainOnly' /\ Ordered'
  BY <1>1 DEF VisitInv, MainOnly, Ordered
<1>6. Carried'
  <2>1. \A Y : (Back(Y)' <=> Back(Y))
    BY <1>1 DEF Back
  <2>2. \A v, Y : Closed(v, Y)' <=> Closed(v, Y)
    BY <1>1 DEF Closed
  <2>3. \A id, s : OnTheWay(id, s) => OnTheWay(id, s)'
    BY <2>1 DEF OnTheWay, Reaches, Ahead
  <2>4. \A v, s : Later(v, s) => Later(v, s)'
    BY <2>2 DEF Later
  <2> QED BY <2>3, <2>4, <1>1 DEF VisitInv, Carried
<1> QED BY <1>2, <1>3, <1>4, <1>5, <1>6 DEF VisitInv

LEMMA VisitHolds == DSSpec => []VisitInv
<1>1. CollectInv /\ CollectInv' /\ VisitInv /\ [DSNext]_dsVars => VisitInv'
  <2> SUFFICES ASSUME CollectInv, CollectInv', VisitInv, [DSNext]_dsVars PROVE VisitInv'
    OBVIOUS
  <2>1. CASE UNCHANGED <<nextSegments, codePathOf, references, plan, codePathStack, readVariables,
                         variableUsages, events, trace, nested>>
    BY <2>1, VisitSame
  <2>2. CASE DSNext /\ Visit
    <3>1. UNCHANGED <<nextSegments, prevSegments, codePathOf>>
      BY <2>2 DEF DSNext
    <3>2. CASE StartCodePath \/ EndCodePath \/ ExitAssignment
      BY <3>1, <3>2, VisitStart, VisitEnd, VisitExit
    <3>3. CASE Fork \/ OtherBranch \/ JoinBranches \/ GoesOn \/ NextStatement
      BY <3>1, <3>3, VisitNextSegments
    <3>4. CASE \E v \in Variables, update \in BOOLEAN : Identifier(v, update)
      BY <3>1, <3>4, VisitIdentifier
    <3>5. CASE \E v \in Variables, compound, exempt \in BOOLEAN : EnterAssignment(v, compound, exempt)
      BY <3>1, <3>5, VisitEnter
    <3> QED BY <2>2, <3>2, <3>3, <3>4, <3>5, Zenon DEF Visit
  <2> QED BY <2>1, <2>2 DEF DSNext, dsVars, visitVars
<1> QED BY <1>1, VisitStarts, CollectHolds, PTL DEF DSSpec

-----------------------------------------------------------------------------
(* lva() starts when the file was visited: until then every segment is on  *)
(* its worklist.                                                           *)
LEMMA VisitedClosed ==
  ASSUME CollectInv, Visited
  PROVE  codePathStack = <<>> /\ DOMAIN codePathStack = {} /\ DOMAIN plan = {}
<1>1. plan = <<>> /\ Len(plan) = 0 /\ codePathStack \in Seq(PathContext)
  BY DEF Visited, CollectInv, VisitTypeOK
<1>2. PICK open : Brackets(plan, open, Len(codePathStack))
  BY DEF CollectInv, VisitTypeOK
<1>3. Len(codePathStack) = 0
  BY <1>1, <1>2 DEF Brackets
<1> QED BY <1>1, <1>3

LiveInv == Settled /\ (~ Visited => Elements(liveWork) = Segments)

LEMMA NotVisited ==
  ASSUME CollectInv, Visit
  PROVE  ~ Visited
<1> SUFFICES ASSUME Visited PROVE FALSE
  OBVIOUS
<1>1. plan = <<>> /\ codePathStack = <<>>
  BY VisitedClosed DEF Visited
<1> QED
  BY <1>1 DEF Visit, StartCodePath, Fork, OtherBranch, JoinBranches, GoesOn, NextStatement, EndCodePath,
              NextSegments, ExitAssignment, Identifier, EnterAssignment, CanVisit

LEMMA LiveHolds == DSSpec => []LiveInv
<1>1. DSInit => LiveInv
  <2> SUFFICES ASSUME DSInit PROVE LiveInv
    OBVIOUS
  <2>1. GraphOK /\ LiveInit /\ ReferencesOK
    BY EmptySeq DEF DSInit, VisitInit, ReferencesOK
  <2> QED BY <2>1, LiveStarts DEF LiveInv, Settled, LiveTyped
<1>2. CollectInv /\ CollectInv' /\ LiveInv /\ [DSNext]_dsVars => LiveInv'
  <2> SUFFICES ASSUME CollectInv, CollectInv', LiveInv, [DSNext]_dsVars PROVE LiveInv'
    OBVIOUS
  <2>1. CASE DSNext /\ Visit
    <3>1. UNCHANGED <<nextSegments, prevSegments, liveWork, liveIn, liveOut>> \/ Propagate \/ Execute
      BY <2>1 DEF DSNext, liveVars
    <3>2. ~ Visited
      BY <2>1, NotVisited
    <3>3. UNCHANGED <<liveWork, liveIn, liveOut>>
      BY <2>1, <3>2 DEF DSNext, liveVars, Execute, EvaluateNext, GoOn, CallFunction, Executing
    <3>4. LiveTyped'
      BY <3>3 DEF LiveInv, Settled, LiveTyped, CollectInv, VisitTypeOK
    <3> QED BY <3>2, <3>3, <3>4 DEF LiveInv, Settled
  <2>2. CASE DSNext /\ Visited /\ Propagate /\ UNCHANGED <<references, visitVars, execVars>>
    <3>1. Settled'
      BY <2>2, PropagateSettles DEF DSNext, LiveInv
    <3> QED BY <2>2, <3>1 DEF LiveInv, Visited, visitVars
  <2>3. CASE UNCHANGED <<nextSegments, prevSegments, references, liveWork, liveIn, liveOut, plan>>
    <3>1. Settled'
      BY <2>3, SettledSame DEF LiveInv
    <3> QED BY <2>3, <3>1 DEF LiveInv, Visited
  <2> QED BY <2>1, <2>2, <2>3 DEF DSNext, dsVars, visitVars, liveVars
<1> QED BY <1>1, <1>2, CollectHolds, PTL DEF DSSpec

-----------------------------------------------------------------------------
(* What is evaluated next decides: v is read, or it is live at the end.    *)
ReadNext(v, s, k) ==
  LET here == {j \in DOMAIN trace[s] : j >= k /\ trace[s][j].var = v}
  IN  \/ here = {} /\ v \in liveOut[s]
      \/ \E j \in here : ~ trace[s][j].store /\ \A i \in here : i >= j

(* The visit and the analysis are done, v is a good variable.              *)
Done(v) ==
  CollectInv /\ VisitInv /\ Settled /\ Visited /\ liveWork = <<>> /\ v \in Variables /\ Good(v)

LEMMA DoneSolved ==
  ASSUME NEW v, Done(v), NEW s \in Segments
  PROVE  /\ liveOut[s] = OutOf(s) /\ gen(s) \subseteq liveIn[s]
         /\ v \in liveOut[s] /\ v \notin kill(s) => v \in liveIn[s]
<1>1. Solved(s)
  BY DEF Done, Settled, Elements
<1> QED BY <1>1 DEF Solved, InOf, difference

LEMMA LaterIsLive ==
  ASSUME NEW v, Done(v), NEW s \in Segments, Later(v, s)
  PROVE  v \in liveOut[s]
<1>1. PICK Y \in SUBSET Segments : Y = {u \in Segments : v \in liveOut[u]}
  OBVIOUS
<1>2. Closed(v, Y)
  <2> SUFFICES ASSUME NEW u \in Segments, NEW t \in Elements(nextSegments[u]),
                      v \in gen(t) \/ (t \in Y /\ references[t] = <<>>)
               PROVE  u \in Y
    BY DEF Closed
  <2>1. t \in Segments
    BY DEF Done, Settled, LiveTyped, GraphOK, Elements
  <2>2. v \in liveIn[t]
    <3>1. CASE v \in gen(t)
      BY <3>1, <2>1, DoneSolved
    <3>2. CASE t \in Y /\ references[t] = <<>>
      <4>1. kill(t) = {}
        BY <3>2, NothingKept DEF kill
      <4> QED BY <4>1, <3>2, <1>1, <2>1, DoneSolved
    <3> QED BY <3>1, <3>2
  <2>3. v \in OutOf(u)
    BY <2>2 DEF OutOf
  <2> QED BY <2>3, <1>1, DoneSolved
<1> QED BY <1>1, <1>2 DEF Later

(* The reference of what is evaluated in a segment, if the segment has it; *)
(* if not, v is live at its end.                                           *)
LEMMA DoneFacts ==
  ASSUME NEW v, Done(v), NEW s \in Segments
  PROVE  /\ Order(trace[s], references[s], v) /\ NoDup(references[s])
         /\ references[s] \in Seq(Ref) /\ trace[s] \in Seq(Evaluated)
         /\ \A k \in DOMAIN trace[s] : trace[s][k].var = v /\ trace[s][k].id \notin Ids(references[s])
              => v \in liveOut[s]
         /\ \A k \in DOMAIN trace[s], m \in DOMAIN references[s] :
              trace[s][k].id = references[s][m].id =>
                /\ trace[s][k].var = references[s][m].var
                /\ trace[s][k].store => references[s][m].write
                /\ ~ trace[s][k].store => references[s][m].read
<1>1. /\ Order(trace[s], references[s], v) /\ NoDup(references[s])
      /\ references[s] \in Seq(Ref) /\ trace[s] \in Seq(Evaluated)
  BY DEF Done, VisitInv, Ordered, CollectInv, Once, VisitTypeOK, ReferencesOK
<1>2. ASSUME NEW k \in DOMAIN trace[s], trace[s][k].var = v, trace[s][k].id \notin Ids(references[s])
      PROVE  v \in liveOut[s]
  <2>1. trace[s][k] \in Elements(trace[s])
    BY DEF Elements
  <2>2. OnTheWay(trace[s][k].id, s) \/ Later(v, s)
    BY <1>2, <2>1 DEF Done, VisitInv, Carried
  <2>3. ~ OnTheWay(trace[s][k].id, s)
    BY VisitedClosed DEF Done, OnTheWay
  <2> QED BY <2>2, <2>3, LaterIsLive
<1>3. ASSUME NEW k \in DOMAIN trace[s], NEW m \in DOMAIN references[s],
             trace[s][k].id = references[s][m].id
      PROVE  Agrees(trace[s][k], references[s][m])
  <2>1. IsRef(references[s][m])
    BY DEF IsRef, Elements
  <2> QED BY <2>1, <1>3 DEF Done, VisitInv, RefsAgree
<1> QED BY <1>1, <1>2, <1>3 DEF Agrees

LEMMA ReadFromStart ==
  ASSUME NEW v, Done(v), NEW s \in Segments, ReadNext(v, s, 1)
  PROVE  v \in liveIn[s]
<1>1. PICK T, R : T = trace[s] /\ R = references[s]
  OBVIOUS
<1>2. /\ Order(T, R, v) /\ R \in Seq(Ref) /\ T \in Seq(Evaluated)
      /\ \A k \in DOMAIN T : T[k].var = v /\ T[k].id \notin Ids(R) => v \in liveOut[s]
      /\ \A k \in DOMAIN T, m \in DOMAIN R : T[k].id = R[m].id =>
           T[k].var = R[m].var /\ (~ T[k].store => R[m].read)
  BY <1>1, DoneFacts
<1>3. \A k \in DOMAIN T : k >= 1 /\ k \in Nat
  BY <1>2
<1>4. ASSUME v \in kill(s)
      PROVE  \E k \in DOMAIN T, m \in DOMAIN R : T[k].store /\ T[k].var = v /\ T[k].id = R[m].id
  <2>1. PICK m \in DOMAIN R : R[m].write /\ R[m].var = v
    BY <1>1, <1>4 DEF kill, Elements
  <2>2. PICK k \in DOMAIN T : T[k].store /\ T[k].id = R[m].id
    BY <2>1, <1>2 DEF Order
  <2> QED BY <2>1, <2>2, <1>2
<1>5. CASE (\A k \in DOMAIN T : T[k].var # v) /\ v \in liveOut[s]
  BY <1>4, <1>5, DoneSolved
<1>6. ASSUME NEW j \in DOMAIN T, T[j].var = v, ~ T[j].store,
             \A k \in DOMAIN T : T[k].var = v => k >= j
      PROVE  v \in liveIn[s]
  <2>1. CASE T[j].id \in Ids(R)
    <3>1. PICK m \in DOMAIN R : T[j].id = R[m].id
      BY <2>1 DEF Ids
    <3>2. v \in gen(s)
      BY <3>1, <1>1, <1>2, <1>6 DEF gen, Elements
    <3> QED BY <3>2, DoneSolved
  <2>2. CASE T[j].id \notin Ids(R)
    <3>1. v \notin kill(s)
      <4> SUFFICES ASSUME v \in kill(s) PROVE FALSE
        OBVIOUS
      <4>1. PICK k \in DOMAIN T : T[k].store /\ T[k].var = v
        BY <1>4
      <4>2. j < k
        BY <4>1, <1>3, <1>6
      <4> QED BY <4>1, <4>2, <2>2, <1>2, <1>6 DEF Order
    <3> QED BY <3>1, <2>2, <1>2, <1>6, DoneSolved
  <2> QED BY <2>1, <2>2
<1> QED BY <1>1, <1>3, <1>5, <1>6 DEF ReadNext

(* A store that is read next has a reference that checkSegment() does not  *)
(* find dead.                                                              *)
LEMMA StoreIsLive ==
  ASSUME NEW v, Done(v), NEW s \in Segments, NEW k \in DOMAIN trace[s], trace[s][k].store,
         trace[s][k].var = v, ReadNext(v, s, k + 1), NEW m \in DOMAIN references[s],
         references[s][m].id = trace[s][k].id
  PROVE  WillBeRead(v, s, m + 1)
<1>1. PICK T, R : T = trace[s] /\ R = references[s]
  OBVIOUS
<1>2. /\ Order(T, R, v) /\ NoDup(R) /\ R \in Seq(Ref) /\ T \in Seq(Evaluated)
      /\ \A j \in DOMAIN T : T[j].var = v /\ T[j].id \notin Ids(R) => v \in liveOut[s]
      /\ \A j \in DOMAIN T, n \in DOMAIN R : T[j].id = R[n].id =>
           T[j].var = R[n].var /\ (~ T[j].store => R[n].read)
  BY <1>1, DoneFacts
<1>3. /\ DOMAIN T \subseteq Nat /\ DOMAIN R \subseteq Nat /\ k \in Nat /\ m \in Nat
      /\ k \in DOMAIN T /\ m \in DOMAIN R /\ T[k].store /\ T[k].var = v /\ R[m].id = T[k].id
  BY <1>1, <1>2
<1>4. PICK after : after = {n \in DOMAIN R : n >= m + 1 /\ R[n].var = v}
  OBVIOUS
<1>5. CASE after = {}
  <2>1. v \in liveOut[s]
    <3>1. CASE \E j \in DOMAIN T : j >= k + 1 /\ T[j].var = v
      <4>1. PICK j \in DOMAIN T : j >= k + 1 /\ T[j].var = v
        BY <3>1
      <4>2. CASE T[j].id \in Ids(R)
        <5>1. PICK n \in DOMAIN R : T[j].id = R[n].id
          BY <4>2 DEF Ids
        <5>2. k < j
          BY <4>1, <1>3
        <5>3. m < n
          BY <5>1, <5>2, <4>1, <1>2, <1>3 DEF Order
        <5>4. n \in after
          BY <5>1, <5>3, <4>1, <1>2, <1>3, <1>4
        <5> QED BY <5>4, <1>5
      <4>3. CASE T[j].id \notin Ids(R)
        BY <4>1, <4>3, <1>2
      <4> QED BY <4>2, <4>3
    <3>2. CASE \A j \in DOMAIN T : ~ (j >= k + 1 /\ T[j].var = v)
      BY <3>2, <1>1 DEF ReadNext
    <3> QED BY <3>1, <3>2
  <2> QED BY <2>1, <1>1, <1>4, <1>5 DEF WillBeRead
<1>6. CASE after # {}
  <2>1. after \in SUBSET Nat
    BY <1>3, <1>4
  <2>2. PICK n \in after : \A i \in after : n <= i
    BY <2>1, <1>6, LeastNat
  <2>3. n \in DOMAIN R /\ n >= m + 1 /\ R[n].var = v /\ n \in Nat
    BY <2>2, <1>3, <1>4
  <2>4. R[n].read
    <3> SUFFICES ASSUME ~ R[n].read PROVE FALSE
      OBVIOUS
    <3>1. R[n].write
      <4>1. R[n] \in Ref
        BY <2>3, <1>2
      <4> QED BY <4>1 DEF Ref
    <3>2. PICK q \in DOMAIN T : T[q].store /\ T[q].id = R[n].id
      BY <3>1, <2>3, <1>2 DEF Order
    <3>3. T[q].var = v /\ q \in Nat
      BY <3>2, <2>3, <1>2, <1>3
    <3>4. q # k
      <4> SUFFICES ASSUME q = k PROVE FALSE
        OBVIOUS
      <4>1. n = m
        BY <3>2, <2>3, <1>2, <1>3 DEF NoDup
      <4> QED BY <4>1, <2>3, <1>3
    <3>5. ~ (q < k)
      <4> SUFFICES ASSUME q < k PROVE FALSE
        OBVIOUS
      <4>1. n < m
        BY <3>2, <3>3, <2>3, <1>2, <1>3 DEF Order
      <4> QED BY <4>1, <2>3, <1>3
    <3>6. q >= k + 1
      BY <3>3, <3>4, <3>5, <1>3
    <3>7. PICK j \in DOMAIN T : j >= k + 1 /\ T[j].var = v /\ ~ T[j].store /\ q >= j
      BY <3>2, <3>3, <3>6, <1>1 DEF ReadNext
    <3>8. j < q /\ k < j
      BY <3>2, <3>3, <3>7, <1>3
    <3>9. T[j].id \in Ids(R)
      BY <3>2, <3>3, <3>7, <3>8, <1>2 DEF Order
    <3>10. PICK i \in DOMAIN R : T[j].id = R[i].id
      BY <3>9 DEF Ids
    <3>11. m < i /\ i <= n
      BY <3>2, <3>3, <3>7, <3>8, <3>10, <2>3, <1>2, <1>3 DEF Order
    <3>12. R[i].read /\ R[i].var = v
      BY <3>7, <3>10, <1>2
    <3>13. i \in after
      BY <3>11, <3>12, <3>10, <1>3, <1>4
    <3>14. i = n
      BY <3>11, <3>13, <2>1, <2>2, <2>3
    <3> QED BY <3>12, <3>14
  <2>5. \A i \in after : i >= n
    BY <2>1, <2>2, <2>3
  <2>6. after = {j \in DOMAIN references[s] : j >= m + 1 /\ references[s][j].var = v}
    BY <1>1, <1>4
  <2> QED BY <2>2, <2>4, <2>5, <2>6, <1>1 DEF WillBeRead
<1> QED BY <1>5, <1>6

-----------------------------------------------------------------------------
(* The execution: the program is the outermost call, and it calls one      *)
(* function at a time.                                                     *)
Frame == Segments \X (Nat \ {0})

IsStoreOf(v, id, s, k) ==
  k \in DOMAIN trace[s] /\ trace[s][k].store /\ trace[s][k].var = v /\ trace[s][k].id = id

ExecOK ==
  /\ frames \in Seq(Frame) /\ Len(frames) <= 2
  /\ \A i \in DOMAIN frames : Main(frames[i][1]) <=> i = 1
  /\ stored \in [Variables -> Nat]
  /\ \A v \in Variables : stored[v] # 0 =>
       Visited /\ liveWork = <<>> /\ \E s \in Segments : \E k \in Nat : IsStoreOf(v, stored[v], s, k)

(* If the program reads a good variable next, the store that the variable  *)
(* holds was evaluated where the variable is read next as well.            *)
HoldOK ==
  \A v \in Variables :
    Good(v) /\ stored[v] # 0 /\ frames # <<>> /\ ReadNext(v, frames[1][1], frames[1][2]) =>
      \E s \in Segments : \E k \in Nat : IsStoreOf(v, stored[v], s, k) /\ ReadNext(v, s, k + 1)

ExecInv == ExecOK /\ HoldOK

(* frames[1] is where the program is.                                      *)
LEMMA FrameFacts ==
  ASSUME ExecOK, frames # <<>>
  PROVE  /\ frames[1] \in Frame /\ Main(frames[1][1])
         /\ Here \in Frame /\ Here = <<Here[1], Here[2]>>
         /\ Front(frames) \in Seq(Frame)
         /\ \/ Len(frames) = 1 /\ Len(Front(frames)) = 0 /\ frames[1] = Here
            \/ /\ Len(frames) = 2 /\ Len(Front(frames)) = 1 /\ Front(frames)[1] = frames[1]
               /\ ~ Main(Here[1])
<1>1. frames \in Seq(Frame) /\ Len(frames) \in {1, 2} /\ 1 \in DOMAIN frames
      /\ Len(frames) \in DOMAIN frames
  <2>1. frames \in Seq(Frame) /\ Len(frames) <= 2
    BY DEF ExecOK
  <2>2. Len(frames) \in Nat /\ Len(frames) # 0 /\ DOMAIN frames = 1 .. Len(frames)
    BY <2>1
  <2> QED BY <2>1, <2>2
<1>2. \A f \in Frame : f = <<f[1], f[2]>>
  BY DEF Frame
<1>3. /\ Front(frames) \in Seq(Frame) /\ Len(Front(frames)) = Len(frames) - 1
      /\ Len(frames) = 2 => Front(frames)[1] = frames[1]
  BY <1>1 DEF Front
<1>4. frames[1] \in Frame /\ frames[Len(frames)] \in Frame
  BY <1>1
<1>5. Main(frames[1][1]) /\ (Len(frames) = 2 => ~ Main(frames[Len(frames)][1]))
  BY <1>1 DEF ExecOK
<1> QED BY <1>1, <1>2, <1>3, <1>4, <1>5 DEF Here, Top

(* The innermost frame is replaced, or taken away.                         *)
LEMMA FramesAppend ==
  ASSUME NEW f \in Seq(Frame), NEW q \in Frame
  PROVE  /\ Append(f, q) \in Seq(Frame) /\ Len(Append(f, q)) = Len(f) + 1 /\ Append(f, q) # <<>>
         /\ Append(f, q)[Len(f) + 1] = q
         /\ Len(f) >= 1 => Append(f, q)[1] = f[1]
OBVIOUS

(* What the execution reads does not change.                               *)
LEMMA ExecSame ==
  ASSUME UNCHANGED <<trace, codePathOf, liveWork, liveIn, liveOut, plan, nested, variableUsages>>
  PROVE  /\ \A v, s, k : ReadNext(v, s, k)' <=> ReadNext(v, s, k)
         /\ \A v, id, s, k : IsStoreOf(v, id, s, k)' <=> IsStoreOf(v, id, s, k)
         /\ \A v : Good(v)' <=> Good(v)
         /\ \A s : Main(s)' <=> Main(s)
         /\ Visited' <=> Visited
BY DEF ReadNext, IsStoreOf, Good, Main, Visited

(* The step of a call in progress: the innermost frame goes on at q, or    *)
(* the call ends.                                                          *)
LEMMA CallGoesOn ==
  ASSUME ExecInv, VisitInv, frames # <<>>,
         UNCHANGED <<trace, codePathOf, liveWork, liveIn, liveOut, plan, nested, variableUsages>>,
         stored' \in [Variables -> Nat],
         \A v \in Variables : stored'[v] # 0 =>
           Visited /\ liveWork = <<>> /\ \E s \in Segments : \E k \in Nat : IsStoreOf(v, stored'[v], s, k),
         \A v \in Variables : Good(v) /\ ~ Main(Here[1]) => stored'[v] = stored[v],
         \/ frames' = Front(frames)
         \/ \E q \in Frame :
              /\ frames' = Append(Front(frames), q)
              /\ Main(q[1]) <=> Main(Here[1])
              /\ \A v \in Variables :
                   Good(v) /\ Main(Here[1]) /\ stored'[v] # 0 /\ ReadNext(v, q[1], q[2]) =>
                     \E s \in Segments : \E k \in Nat :
                       IsStoreOf(v, stored'[v], s, k) /\ ReadNext(v, s, k + 1)
  PROVE  ExecInv'
<1>1. /\ frames[1] \in Frame /\ Main(frames[1][1]) /\ Here \in Frame /\ Front(frames) \in Seq(Frame)
      /\ \/ Len(Front(frames)) = 0 /\ frames[1] = Here
         \/ Len(Front(frames)) = 1 /\ Front(frames)[1] = frames[1] /\ ~ Main(Here[1])
  BY FrameFacts DEF ExecInv
<1>2. /\ \A v, s, k : ReadNext(v, s, k)' <=> ReadNext(v, s, k)
      /\ \A v, id, s, k : IsStoreOf(v, id, s, k)' <=> IsStoreOf(v, id, s, k)
      /\ \A v : Good(v)' <=> Good(v)
      /\ \A s : Main(s)' <=> Main(s)
      /\ Visited' <=> Visited
  BY ExecSame
<1>3. PICK p : p = frames[1]
  OBVIOUS
<1>4. /\ frames' \in Seq(Frame)
      /\ \/ Len(frames') = 0
         \/ Len(frames') = 1 /\ frames'[1] = p /\ ~ Main(Here[1])
         \/ Len(frames') = 2 /\ frames'[1] = p /\ ~ Main(Here[1]) /\ ~ Main(frames'[2][1])
         \/ /\ Len(frames') = 1 /\ Main(frames'[1][1])
            /\ \A v \in Variables :
                 Good(v) /\ stored'[v] # 0 /\ ReadNext(v, frames'[1][1], frames'[1][2]) =>
                   \E s \in Segments : \E k \in Nat :
                     IsStoreOf(v, stored'[v], s, k) /\ ReadNext(v, s, k + 1)
  <2>1. CASE frames' = Front(frames)
    BY <2>1, <1>1, <1>3
  <2>2. ASSUME NEW q \in Frame, frames' = Append(Front(frames), q), Main(q[1]) <=> Main(Here[1]),
               \A v \in Variables :
                 Good(v) /\ Main(Here[1]) /\ stored'[v] # 0 /\ ReadNext(v, q[1], q[2]) =>
                   \E s \in Segments : \E k \in Nat :
                     IsStoreOf(v, stored'[v], s, k) /\ ReadNext(v, s, k + 1)
        PROVE  /\ frames' \in Seq(Frame)
               /\ \/ Len(frames') = 2 /\ frames'[1] = p /\ ~ Main(Here[1]) /\ ~ Main(frames'[2][1])
                  \/ /\ Len(frames') = 1 /\ Main(frames'[1][1])
                     /\ \A v \in Variables :
                          Good(v) /\ stored'[v] # 0 /\ ReadNext(v, frames'[1][1], frames'[1][2]) =>
                            \E s \in Segments : \E k \in Nat :
                              IsStoreOf(v, stored'[v], s, k) /\ ReadNext(v, s, k + 1)
    <3>1. /\ frames' \in Seq(Frame) /\ Len(frames') = Len(Front(frames)) + 1
          /\ frames'[Len(Front(frames)) + 1] = q
          /\ Len(Front(frames)) >= 1 => frames'[1] = Front(frames)[1]
      BY <2>2, <1>1, FramesAppend
    <3>2. CASE Len(Front(frames)) = 0 /\ frames[1] = Here
      <4>1. Len(frames') = 1 /\ frames'[1] = q /\ Main(Here[1])
        BY <3>1, <3>2, <1>1
      <4> QED BY <4>1, <3>1, <2>2
    <3>3. CASE Len(Front(frames)) = 1 /\ Front(frames)[1] = frames[1] /\ ~ Main(Here[1])
      <4>1. Len(frames') = 2 /\ frames'[1] = p /\ frames'[2] = q
        BY <3>1, <3>3, <1>3
      <4> QED BY <4>1, <3>1, <3>3, <2>2
    <3> QED BY <3>2, <3>3, <1>1
  <2> QED BY <2>1, <2>2
<1>5. ExecOK'
  <2>1. Len(frames') <= 2 /\ \A i \in DOMAIN frames' : Main(frames'[i][1]) <=> i = 1
    <3>1. DOMAIN frames' = 1 .. Len(frames') /\ Main(p[1])
      BY <1>1, <1>3, <1>4
    <3>2. CASE Len(frames') = 0
      BY <3>1, <3>2
    <3>3. CASE Len(frames') = 1 /\ Main(frames'[1][1])
      BY <3>1, <3>3
    <3>4. CASE Len(frames') = 2 /\ frames'[1] = p /\ ~ Main(frames'[2][1])
      BY <3>1, <3>4
    <3> QED BY <3>1, <3>2, <3>3, <3>4, <1>4
  <2> QED BY <2>1, <1>2, <1>4 DEF ExecOK
<1>6. HoldOK'
  <2> SUFFICES ASSUME NEW v \in Variables, Good(v), stored'[v] # 0, frames' # <<>>,
                      ReadNext(v, frames'[1][1], frames'[1][2])
               PROVE  \E s \in Segments : \E k \in Nat :
                        IsStoreOf(v, stored'[v], s, k) /\ ReadNext(v, s, k + 1)
    BY <1>2 DEF HoldOK
  <2>1. Len(frames') # 0
    BY <1>4
  <2>2. CASE frames'[1] = p /\ ~ Main(Here[1])
    <3>1. stored'[v] = stored[v]
      BY <2>2
    <3> QED BY <2>2, <3>1, <1>3 DEF ExecInv, HoldOK
  <2> QED BY <2>1, <2>2, <1>4
<1> QED BY <1>5, <1>6 DEF ExecInv

-----------------------------------------------------------------------------
(* Nothing is stored before the execution.                                 *)
LEMMA ExecBefore ==
  ASSUME ExecInv, ~ (Visited /\ liveWork = <<>>), UNCHANGED <<codePathOf, frames, stored>>
  PROVE  ExecInv'
<1>1. \A v \in Variables : stored[v] = 0
  BY DEF ExecInv, ExecOK
<1>2. \A s : Main(s)' <=> Main(s)
  BY DEF Main
<1>3. ExecOK'
  BY <1>1, <1>2 DEF ExecInv, ExecOK
<1>4. HoldOK'
  BY <1>1 DEF HoldOK
<1> QED BY <1>3, <1>4 DEF ExecInv

LEMMA ExecEvaluateNext ==
  ASSUME CollectInv, VisitInv, ExecInv, EvaluateNext,
         UNCHANGED <<trace, codePathOf, liveWork, liveIn, liveOut, plan, nested, variableUsages>>
  PROVE  ExecInv'
<1>1. /\ frames # <<>> /\ Visited /\ liveWork = <<>> /\ Here[2] \in DOMAIN trace[Here[1]]
      /\ frames' = Append(Front(frames), <<Here[1], Here[2] + 1>>)
  BY DEF EvaluateNext, Executing
<1>2. /\ frames[1] \in Frame /\ Here \in Frame
      /\ Main(Here[1]) => frames[1] = Here
  BY <1>1, FrameFacts DEF ExecInv
<1>3. PICK s, k : s = Here[1] /\ k = Here[2]
  OBVIOUS
<1>4. s \in Segments /\ k \in Nat \ {0} /\ <<s, k + 1>> \in Frame
  BY <1>2, <1>3 DEF Frame
<1>5. PICK e : e = trace[s][k]
  OBVIOUS
<1>6. /\ k \in DOMAIN trace[s] /\ e \in Evaluated /\ e \in Elements(trace[s])
      /\ trace[s] \in Seq(Evaluated)
  BY <1>1, <1>3, <1>4, <1>5 DEF CollectInv, VisitTypeOK, Elements
<1>7. e.var \in Variables /\ e.id \in Nat
  BY <1>6 DEF Evaluated
<1>8. stored \in [Variables -> Nat]
  BY DEF ExecInv, ExecOK
<1>9. stored' = IF e.store THEN [stored EXCEPT ![e.var] = e.id] ELSE stored
  BY <1>3, <1>5 DEF EvaluateNext
<1>10. /\ stored' \in [Variables -> Nat]
       /\ e.store => stored'[e.var] = e.id
       /\ \A v \in Variables : v # e.var \/ ~ e.store => stored'[v] = stored[v]
  BY <1>7, <1>8, <1>9
<1>11. e.store => IsStoreOf(e.var, e.id, s, k)
  BY <1>5, <1>6 DEF IsStoreOf
<1>12. ASSUME NEW v \in Variables, stored'[v] # 0
       PROVE  \E t \in Segments : \E j \in Nat : IsStoreOf(v, stored'[v], t, j)
  <2>1. CASE e.store /\ v = e.var
    BY <2>1, <1>4, <1>10, <1>11
  <2>2. CASE v # e.var \/ ~ e.store
    <3>1. stored'[v] = stored[v]
      BY <2>2, <1>10
    <3> QED BY <3>1, <1>12 DEF ExecInv, ExecOK
  <2> QED BY <2>1, <2>2
<1>13. ASSUME NEW v \in Variables, Good(v), ~ Main(Here[1])
       PROVE  stored'[v] = stored[v]
  <2>1. e.var # v
    BY <1>13, <1>3, <1>4, <1>6 DEF VisitInv, MainOnly
  <2> QED BY <2>1, <1>10
<1>14. ASSUME NEW v \in Variables, Good(v), Main(Here[1]), stored'[v] # 0, ReadNext(v, s, k + 1)
       PROVE  \E t \in Segments : \E j \in Nat : IsStoreOf(v, stored'[v], t, j) /\ ReadNext(v, t, j + 1)
  <2>1. CASE e.store /\ v = e.var
    BY <2>1, <1>4, <1>10, <1>11, <1>14
  <2>2. CASE v # e.var \/ ~ e.store
    <3>1. stored'[v] = stored[v]
      BY <2>2, <1>10
    <3>2. PICK here, after : /\ here = {j \in DOMAIN trace[s] : j >= k /\ trace[s][j].var = v}
                             /\ after = {j \in DOMAIN trace[s] : j >= k + 1 /\ trace[s][j].var = v}
      OBVIOUS
    <3>3. \A j \in DOMAIN trace[s] : j \in Nat /\ (j >= k <=> j = k \/ j >= k + 1)
      BY <1>4, <1>6
    <3>4. ReadNext(v, s, k)
      <4>1. CASE v = e.var
        <5>1. k \in here /\ ~ trace[s][k].store /\ \A i \in here : i >= k
          BY <4>1, <2>2, <3>2, <3>3, <1>4, <1>5, <1>6
        <5> QED BY <5>1, <3>2 DEF ReadNext
      <4>2. CASE v # e.var
        <5>1. here = after
          BY <4>2, <3>2, <3>3, <1>5
        <5> QED BY <5>1, <3>2, <1>14 DEF ReadNext
      <4> QED BY <4>1, <4>2
    <3>5. frames[1] = Here
      BY <1>2, <1>14
    <3> QED BY <3>1, <3>4, <3>5, <1>1, <1>3, <1>14 DEF ExecInv, HoldOK
  <2> QED BY <2>1, <2>2
<1>15. PICK q \in Frame : q = <<s, k + 1>> /\ q[1] = s /\ q[2] = k + 1
  BY <1>4
<1>16. /\ frames' = Append(Front(frames), q) /\ (Main(q[1]) <=> Main(Here[1]))
       /\ \A v \in Variables :
            Good(v) /\ Main(Here[1]) /\ stored'[v] # 0 /\ ReadNext(v, q[1], q[2]) =>
              \E t \in Segments : \E j \in Nat : IsStoreOf(v, stored'[v], t, j) /\ ReadNext(v, t, j + 1)
  BY <1>1, <1>3, <1>14, <1>15
<1> QED BY <1>1, <1>10, <1>12, <1>13, <1>16, CallGoesOn

(* Edges stay in a code path.                                              *)
EdgesStay ==
  /\ codePathOf \in [Segments -> CodePathIds]
  /\ \A s \in Segments : \A t \in Elements(nextSegments[s]) : codePathOf[s] = codePathOf[t]

LEMMA ExecGoOn ==
  ASSUME CollectInv, VisitInv, LiveInv, EdgesStay, ExecInv, GoOn,
         UNCHANGED <<trace, codePathOf, liveWork, liveIn, liveOut, plan, nested, variableUsages>>
  PROVE  ExecInv'
<1>1. /\ frames # <<>> /\ Visited /\ liveWork = <<>> /\ Here[2] \notin DOMAIN trace[Here[1]]
      /\ stored' = stored
  BY DEF GoOn, Executing
<1>2. /\ frames[1] \in Frame /\ Here \in Frame
      /\ Main(Here[1]) => frames[1] = Here
  BY <1>1, FrameFacts DEF ExecInv
<1>3. PICK s, k : s = Here[1] /\ k = Here[2]
  OBVIOUS
<1>4. s \in Segments /\ k \in Nat \ {0} /\ trace[s] \in Seq(Evaluated) /\ nextSegments[s] \in Seq(Segments)
  BY <1>2, <1>3 DEF Frame, CollectInv, VisitTypeOK, GraphOK
<1>5. \/ frames' = Front(frames)
      \/ \E t \in Elements(nextSegments[s]) : frames' = Append(Front(frames), <<t, 1>>)
  BY <1>3 DEF GoOn
<1>6. ASSUME NEW t \in Elements(nextSegments[s]), frames' = Append(Front(frames), <<t, 1>>)
      PROVE  \E q \in Frame :
               /\ frames' = Append(Front(frames), q)
               /\ Main(q[1]) <=> Main(Here[1])
               /\ \A v \in Variables :
                    Good(v) /\ Main(Here[1]) /\ stored'[v] # 0 /\ ReadNext(v, q[1], q[2]) =>
                      \E u \in Segments : \E j \in Nat :
                        IsStoreOf(v, stored'[v], u, j) /\ ReadNext(v, u, j + 1)
  <2>1. t \in Segments
    BY <1>4 DEF Elements
  <2>2. PICK q \in Frame : q = <<t, 1>> /\ q[1] = t /\ q[2] = 1
    <3>1. 1 \in Nat \ {0}
      OBVIOUS
    <3>2. <<t, 1>> \in Frame
      BY <2>1, <3>1 DEF Frame
    <3> QED BY <3>2
  <2>3. Main(q[1]) <=> Main(Here[1])
    BY <2>2, <1>3, <1>4 DEF Main, EdgesStay
  <2>4. ASSUME NEW v \in Variables, Good(v), Main(Here[1]), stored'[v] # 0, ReadNext(v, q[1], q[2])
        PROVE  \E u \in Segments : \E j \in Nat :
                 IsStoreOf(v, stored'[v], u, j) /\ ReadNext(v, u, j + 1)
    <3>1. Done(v)
      BY <2>4, <1>1 DEF Done, LiveInv
    <3>2. v \in liveIn[t]
      BY <2>1, <2>2, <2>4, <3>1, ReadFromStart
    <3>3. v \in liveOut[s]
      BY <3>1, <3>2, <1>4, DoneSolved DEF OutOf
    <3>4. \A j \in DOMAIN trace[s] : ~ (j >= k)
      BY <1>1, <1>3, <1>4
    <3>5. ReadNext(v, s, k)
      BY <3>3, <3>4 DEF ReadNext
    <3>6. frames[1] = Here
      BY <1>2, <2>4
    <3> QED BY <3>5, <3>6, <2>4, <1>1, <1>3 DEF ExecInv, HoldOK
  <2> QED BY <2>2, <2>3, <2>4, <1>6
<1>7. /\ stored' \in [Variables -> Nat]
      /\ \A v \in Variables : stored'[v] # 0 =>
           Visited /\ liveWork = <<>> /\ \E u \in Segments : \E j \in Nat : IsStoreOf(v, stored'[v], u, j)
  BY <1>1 DEF ExecInv, ExecOK
<1> QED BY <1>1, <1>5, <1>6, <1>7, CallGoesOn

LEMMA ExecCallFunction ==
  ASSUME VisitInv, ExecInv, NEW s \in Segments, CallFunction(s),
         UNCHANGED <<trace, codePathOf, liveWork, liveIn, liveOut, plan, nested, variableUsages>>
  PROVE  ExecInv'
<1>1. /\ frames # <<>> /\ Len(frames) = 1 /\ ~ Main(s) /\ frames' = Append(frames, <<s, 1>>)
      /\ stored' = stored
  BY DEF CallFunction, Executing, Main
<1>2. frames \in Seq(Frame) /\ Main(frames[1][1])
  BY <1>1, FrameFacts DEF ExecInv, ExecOK
<1>3. PICK q \in Frame : q = <<s, 1>> /\ q[1] = s
  <2>1. 1 \in Nat \ {0}
    OBVIOUS
  <2>2. <<s, 1>> \in Frame
    BY <2>1 DEF Frame
  <2> QED BY <2>2
<1>4. frames' \in Seq(Frame) /\ Len(frames') = 2 /\ frames'[1] = frames[1] /\ frames'[2] = q
  <2>1. /\ Append(frames, q) \in Seq(Frame) /\ Len(Append(frames, q)) = Len(frames) + 1
        /\ Append(frames, q)[Len(frames) + 1] = q
        /\ Len(frames) >= 1 => Append(frames, q)[1] = frames[1]
    BY <1>2, FramesAppend
  <2>2. Len(frames) + 1 = 2 /\ Len(frames) >= 1
    BY <1>1
  <2> QED BY <2>1, <2>2, <1>1, <1>3
<1>5. /\ \A v, t, k : ReadNext(v, t, k)' <=> ReadNext(v, t, k)
      /\ \A v, id, t, k : IsStoreOf(v, id, t, k)' <=> IsStoreOf(v, id, t, k)
      /\ \A v : Good(v)' <=> Good(v)
      /\ \A t : Main(t)' <=> Main(t)
      /\ Visited' <=> Visited
  BY ExecSame
<1>6. ExecOK'
  <2>1. \A i \in DOMAIN frames' : Main(frames'[i][1]) <=> i = 1
    <3>1. \A i \in DOMAIN frames' : i = 1 \/ i = 2
      BY <1>4
    <3> QED BY <3>1, <1>1, <1>2, <1>3, <1>4
  <2>2. frames' \in Seq(Frame) /\ Len(frames') <= 2
    BY <1>4
  <2>3. liveWork' = liveWork
    OBVIOUS
  <2> QED BY <2>1, <2>2, <2>3, <1>1, <1>5 DEF ExecInv, ExecOK
<1>7. HoldOK'
  BY <1>1, <1>4, <1>5 DEF ExecInv, HoldOK
<1> QED BY <1>6, <1>7 DEF ExecInv

LEMMA ExecStarts == DSInit => ExecInv
<1> SUFFICES ASSUME DSInit PROVE ExecInv
  OBVIOUS
<1>1. frames = << <<1, 1>> >> /\ stored = [v \in Variables |-> 0]
  BY DEF DSInit, VisitInit
<1>2. <<1, 1>> \in Frame
  <2>1. 1 \in Segments /\ 1 \in Nat \ {0}
    BY SegmentsAssumption DEF Segments
  <2> QED BY <2>1 DEF Frame
<1>3. frames \in Seq(Frame) /\ Len(frames) = 1 /\ frames[1][1] = 1
  BY <1>1, <1>2
<1>4. \A i \in DOMAIN frames : Main(frames[i][1]) <=> i = 1
  <2>1. \A i \in DOMAIN frames : i = 1
    BY <1>3
  <2> QED BY <2>1, <1>3 DEF Main
<1>5. stored \in [Variables -> Nat] /\ \A v \in Variables : stored[v] = 0
  BY <1>1
<1>6. ExecOK
  BY <1>3, <1>4, <1>5 DEF ExecOK
<1>7. HoldOK
  BY <1>5 DEF HoldOK
<1> QED BY <1>6, <1>7 DEF ExecInv

(* The bound on events.                                                    *)
Bounded == EdgesStay /\ events <= MaxEvents

LEMMA BoundedHolds == DSSpec => []Bounded
<1>1. DSInit => Bounded
  BY MaxEventsAssumption DEF DSInit, PlanOK, VisitInit, Bounded, EdgesStay
<1>2. CollectInv /\ Bounded /\ [DSNext]_dsVars => Bounded'
  <2> SUFFICES ASSUME CollectInv, Bounded, [DSNext]_dsVars PROVE Bounded'
    OBVIOUS
  <2>1. UNCHANGED <<nextSegments, codePathOf>>
    BY DEF DSNext, dsVars
  <2>2. events' = events \/ (events < MaxEvents /\ events' = events + 1)
    BY DEF DSNext, dsVars, visitVars, Visit, StartCodePath, Fork, OtherBranch, JoinBranches, GoesOn,
           NextStatement, NextSegments, EndCodePath, ExitAssignment, Identifier, EnterAssignment, CanVisit
  <2>3. events' <= MaxEvents
    BY <2>2, MaxEventsAssumption DEF Bounded, CollectInv, VisitTypeOK
  <2> QED BY <2>1, <2>3 DEF Bounded, EdgesStay
<1> QED BY <1>1, <1>2, CollectHolds, PTL DEF DSSpec

LEMMA ExecHolds == DSSpec => []ExecInv
<1>1. CollectInv /\ VisitInv /\ LiveInv /\ Bounded /\ ExecInv /\ [DSNext]_dsVars => ExecInv'
  <2> SUFFICES ASSUME CollectInv, VisitInv, LiveInv, Bounded, ExecInv, [DSNext]_dsVars PROVE ExecInv'
    OBVIOUS
  <2>1. CASE DSNext /\ Visit /\ UNCHANGED <<liveVars, execVars>>
    <3>1. ~ Visited
      BY <2>1, NotVisited
    <3> QED BY <2>1, <3>1, ExecBefore DEF DSNext, execVars
  <2>2. CASE DSNext /\ Propagate /\ UNCHANGED <<references, visitVars, execVars>>
    BY <2>2, ExecBefore DEF DSNext, execVars, Propagate
  <2>3. CASE Execute /\ UNCHANGED <<references, visitVars, liveVars>> /\ UNCHANGED codePathOf
    <3>1. UNCHANGED <<trace, codePathOf, liveWork, liveIn, liveOut, plan, nested, variableUsages>>
      BY <2>3 DEF visitVars, liveVars
    <3>2. CASE EvaluateNext
      BY <3>1, <3>2, ExecEvaluateNext
    <3>3. CASE GoOn
      BY <3>1, <3>3, ExecGoOn DEF Bounded
    <3>4. CASE \E s \in Segments : CallFunction(s)
      BY <3>1, <3>4, ExecCallFunction
    <3> QED BY <2>3, <3>2, <3>3, <3>4 DEF Execute
  <2>4. CASE UNCHANGED dsVars
    <3>1. UNCHANGED <<trace, codePathOf, liveWork, liveIn, liveOut, plan, nested, variableUsages>>
      BY <2>4 DEF dsVars
    <3>2. UNCHANGED <<frames, stored>>
      BY <2>4 DEF dsVars
    <3>3. /\ \A v, s, k : ReadNext(v, s, k)' <=> ReadNext(v, s, k)
          /\ \A v, id, s, k : IsStoreOf(v, id, s, k)' <=> IsStoreOf(v, id, s, k)
          /\ \A v : Good(v)' <=> Good(v)
          /\ \A s : Main(s)' <=> Main(s)
          /\ Visited' <=> Visited
      BY <3>1, ExecSame
    <3>4. ExecOK'
      BY <3>1, <3>2, <3>3 DEF ExecInv, ExecOK
    <3>5. HoldOK'
      BY <3>2, <3>3 DEF ExecInv, HoldOK
    <3> QED BY <3>4, <3>5 DEF ExecInv
  <2> QED BY <2>1, <2>2, <2>3, <2>4 DEF DSNext
<1> QED BY <1>1, ExecStarts, CollectHolds, VisitHolds, LiveHolds, BoundedHolds, PTL DEF DSSpec

-----------------------------------------------------------------------------
(* A segment has at most as many references as there were events.          *)
LEMMA ReferencesBounded ==
  ASSUME CollectInv, Bounded, NEW s \in Segments, NEW m \in DOMAIN references[s]
  PROVE  m \in 1 .. MaxEvents
<1>1. PICK R : R = references[s]
  OBVIOUS
<1>2. R \in Seq(Ref) /\ NoDup(R) /\ Ids(R) \subseteq 1 .. events /\ events \in Nat /\ events <= MaxEvents
  BY <1>1 DEF CollectInv, VisitTypeOK, ReferencesOK, Once, Bounded
<1>3. m \in Nat /\ m > 0 /\ 1 .. m \subseteq DOMAIN R
  BY <1>1, <1>2
<1>4. ~ (m > events)
  <2> SUFFICES ASSUME m > events PROVE FALSE
    OBVIOUS
  <2>1. PICK f : f = [i \in 1 .. m |-> R[i].id]
    OBVIOUS
  <2>2. f \in [1 .. m -> 1 .. events]
    <3>1. \A i \in 1 .. m : R[i].id \in 1 .. events
      BY <1>2, <1>3 DEF Ids
    <3> QED BY <2>1, <3>1
  <2>3. /\ IsFiniteSet(1 .. m) /\ Cardinality(1 .. m) = m
        /\ IsFiniteSet(1 .. events) /\ Cardinality(1 .. events) = events
    <3>1. 1 \in Int /\ m \in Int /\ events \in Int /\ ~ (1 > m)
      BY <1>2, <1>3
    <3>2. IsFiniteSet(1 .. m) /\ Cardinality(1 .. m) = m - 1 + 1
      BY <3>1, FS_Interval
    <3>3. IsFiniteSet(1 .. events) /\ Cardinality(1 .. events) = IF 1 > events THEN 0 ELSE events - 1 + 1
      BY <3>1, FS_Interval
    <3> QED BY <3>2, <3>3, <1>2, <1>3
  <2>4. Cardinality(1 .. events) < Cardinality(1 .. m)
    BY <2>3, <1>2, <1>3
  <2>5. PICK i, j \in 1 .. m : i # j /\ f[i] = f[j]
    BY <2>2, <2>3, <2>4, FS_PigeonHole
  <2>6. R[i].id = R[j].id
    BY <2>1, <2>5
  <2> QED BY <2>5, <2>6, <1>2, <1>3 DEF NoDup
<1> QED BY <1>2, <1>3, <1>4, MaxEventsAssumption

(* A variable that is used in one code path only is a good one.            *)
LEMMA UsedInProgram ==
  ASSUME UsagesOK, NEW v \in Variables, v \notin nested, ~ variableUsedOutsideOfCodePath(v)
  PROVE  Good(v)
<1>1. IsFiniteSet(variableUsages[v]) /\ codePathOf[1] \in variableUsages[v]
  BY DEF UsagesOK
<1>2. Cardinality(variableUsages[v]) \in Nat /\ Cardinality(variableUsages[v]) # 0
  BY <1>1, FS_CardinalityType, FS_EmptySet
<1>3. Cardinality(variableUsages[v]) = 1
  BY <1>2 DEF variableUsedOutsideOfCodePath
<1>4. PICK x : variableUsages[v] = {x}
  BY <1>1, <1>3, FS_Singleton
<1> QED BY <1>1, <1>4 DEF Good

LEMMA NoAlarm ==
  ASSUME CollectInv, VisitInv, LiveInv, Bounded, ExecInv
  PROVE  NoFalseAlarm
<1>1. SUFFICES ASSUME Executing, Here[2] \in DOMAIN trace[Here[1]],
                      ~ trace[Here[1]][Here[2]].store,
                      trace[Here[1]][Here[2]].var \notin nested,
                      NEW p \in Places(stored[trace[Here[1]][Here[2]].var]),
                      Places(stored[trace[Here[1]][Here[2]].var]) = {p},
                      Reported(p[1], p[2])
               PROVE  FALSE
  BY DEF NoFalseAlarm
<1>2. PICK s, k : s = Here[1] /\ k = Here[2]
  OBVIOUS
<1>3. frames # <<>> /\ Visited /\ liveWork = <<>>
  BY <1>1 DEF Executing
<1>4. /\ frames[1] \in Frame /\ Here \in Frame
      /\ Main(Here[1]) => frames[1] = Here
  BY <1>3, FrameFacts DEF ExecInv
<1>5. s \in Segments /\ k \in Nat /\ trace[s] \in Seq(Evaluated)
  BY <1>2, <1>4 DEF Frame, CollectInv, VisitTypeOK
<1>6. PICK v, id : v = trace[s][k].var /\ id = stored[v]
  OBVIOUS
<1>7. /\ k \in DOMAIN trace[s] /\ trace[s][k] \in Elements(trace[s]) /\ ~ trace[s][k].store
      /\ v \in Variables /\ v \notin nested /\ v \in readVariables
  <2>1. k \in DOMAIN trace[s] /\ trace[s][k] \in Elements(trace[s]) /\ ~ trace[s][k].store
    BY <1>1, <1>2 DEF Elements
  <2>2. trace[s][k] \in Evaluated
    BY <2>1, <1>5
  <2>3. v \in readVariables
    BY <2>1, <1>5, <1>6 DEF VisitInv, RefsAgree
  <2> QED BY <2>1, <2>2, <2>3, <1>1, <1>2, <1>6 DEF Evaluated
<1>8. PICK a, m : a = p[1] /\ m = p[2]
  OBVIOUS
<1>9. /\ a \in Segments /\ m \in DOMAIN references[a] /\ references[a][m].id = id
      /\ Places(id) = {p} /\ Reported(a, m)
  <2>1. p \in Places(id) /\ Places(id) = {p} /\ Reported(a, m)
    BY <1>1, <1>2, <1>6, <1>8
  <2> QED BY <2>1, <1>8 DEF Places
<1>10. PICK r : r = references[a][m]
  OBVIOUS
<1>11. IsRef(r) /\ r.id = id /\ id # 0
  <2>1. IsRef(r)
    BY <1>9, <1>10 DEF IsRef, Elements
  <2>2. r.id \in 1 .. events
    BY <2>1 DEF VisitInv, RefsAgree
  <2> QED BY <2>1, <2>2, <1>9, <1>10
<1>12. r.var = v
  <2>1. PICK t \in Segments, j \in Nat : IsStoreOf(v, id, t, j)
    BY <1>6, <1>7, <1>11 DEF ExecInv, ExecOK
  <2>2. Agrees(trace[t][j], r) /\ trace[t][j].var = v
    BY <2>1, <1>11 DEF IsStoreOf, VisitInv, RefsAgree
  <2> QED BY <2>2 DEF Agrees
<1>13. DeadStore(a, m) /\ ~ variableUsedOutsideOfCodePath(v)
  BY <1>7, <1>9, <1>10, <1>12 DEF Reported
<1>14. Good(v)
  BY <1>7, <1>13, UsedInProgram DEF VisitInv
<1>15. Done(v)
  BY <1>3, <1>7, <1>14 DEF Done, LiveInv
<1>16. frames[1][1] = s /\ frames[1][2] = k
  <2>1. Main(s)
    BY <1>5, <1>6, <1>7, <1>14 DEF VisitInv, MainOnly
  <2> QED BY <2>1, <1>2, <1>4
<1>17. ReadNext(v, s, k)
  <2>1. PICK here : here = {j \in DOMAIN trace[s] : j >= k /\ trace[s][j].var = v}
    OBVIOUS
  <2>2. k \in here /\ \A i \in here : i >= k
    BY <2>1, <1>5, <1>6, <1>7
  <2> QED BY <2>1, <2>2, <1>7 DEF ReadNext
<1>18. PICK t \in Segments, j \in Nat : IsStoreOf(v, id, t, j) /\ ReadNext(v, t, j + 1)
  BY <1>3, <1>6, <1>7, <1>11, <1>14, <1>16, <1>17 DEF ExecInv, HoldOK
<1>19. j \in DOMAIN trace[t] /\ trace[t][j].store /\ trace[t][j].var = v /\ trace[t][j].id = id
  BY <1>18 DEF IsStoreOf
<1>20. PICK n \in DOMAIN references[t] : references[t][n].id = id
  <2>1. Order(trace[t], references[t], v)
    BY <1>15, DoneFacts
  <2>2. id \in Ids(references[t])
    BY <2>1, <1>19 DEF Order
  <2> QED BY <2>2 DEF Ids
<1>21. <<t, n>> \in Places(id)
  <2>1. n \in 1 .. MaxEvents
    BY <1>20, ReferencesBounded
  <2> QED BY <2>1, <1>20 DEF Places
<1>22. t = a /\ n = m
  BY <1>8, <1>9, <1>21
<1>23. WillBeRead(v, t, n + 1)
  BY <1>15, <1>18, <1>19, <1>20, StoreIsLive
<1> QED BY <1>10, <1>12, <1>13, <1>22, <1>23 DEF DeadStore

(* S1854 reports no store of a variable that the code goes on to read,     *)
(* whatever the program, the order in which ESLint reports the code paths, *)
(* the calls and the branches taken: collecting the references of an       *)
(* assignment only when it is left loses no read that follows the store.   *)
(* What makes it true of reads that are collected in a later segment than  *)
(* they are evaluated in is Carried: a way leads on from there to the      *)
(* segment that got the reference, past segments that got none, so that    *)
(* the variable is live at the end of the segment that evaluates the read. *)
THEOREM NoFalseAlarms == DSSpec => []NoFalseAlarm
BY NoAlarm, CollectHolds, VisitHolds, LiveHolds, BoundedHolds, ExecHolds, PTL
=============================================================================
