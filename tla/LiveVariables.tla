--------------------------- MODULE LiveVariables ---------------------------
(***************************************************************************)
(* Live variable analysis (rules/helpers/lva.ts) over the segments of a    *)
(* code path, and an execution of that code path: once the analysis has    *)
(* ended, a run walks through the references along the edges and records   *)
(* which store each variable holds.  It is what the analysis speaks about. *)
(***************************************************************************)
EXTENDS CodePaths

VARIABLES
  liveWork,  \* worklist of lva(): a stack of segments
  liveIn,    \* LiveVariables.in
  liveOut,   \* LiveVariables.out
  at,        \* the run: a segment and a position in its references
  holds      \* the run: for each variable the store <<segment, position>> it holds

liveVars == <<liveWork, liveIn, liveOut>>
runVars == <<at, holds>>
lvVars == <<nextSegments, prevSegments, references, liveWork, liveIn, liveOut,
            at, holds>>

NoStore == <<0, 0>>

gen(s) == {r.var : r \in {q \in Elements(references[s]) : q.read}}

kill(s) == {r.var : r \in {q \in Elements(references[s]) : q.write}}

(* Mutant: the previous segments are not pushed. *)
PushNothing(stack, segments) == stack

Push(stack, segments) == stack \o segments

Top(stack) == stack[Len(stack)]

(* Mutant: the last element is read and not taken away. *)
Peek(stack) == stack

Pop(stack) == SubSeq(stack, 1, Len(stack) - 1)

(* All segments, the last one on top.                                      *)
InitialWork == [i \in 1 .. N |-> i]

LiveInit ==
  /\ liveWork = InitialWork
  /\ liveIn = [s \in Segments |-> {}]
  /\ liveOut = [s \in Segments |-> {}]

LVInit ==
  /\ GraphOK
  /\ ReferencesOK
  /\ LiveInit
  /\ at \in Segments \X {1}
  /\ holds = [v \in Variables |-> NoStore]

-----------------------------------------------------------------------------
OutOf(s) == UNION {liveIn[t] : t \in Elements(nextSegments[s])}
difference(s) == OutOf(s) \ kill(s)

(* Mutant: variables written in the segment are removed from all of it. *)
KillLast(s) == (gen(s) \cup OutOf(s)) \ kill(s)

InOf(s) == gen(s) \cup difference(s)

shouldUpdate(s) == ~ (InOf(s) \subseteq liveIn[s])

(* One turn of the loop of lva(): propagate() of the segment on top.       *)
Propagate ==
  /\ liveWork # <<>>
  /\ LET s == Top(liveWork)
     IN  /\ liveOut' = [liveOut EXCEPT ![s] = OutOf(s)]
         /\ IF shouldUpdate(s)
            THEN /\ liveIn' = [liveIn EXCEPT ![s] = InOf(s)]
                 /\ liveWork' = Push(Pop(liveWork), prevSegments[s])
            ELSE /\ liveWork' = Pop(liveWork)
                 /\ UNCHANGED liveIn

(* The run evaluates the next reference of its segment ...                 *)
Evaluate ==
  /\ liveWork = <<>>
  /\ at[2] \in DOMAIN references[at[1]]
  /\ LET r == references[at[1]][at[2]]
     IN  holds' = IF r.write THEN [holds EXCEPT ![r.var] = at] ELSE holds
  /\ at' = <<at[1], at[2] + 1>>

(* ... or goes on to a following segment.                                  *)
Follow ==
  /\ liveWork = <<>>
  /\ at[2] \notin DOMAIN references[at[1]]
  /\ \E t \in Elements(nextSegments[at[1]]) : at' = <<t, 1>>
  /\ UNCHANGED holds

LVNext ==
  /\ \/ Propagate /\ UNCHANGED runVars
     \/ (Evaluate \/ Follow) /\ UNCHANGED liveVars
  /\ UNCHANGED <<nextSegments, prevSegments, references>>

LVSpec == LVInit /\ [][LVNext]_lvVars

LVFairSpec == LVSpec /\ WF_lvVars(Propagate /\ LVNext)

-----------------------------------------------------------------------------
(* `willBeRead` of checkSegment() before the references from position k    *)
(* on: the next reference to v decides, or the successors if there is none.*)
WillBeRead(v, s, k) ==
  LET here == {j \in DOMAIN references[s] : j >= k /\ references[s][j].var = v}
  IN  \/ here = {} /\ v \in liveOut[s]
      \/ \E j \in here : /\ references[s][j].read
                         /\ \A i \in here : i >= j

(* checkSegment() finds the store at position k of segment s useless.      *)
DeadStore(s, k) ==
  /\ references[s][k].write
  /\ ~ WillBeRead(references[s][k].var, s, k + 1)

-----------------------------------------------------------------------------
LVTypeOK ==
  /\ GraphOK
  /\ ReferencesOK
  /\ liveWork \in Seq(Segments)
  /\ liveIn \in [Segments -> SUBSET Variables]
  /\ liveOut \in [Segments -> SUBSET Variables]
  /\ at \in Segments \X (Nat \ {0})
  /\ holds \in [Variables -> (Segments \X Nat) \cup {NoStore}]

(* When the worklist of lva() is empty the sets solve the data-flow        *)
(* equations: no segment is left with an `out` that misses what one of its *)
(* successors needs, although `out` is only computed when the segment is   *)
(* taken from the worklist and a segment is only pushed again when the     *)
(* `in` of a successor grew.                                               *)
LiveSolved ==
  liveWork = <<>> =>
    \A s \in Segments : /\ liveOut[s] = OutOf(s)
                        /\ gen(s) \cup difference(s) \subseteq liveIn[s]

(* A store that checkSegment() finds useless is never read: whatever way   *)
(* the execution takes, a read of the variable finds another store.        *)
DeadStoresUnread ==
  liveWork = <<>> /\ at[2] \in DOMAIN references[at[1]] =>
    LET r == references[at[1]][at[2]]
    IN  r.read /\ holds[r.var] # NoStore
          => ~ DeadStore(holds[r.var][1], holds[r.var][2])

(* Once it has taken a segment from its worklist, the loop of lva() ends,  *)
(* whatever cycles the code path has.                                      *)
LiveAnalysisEnds == (liveWork # InitialWork) ~> (liveWork = <<>>)
=============================================================================
