----------------------------- MODULE CodePaths -----------------------------
(***************************************************************************)
(* What the data-flow rules (S1854, S4165) see of a file: the segments of  *)
(* its code paths, the edges between them, and for every segment the       *)
(* references to variables in the order in which they are evaluated.       *)
(*                                                                         *)
(* Segments are numbered in the order in which ESLint reports their start, *)
(* which is the insertion order of the maps the rules keep.                *)
(***************************************************************************)
EXTENDS Naturals, Sequences

CONSTANTS
  N,          \* number of code path segments
  Variables,  \* scope variables
  Literals,   \* raw text of literals
  Opaque      \* any other expression on the right-hand side, or none at all

ASSUME SegmentsAssumption == N \in Nat \ {0}
ASSUME OpaqueAssumption == Opaque \notin Variables \cup Literals
ASSUME ExprAssumption == Variables \cap Literals = {}

VARIABLES
  nextSegments,  \* segment.nextSegments, an array
  prevSegments,  \* segment.prevSegments, an array
  references     \* the references collected for each segment, in order

Segments == 1 .. N

(* A reference: `id` tells references apart, `expr` is its writeExpr.      *)
(* x++ and x += 1 are read and write; x++ has no writeExpr.  `partial`: a  *)
(* write of an element of the writeExpr (for-of, for-in, destructuring),   *)
(* or of a value for which the writeExpr is only the default.  `exempt`:   *)
(* not reported by the rule for what it is (x++, a default value).         *)
Ref == {r \in [id: Nat, var: Variables, read: BOOLEAN, write: BOOLEAN,
               expr: Literals \cup Variables \cup {Opaque},
               partial: BOOLEAN, exempt: BOOLEAN] :
          r.read \/ r.write}

Elements(s) == {s[i] : i \in DOMAIN s}

(* Both arrays describe the same edges.                                    *)
GraphOK ==
  /\ nextSegments \in [Segments -> Seq(Segments)]
  /\ prevSegments \in [Segments -> Seq(Segments)]
  /\ \A s, t \in Segments :
       t \in Elements(nextSegments[s]) <=> s \in Elements(prevSegments[t])

ReferencesOK == references \in [Segments -> Seq(Ref)]
=============================================================================
