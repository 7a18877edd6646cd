------------------------------ MODULE MCCache ------------------------------
(***************************************************************************)
(* The incremental cache and what its entries hold.  `turn` is the model   *)
(* that works, the others have not begun:                                  *)
(*   "analyses"  a sequence of analyses (AnalysisCache)                    *)
(*   "ucfgs"     the stream of UCFG files (UcfgSequence)                   *)
(*   "tokens"    the CPD tokens (CpdCodec)                                 *)
(***************************************************************************)
EXTENDS AnalysisCache, UcfgSequence, CpdCodec

VARIABLE turn

(* Two's complement.                                                       *)
MCBits ==
  [n \in 0 .. 2 ^ (Width - 1) - 1 |-> {b \in 0 .. Width - 2 : (n \div 2 ^ b) % 2 = 1}]
(* Ints of one, two, three and four bytes, the largest and a negative one. *)
MCLocations == {<<{}, {0, 1}, {2}, 0 .. 6>>, <<0 .. 3, {4}, 0 .. 5, {0}>>}
(* Two strings of one length, one of them the one that ends the arrays.    *)
MCEnd == <<{0}, {1, 2}>>
MCImages == {<<{0, 2}, {1}>>, MCEnd}

(* Contents are only compared with those of the same file.                 *)
AnalysesIdle == Init /\ \A f, g \in Files : world.content[f] = world.content[g]
UcfgsIdle == files = [n \in Names |-> <<>>] /\ paths = <<>> /\ SeqInit
TokensIdle == tokens = <<>> /\ CodecInit

MCInit ==
  \/ turn = "analyses" /\ AnalysesIdle /\ UcfgsIdle /\ TokensIdle
  \/ turn = "ucfgs" /\ AnalysesIdle /\ SeqInit /\ TokensIdle
  \/ turn = "tokens" /\ AnalysesIdle /\ UcfgsIdle /\ CodecInit

MCNext ==
  /\ \/ turn = "analyses" /\ Next /\ UNCHANGED <<seqVars, codecVars>>
     \/ turn = "ucfgs" /\ SeqNext /\ UNCHANGED <<vars, codecVars>>
     \/ turn = "tokens" /\ CodecNext /\ UNCHANGED <<vars, seqVars>>
  /\ UNCHANGED turn

MCSpec == MCInit /\ [][MCNext]_<<turn, vars, seqVars, codecVars>>

(* The cache only compares these.                                          *)
Symmetry ==
  Permutations(Contents) \cup Permutations(Versions) \cup
  Permutations(UcfgVersions) \cup Permutations(Settings)
=============================================================================
