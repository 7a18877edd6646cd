--------------------------- MODULE MCEmbeddedNode ---------------------------
(* EmbeddedNode for TLC; the processes and versions are interchangeable. *)
EXTENDS EmbeddedNode, TLC

Symmetry == Permutations(Process) \cup Permutations(Version)
=============================================================================
