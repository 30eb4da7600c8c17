------------------------------ MODULE MCServer ------------------------------
(* Small instances of Server for TLC. *)
EXTENDS Server, TLC

Symmetry == Permutations(Conns)
=============================================================================
