------------------------------- MODULE MCIntel -------------------------------
(* Instances of Intel for TLC. *)
EXTENDS Intel, TLC

Symmetry == Permutations(Thread)

=============================================================================
