---------------------------- MODULE MCSessionApi ----------------------------
(* Instances of SessionApi for TLC. *)
EXTENDS SessionApi, TLC

Symmetry == Permutations(Session) \cup Permutations(Worker)
              \cup Permutations(Seed) \cup Permutations(User)

=============================================================================
