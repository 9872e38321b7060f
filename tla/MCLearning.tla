----------------------------- MODULE MCLearning -----------------------------
(* Instances of Learning for TLC. *)
EXTENDS Learning, TLC

Symmetry == Permutations(Session) \cup Permutations(Worker)
              \cup Permutations(Objective)

\* The costs of the two hints of lab mpesa-bola-01.
TwoHints == <<5, 15>>

=============================================================================
