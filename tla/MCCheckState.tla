---------------------------- MODULE MCCheckState ----------------------------
(* Instances of CheckState for TLC. *)
EXTENDS CheckState, TLC

\* No property or action names an enrolment, a record or a consumer.
Symmetry == Permutations(Enrolments) \cup Permutations(Records)
              \cup Permutations(Consumers)
=============================================================================
