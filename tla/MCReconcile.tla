----------------------------- MODULE MCReconcile -----------------------------
(* An instance of Reconcile for TLC. *)
EXTENDS Reconcile, TLC

\* No property or action names a group or a state.
Symmetry == Permutations(Sourced) \cup Permutations(Fallback)
              \cup Permutations(Subjects) \cup Permutations(States)
=============================================================================
