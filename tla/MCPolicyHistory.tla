--------------------------- MODULE MCPolicyHistory ---------------------------
(* Instances of PolicyHistory for TLC. *)
EXTENDS PolicyHistory, TLC

Symmetry == Permutations(Procs)

NoJumps == {}
BackAndForth == {-5, 5}
=============================================================================
