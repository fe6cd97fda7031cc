---------------------------- MODULE MCLegacySync ----------------------------
(* An instance of LegacySync, and so of AccountBinding, for TLC. *)
EXTENDS LegacySync, TLC

\* No property or action names an account, an enrolment or a version.
Symmetry == Permutations(Accounts) \cup Permutations(Students)
              \cup Permutations(Versions)
=============================================================================
