--------------------------- MODULE MCRequestPolicy ---------------------------
(* An instance of RequestPolicy for TLC. *)
EXTENDS RequestPolicy

\* The wall clock is stepped by a day.
DayBackAndForth == {-3, 3}
=============================================================================
