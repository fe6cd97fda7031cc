-------------------------- MODULE MCTimelineCatchUp --------------------------
(* Instances of TimelineCatchUp for TLC. *)
EXTENDS TimelineCatchUp

AlwaysShown == {TRUE}
SometimesShown == BOOLEAN
=============================================================================
