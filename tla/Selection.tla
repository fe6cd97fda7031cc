------------------------------- MODULE Selection -------------------------------
(***************************************************************************)
(* What a loop keeps that passes over a list and appends the items it      *)
(* wants: the unread items of a page, the changes that are reported, the   *)
(* cookies that have not ended.                                            *)
(*                                                                         *)
(* SelectSeq of the standard modules says the same, but the provers know   *)
(* nothing of it.  SelectionProofs states what Selected gives.             *)
(***************************************************************************)
EXTENDS Integers, Sequences

\* The items of s at the chosen positions, in their order.
Selected(s, chosen) ==
  LET upTo[i \in 0 .. Len(s)] ==
        IF i = 0 THEN <<>>
        ELSE IF i \in chosen THEN Append(upTo[i - 1], s[i]) ELSE upTo[i - 1]
  IN  upTo[Len(s)]
================================================================================
