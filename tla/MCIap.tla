------------------------------- MODULE MCIap -------------------------------
(***************************************************************************)
(* A board with pages of two half-words: a page of boot loader, then an    *)
(* application of three half-words sent in pieces of at most two, and data *)
(* behind it, in its last page and in the two pages that follow.           *)
(***************************************************************************)
EXTENDS Iap

MCStart == 2
MCOld == [a \in 2..4 |-> IF a = 3 THEN "stack" ELSE "old"]
MCNew == [a \in 2..4 |-> IF a = 3 THEN "stack" ELSE "new"]
MCBehind == [a \in 5..9 |-> "data"]
MCStackTops == {"stack"}
=============================================================================
