--------------------------- MODULE MCReceivePact ---------------------------
(***************************************************************************)
(* Small instances of ReceivePact.                                         *)
(***************************************************************************)
EXTENDS ReceivePact, Bitwise

MCXor(a, b) == a ^^ b

\* The longest pause that does not count, the first that does and one that no
\* clock reading can miss.
MCGaps == {Timeout, Timeout + 1, Timeout + 2}
=============================================================================
