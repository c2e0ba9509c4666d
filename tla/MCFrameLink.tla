---------------------------- MODULE MCFrameLink ----------------------------
(***************************************************************************)
(* Bytes of two bits; the payloads contain the start and end characters.   *)
(***************************************************************************)
EXTENDS FrameLink, Bitwise

MCXor(a, b) == a ^^ b
MCGaps == {0, Timeout + 2}
MCPayloads == {<<>>, <<StartC, EndC>>}
=============================================================================
