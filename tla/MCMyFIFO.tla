------------------------------ MODULE MCMyFIFO ------------------------------
(***************************************************************************)
(* Small instances of MyFIFO.                                              *)
(***************************************************************************)
EXTENDS MyFIFO
=============================================================================
