---------------------------- MODULE LossyStream ----------------------------
(***************************************************************************)
(* What a path that carries bytes in one direction promises though it may  *)
(* lose some: those that come out do so in the order they went in, none of *)
(* them twice, and a byte that is lost never comes out later.  A byte is   *)
(* its number among those that went in.                                    *)
(***************************************************************************)
EXTENDS Naturals, Sequences

VARIABLES
  given,    \* how many bytes went in
  waiting,  \* those of them that may still come out
  out       \* those that came out, oldest first

streamVars == <<given, waiting, out>>

Init == given = 0 /\ waiting = {} /\ out = <<>>

\* More bytes go in; the path may refuse some.
Give ==
  /\ given' \in Nat /\ given' > given
  /\ waiting \subseteq waiting' /\ waiting' \ waiting \subseteq given + 1 .. given'
  /\ UNCHANGED out

\* Some of the bytes that wait come out, and none that waits is older than them.
Deliver ==
  LET new == Len(out) + 1 .. Len(out')
  IN  /\ out' \in Seq(Nat)
      /\ \A k \in 1 .. Len(out) : k <= Len(out') /\ out'[k] = out[k]
      /\ \A k \in new : out'[k] \in waiting
      /\ \A j, k \in new : j < k => out'[j] < out'[k]
      /\ waiting' = {n \in waiting : \A k \in new : out'[k] < n}
      /\ UNCHANGED given

\* Bytes are lost, and nobody is told.
Lose == waiting' \subseteq waiting /\ UNCHANGED <<given, out>>

Next == Give \/ Deliver \/ Lose

Spec == Init /\ [][Next]_streamVars
=============================================================================
