---------------------------- MODULE BoundedQueue ----------------------------
(***************************************************************************)
(* What a byte FIFO promises to the two sides that share it: a first-in    *)
(* first-out queue of at most Cap bytes.                                   *)
(*                                                                         *)
(* A call of either side spans an interval of time.  How many bytes it     *)
(* will move is settled when it starts (what fits, or what is there, at    *)
(* that moment); the bytes are moved, all at once, when it ends.  A put    *)
(* that finds too little room keeps the first bytes and drops the others.  *)
(***************************************************************************)
EXTENDS Naturals, Sequences

CONSTANTS
  Byte,     \* the values that travel through the queue
  Cap,      \* how many of them it holds
  MaxLen    \* the longest string one call moves

VARIABLES
  queue,    \* the bytes put and not yet taken, oldest first
  put,      \* the bytes the put in progress will add (<<>> when none is)
  get,      \* how many bytes the get in progress will take (0: none)
  result    \* the bytes the last get that took any returned

vars == <<queue, put, get, result>>

Lesser(a, b) == IF a < b THEN a ELSE b

\* The strings a caller hands over: 1 to MaxLen bytes.
Strings == UNION {[1..n -> Byte] : n \in 1..MaxLen}

Init == queue = <<>> /\ put = <<>> /\ get = 0 /\ result = <<>>

BeginPut(s) ==
  /\ put = <<>>
  /\ put' = SubSeq(s, 1, Lesser(Len(s), Cap - Len(queue)))
  /\ UNCHANGED <<queue, get, result>>

EndPut ==
  /\ put # <<>>
  /\ queue' = queue \o put
  /\ put' = <<>>
  /\ UNCHANGED <<get, result>>

BeginGet(n) ==
  /\ get = 0
  /\ get' = Lesser(n, Len(queue))
  /\ UNCHANGED <<queue, put, result>>

EndGet ==
  /\ get # 0
  /\ result' = SubSeq(queue, 1, get)
  /\ queue' = SubSeq(queue, get + 1, Len(queue))
  /\ get' = 0
  /\ UNCHANGED put

Next ==
  \/ \E s \in Strings : BeginPut(s)
  \/ EndPut
  \/ \E n \in 1..MaxLen : BeginGet(n)
  \/ EndGet

Spec == Init /\ [][Next]_vars
=============================================================================
